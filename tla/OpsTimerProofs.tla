---------------------------- MODULE OpsTimerProofs ----------------------------
(***************************************************************************)
(* What becomes of the rungs of a fault: that it has one as long as it is  *)
(* owed one, that a promise or an answer ends them, that none is swallowed *)
(* and none comes too early.                                               *)
(*                                                                         *)
(* Some of this holds whatever the operators do, and some only without     *)
(* the operations that change a timer behind its owner's back; a theorem   *)
(* of the second kind names them as an assumption on Ops or EtaHours.      *)
(***************************************************************************)
EXTENDS ContractProofs

\* No timer is moved by hand: the endpoints that hand a job over.
NoHandover == {"pass", "remind"} \cap Ops = {}

\* Every answer is to a question that was sent.
OnlyReplies == {"named", "panel"} \cap Ops = {}

\* A question is brought forward only by an answer to it.
HandoverAnswers == "remind" \notin Ops /\ ("pass" \in Ops => "named" \notin Ops)

\* Every ladder goes on for as long as its fault does.
AllRepeat == Repeats(UnknownLadder) /\ \A c \in Ticketable : Repeats(LadderFor[c])

\* The first question comes no sooner than a stop is too long for a short one.
AsksLate == UnknownLadder # << >> => MinDuration <= UnknownLadder[1].after

-----------------------------------------------------------------------------
(* The inductive invariants. *)

\* What the ticker has found due is still due, or gone.
DueStays == \A r \in due : esc[r] # NoRow => esc[r].due = 0

\* Nobody is about to move a timer.
NobodyHandsOver == \A q \in Request : req[q].doing # "forward"

\* The check of an estimate comes when the estimate ends.
CheckAtTheEnd == \A r \in Rows : esc[r].act = "eta_check" => esc[r].due = tkt[esc[r].tkt].eta

EtaInv == EtaSnoozes /\ CheckAtTheEnd /\ DueStays /\ NobodyHandsOver

\* A page about an incident came after the incident.
PagesRefer == \A m \in outbox : m.inc # NULL => m.inc \in Incidents /\ inc[m.inc].status # "none"

\* Nobody has said or is about to say anything about an incident that is still to be
\* classified.
FreshUntold ==
  \A i \in fresh : \A m \in outbox : m.inc # i

FreshUnanswered ==
  \A i \in fresh : /\ inc[i].reasons = << >> /\ inc[i].status # "resolving"
                   /\ \A q \in Request : req[q].doing = "reason" => req[q].inc # i

\* A batch has one event a loom, and an incident it has raised is of a loom whose event
\* has been dealt with.
BatchOnce ==
  /\ \A e, f \in batch : e.asset = f.asset => e = f
  /\ \A e \in batch : \A i \in fresh : inc[i].asset # e.asset
  /\ pollPc = "act" =>
       /\ \A e \in batch : e.asset # ev.asset
       /\ \A i \in fresh : inc[i].asset # ev.asset
  /\ found # NotFound => pollPc = "act" /\ inc[found.id].asset = ev.asset
  /\ pollPc \in {"idle", "classify"} => batch = {}
  /\ pollPc = "idle" => fresh = {}

AnswerInv == AnsweredStopsAsking /\ PagesRefer /\ FreshUntold /\ FreshUnanswered /\ BatchOnce

\* As long as the database fails nobody: a fault that stands has a rung or an answer, and
\* its ticket a rung.
Chased(i) == inc[i].status = "open" /\ ~inc[i].reopened

ChaseInv ==
  faults = 0 =>
    /\ \A i \in Incidents : Chased(i) =>
         i \in fresh \/ inc[i].reasons # << >> \/ \E r \in Rows : esc[r].inc = i
    /\ \A t \in Tickets : tkt[t].status = "open" /\ Chased(tkt[t].inc) =>
         \E r \in Rows : esc[r].tkt = t

\* The rung of a ladder that is pending has not been used: those before it have, and it
\* has only if it is the last and repeats.
RungsRise ==
  \A r \in Rows : \A m \in outbox :
    esc[r] # NoRow /\ m.inc = esc[r].inc /\ m.tkt = esc[r].tkt =>
      m.rung <= esc[r].rung /\ (esc[r].trig # "repeat" => m.rung < esc[r].rung)

PageInv == RungsRise /\ PagesRefer /\ FreshUntold

\* Nobody is asked about a stop that is still a short one, nor will be.
AskedLate ==
  /\ \A r \in Rows : esc[r].inc # NULL =>
       MinDuration <= AgeCap /\ MinDuration <= inc[esc[r].inc].age + esc[r].due
  /\ \A m \in outbox : m.inc # NULL =>
       /\ MinDuration <= AgeCap /\ MinDuration <= inc[m.inc].age
       /\ inc[m.inc].status = "resolving" => MinDuration <= inc[m.inc].ran

\* Who is about to bring a question forward has been sent one.
AskedFirst ==
  \A q \in Request : req[q].doing = "forward" /\ req[q].inc # NULL =>
    \E m \in outbox : m.inc = req[q].inc

LateInv == AskedLate /\ AskedFirst /\ PagesRefer /\ DueStays

-----------------------------------------------------------------------------
(* Steps that schedule nothing and tell nobody anything. *)

\* Rungs are as they were or gone, and no row is about another time than before.
Quiet ==
  /\ \A r \in Rows : esc'[r] = NoRow \/ esc'[r] = esc[r]
  /\ \A t \in Tickets : tkt'[t].eta = tkt[t].eta
  /\ outbox' = outbox
  /\ \A i \in Incidents :
       \/ inc'[i].reasons = inc[i].reasons \/ inc'[i].reasons = << >>
       \/ \A r \in Rows : esc'[r].inc # i
  /\ \A i \in Incidents : inc[i].status # "none" =>
       /\ inc'[i].status # "none" /\ inc'[i].age = inc[i].age
       /\ inc'[i].status = "resolving" =>
            \/ inc[i].status = "resolving" /\ inc'[i].ran = inc[i].ran
            \/ inc'[i].ran = inc[i].age

\* What writes none of the tables schedules nothing.
LEMMA IdleIsQuiet ==
  ASSUME UNCHANGED <<inc, tkt, esc, outbox>>
  PROVE  Quiet
BY DEF Quiet

\* open_incident schedules nothing: on_open does, later.
LEMMA InsertIsQuiet ==
  ASSUME RInv, PollInsert
  PROVE  Quiet
<1>0. TablesOK
  BY TablesTyped DEF RInv
<1>1. PICK i \in Incidents :
        /\ inc[i].status = "none"
        /\ inc' = [inc EXCEPT ![i] = [NoIncident EXCEPT !.asset = ev.asset, !.status = "open"]]
  BY DEF PollInsert, NextIncident
<1>2. /\ inc'[i].reasons = << >>
      /\ \A j \in Incidents \ {i} : inc'[j] = inc[j]
  BY <1>0, <1>1 DEF TablesOK, NoIncident
<1>3. UNCHANGED <<tkt, esc, outbox>>
  BY DEF PollInsert, mail
<1> QED
  BY <1>1, <1>2, <1>3 DEF Quiet

\* reopen schedules nothing, which is why a reopened fault may be silent.
LEMMA ReopenIsQuiet ==
  ASSUME RInv, PollReopen
  PROVE  Quiet
<1>0. TablesOK
  BY TablesTyped DEF RInv
<1>1. UNCHANGED <<esc, outbox>>
  BY DEF PollReopen, mail
<1>2. CASE UNCHANGED <<inc, tkt>>
  BY <1>1, <1>2 DEF Quiet
<1>3. CASE /\ inc' = [inc EXCEPT ![found.id] = Reopened(@)]
           /\ \E again \in LimitOne(OpenTickets(found.id)) :
                tkt' = [t \in Tickets |-> IF t \in again
                          THEN [tkt[t] EXCEPT !.reopens = @ + 1] ELSE tkt[t]]
  <2>1. ASSUME NEW j \in Incidents
        PROVE  /\ inc'[j].reasons = inc[j].reasons /\ inc'[j].age = inc[j].age
               /\ j # found.id => inc'[j] = inc[j]
               /\ j = found.id => inc'[j].status = "open"
    <3>1. inc[j] \in IncidentRow
      BY <1>0 DEF TablesOK
    <3> QED
      BY <1>0, <1>3, <3>1 DEF TablesOK, IncidentRow, Reopened
  <2>2. ASSUME NEW t \in Tickets
        PROVE  tkt'[t].eta = tkt[t].eta
    <3>1. tkt[t] \in TicketRow
      BY <1>0 DEF TablesOK
    <3> QED
      BY <1>3, <3>1 DEF TicketRow
  <2>3. \A j \in Incidents : inc'[j].status # "resolving" \/ inc'[j] = inc[j]
    BY <2>1
  <2>4. \A j \in Incidents : inc[j].status # "none" => inc'[j].status # "none"
    BY <2>1
  <2> QED
    BY <1>1, <2>1, <2>2, <2>3, <2>4 DEF Quiet
<1> QED
  BY <1>2, <1>3 DEF PollReopen

\* begin_resolve records that the loom ran at the age the fault then had.
LEMMA ResolveIsQuiet ==
  ASSUME RInv, PollResolve
  PROVE  Quiet
<1>0. TablesOK
  BY TablesTyped DEF RInv
<1>1. UNCHANGED <<tkt, esc, outbox>>
  BY DEF PollResolve, mail
<1>2. CASE UNCHANGED inc
  BY <1>1, <1>2 DEF Quiet
<1>3. CASE inc' = [inc EXCEPT ![found.id].status = "resolving", ![found.id].left = Grace,
                              ![found.id].ran = inc[found.id].age]
  <2>1. ASSUME NEW j \in Incidents
        PROVE  /\ inc'[j].reasons = inc[j].reasons /\ inc'[j].age = inc[j].age
               /\ j # found.id => inc'[j] = inc[j]
               /\ j = found.id => inc'[j].status = "resolving" /\ inc'[j].ran = inc[j].age
    <3>1. inc[j] \in IncidentRow
      BY <1>0 DEF TablesOK
    <3> QED
      BY <1>0, <1>3, <3>1 DEF TablesOK, IncidentRow
  <2>2. \A j \in Incidents : inc[j].status # "none" =>
          /\ inc'[j].status # "none"
          /\ inc'[j] = inc[j] \/ inc'[j].ran = inc[j].age
    BY <2>1
  <2> QED
    BY <1>1, <2>1, <2>2 DEF Quiet
<1> QED
  BY <1>2, <1>3 DEF PollResolve

\* commit_resolve gives a short stop its reason and cancels its rungs in one go.
LEMMA CommitIsQuiet ==
  ASSUME RInv, NEW i \in settled, TickCommit(i)
  PROVE  Quiet
<1>0. TablesOK
  BY TablesTyped DEF RInv
<1>1. outbox' = outbox /\ i \in Incidents /\ i # NULL
  BY DEF TickCommit, mail, RInv, IInv, TypeOK, Incidents, NULL
<1>2. CASE UNCHANGED <<inc, tkt, esc>>
  BY <1>1, <1>2, IdleIsQuiet
<1>3. CASE /\ inc' = [inc EXCEPT ![i].status = "resolved", ![i].left = 0,
                        ![i].reasons = IF @ = << >> /\ inc[i].ran < MinDuration
                                         THEN << "short_stop" >> ELSE @]
           /\ \E shut \in LimitOne(OpenTickets(i)) :
                /\ tkt' = [t \in Tickets |-> IF t \in shut
                             THEN [tkt[t] EXCEPT !.status = "closed"] ELSE tkt[t]]
                /\ esc' = CancelAll({i}, shut)
  <2> DEFINE why == IF inc[i].reasons = << >> /\ inc[i].ran < MinDuration
                      THEN << "short_stop" >> ELSE inc[i].reasons
  <2>0. inc' = [inc EXCEPT ![i].status = "resolved", ![i].left = 0, ![i].reasons = why]
    BY <1>3
  <2> HIDE DEF why
  <2>1. ASSUME NEW j \in Incidents
        PROVE  /\ inc'[j].age = inc[j].age
               /\ j # i => inc'[j] = inc[j]
               /\ j = i => inc'[j].status = "resolved"
    <3>1. inc[j] \in IncidentRow
      BY <1>0 DEF TablesOK
    <3> QED
      BY <1>0, <1>1, <2>0, <3>1 DEF TablesOK, IncidentRow
  <2>2. PICK shut : /\ tkt' = [t \in Tickets |-> IF t \in shut
                                 THEN [tkt[t] EXCEPT !.status = "closed"] ELSE tkt[t]]
                    /\ esc' = CancelAll({i}, shut)
    BY <1>3
  <2>3. ASSUME NEW t \in Tickets
        PROVE  tkt'[t].eta = tkt[t].eta
    <3>1. tkt[t] \in TicketRow
      BY <1>0 DEF TablesOK
    <3> QED
      BY <2>2, <3>1 DEF TicketRow
  <2>4. \A r \in Rows : /\ esc'[r] = NoRow \/ esc'[r] = esc[r]
                        /\ esc'[r].inc # i
    BY <1>1, <2>2, NoRowFields DEF CancelAll
  <2>5. \A j \in Incidents : inc'[j].status # "resolving" \/ inc'[j] = inc[j]
    BY <2>1
  <2>6. \A j \in Incidents : inc[j].status # "none" => inc'[j].status # "none"
    BY <2>1
  <2> QED
    BY <1>1, <2>1, <2>3, <2>4, <2>5, <2>6 DEF Quiet
<1> QED
  BY <1>2, <1>3 DEF TickCommit

\* A rung that is parked as wedged is gone.
LEMMA WedgeIsQuiet ==
  ASSUME RInv, NEW r \in due, TickWedge(r)
  PROVE  Quiet
<1>0. TablesOK
  BY TablesTyped DEF RInv
<1>1. UNCHANGED <<inc, tkt, outbox>> /\ esc' = [esc EXCEPT ![r] = NoRow]
  BY DEF TickWedge, mail
<1> QED
  BY <1>0, <1>1 DEF Quiet, TablesOK

\* Going off plan and retirement cancel, and schedule nothing.
LEMMA PanelIsQuiet ==
  ASSUME RInv, NEW a \in Asset, SetOffplan(a) \/ Decommission(a)
  PROVE  Quiet
<1>0. TablesOK
  BY TablesTyped DEF RInv
<1> DEFINE gone == LiveOf(a)
           shut == UNION {OpenTickets(i) : i \in gone}
<1>1. outbox' = outbox
  BY DEF SetOffplan, Decommission, mail
<1>2. inc' = [i \in Incidents |-> IF i \in gone
               THEN [inc[i] EXCEPT !.status = "resolved", !.ran = inc[i].age] ELSE inc[i]]
  BY DEF SetOffplan, Decommission
<1> HIDE DEF gone
<1>3. ASSUME NEW j \in Incidents
      PROVE  /\ inc'[j].age = inc[j].age /\ inc'[j].reasons = inc[j].reasons
             /\ inc'[j] = inc[j] \/ inc'[j].status = "resolved"
  <2>1. inc[j] \in IncidentRow
    BY <1>0 DEF TablesOK
  <2> QED
    BY <1>2, <2>1 DEF IncidentRow
<1>4. ASSUME NEW t \in Tickets
      PROVE  tkt'[t].eta = tkt[t].eta
  <2>1. tkt[t] \in TicketRow
    BY <1>0 DEF TablesOK
  <2>2. tkt' = tkt \/ tkt' = [u \in Tickets |-> IF u \in shut
                                THEN [tkt[u] EXCEPT !.status = "closed"] ELSE tkt[u]]
    BY DEF SetOffplan, Decommission, gone
  <2> HIDE DEF shut
  <2> QED
    BY <2>1, <2>2 DEF TicketRow
<1>5. \A r \in Rows : esc'[r] = NoRow \/ esc'[r] = esc[r]
  BY DEF SetOffplan, Decommission, CancelAll
<1> QED
  BY <1>1, <1>3, <1>4, <1>5 DEF Quiet

\* Every step schedules nothing, or is one of the six operations that move time, write a
\* rung or move one.
LEMMA StepKinds ==
  ASSUME RInv, [Next]_vars
  PROVE  \/ Quiet \/ Advance
         \/ (\E i \in fresh : PollClassify(i))
         \/ (\E r \in due : TickFire(r))
         \/ (\E q \in Request : Act(q))
<1>1. CASE UNCHANGED vars
  BY <1>1, IdleIsQuiet DEF vars, tables
<1>2. ASSUME NEW a \in Asset, MachineStops(a) \/ MachineRuns(a) \/ Panel(a)
      PROVE  Quiet
  BY <1>2, IdleIsQuiet, PanelIsQuiet
  DEF Panel, MachineStops, MachineRuns, OffplanEnds, Recommission, tables
<1>3. CASE PollerStep
  <2>1. PollFetch \/ (\E e \in batch : PollRead(e)) => UNCHANGED <<inc, tkt, esc, outbox>>
    BY DEF PollFetch, PollRead, tables
  <2> QED
    BY <1>3, <2>1, IdleIsQuiet, InsertIsQuiet, ReopenIsQuiet, ResolveIsQuiet DEF PollerStep
<1>4. CASE TickerStep
  <2>1. TickBegin \/ TickQuery => UNCHANGED <<inc, tkt, esc, outbox>>
    BY DEF TickBegin, TickQuery, tables
  <2> QED
    BY <1>4, <2>1, IdleIsQuiet, CommitIsQuiet DEF TickerStep
<1>5. ASSUME NEW q \in Request, Answer(q)
      PROVE  Quiet
  BY <1>5, IdleIsQuiet
  DEF Answer, ReplyToPrompt, NamedReply, PanelReason, PanelRemind, ReplyToEta, Begin, tables
<1>6. CASE Trouble
  <2>1. PollFails \/ TickFails \/ Restart \/ (\E m \in outbox : MessageDies(m)) =>
          UNCHANGED <<inc, tkt, esc, outbox>>
    BY DEF PollFails, TickFails, Restart, MessageDies, tables
  <2> QED
    BY <1>6, <2>1, IdleIsQuiet, WedgeIsQuiet DEF Trouble
<1> QED
  BY <1>1, <1>2, <1>3, <1>4, <1>5, <1>6 DEF Next

\* The ticker takes up only what is due when it asks.
LEMMA DueTaken ==
  ASSUME RInv, [Next]_vars, NEW r \in due', r \notin due
  PROVE  esc[r].due = 0 /\ esc' = esc
<1>1. CASE UNCHANGED vars
  BY <1>1 DEF vars, ticker
<1>2. CASE TickQuery
  BY <1>2 DEF TickQuery, tables
<1>3. ASSUME NEW a \in Asset, MachineStops(a) \/ MachineRuns(a) \/ Panel(a)
      PROVE  due' = due
  BY <1>3
  DEF Panel, MachineStops, MachineRuns, SetOffplan, Decommission, OffplanEnds, Recommission, ticker
<1>4. PollerStep \/ Advance => due' = due
  BY DEF PollerStep, PollFetch, PollRead, PollInsert, PollReopen, PollResolve, PollClassify,
     Advance, ticker
<1>5. TickerStep => due' \subseteq due \/ TickQuery
  BY DEF TickerStep, TickBegin, TickCommit, TickFire, RowDone
<1>6. ASSUME NEW q \in Request, Answer(q) \/ Act(q)
      PROVE  due' = due
  BY <1>6
  DEF Answer, ReplyToPrompt, NamedReply, PanelReason, PanelRemind, ReplyToEta, Begin, Act,
      RequestReason, RequestEta, RequestForward, Finish, ticker
<1>7. Trouble => due' \subseteq due
  BY DEF Trouble, PollFails, TickFails, Restart, TickWedge, MessageDies, RowDone, ticker
<1> QED
  BY <1>1, <1>2, <1>3, <1>4, <1>5, <1>6, <1>7 DEF Next

\* A request begins with a question that was sent, if nobody names the loom and nobody
\* uses the panel; and it hands no job over if there is no endpoint that does, nor before
\* the job was sent to somebody if nobody can do so by the loom's name or the panel.
LEMMA RequestsTaken ==
  ASSUME RInv, [Next]_vars, NEW q \in Request
  PROVE  \/ req'[q] = req[q] \/ req'[q].doing \in {"idle", "eta"}
         \/ /\ req'[q].doing = "forward" /\ ~NoHandover
            /\ HandoverAnswers /\ req'[q].inc # NULL => \E m \in outbox : m.inc = req'[q].inc
         \/ /\ req'[q].doing = "reason"
            /\ OnlyReplies => \E m \in outbox : m.inc = req'[q].inc
<1>0. req \in [Request -> RequestState] /\ Idle.doing = "idle"
  BY DEF RInv, IInv, TypeOK, Idle
<1>1. CASE UNCHANGED vars
  BY <1>1 DEF vars
<1>2. ASSUME NEW a \in Asset, MachineStops(a) \/ MachineRuns(a) \/ Panel(a)
      PROVE  req' = req
  BY <1>2
  DEF Panel, MachineStops, MachineRuns, SetOffplan, Decommission, OffplanEnds, Recommission
<1>3. PollerStep \/ Advance \/ TickerStep => req' = req
  BY DEF PollerStep, PollFetch, PollRead, PollInsert, PollReopen, PollResolve, PollClassify,
     Advance, TickerStep, TickBegin, TickCommit, TickQuery, TickFire
<1>4. ASSUME NEW p \in Request, Act(p)
      PROVE  req' = [req EXCEPT ![p] = Idle]
  BY <1>4 DEF Act, RequestReason, RequestEta, RequestForward, Finish
<1>5. Trouble => req' = req \/ req' = [p \in Request |-> Idle]
  BY DEF Trouble, PollFails, TickFails, Restart, TickWedge, MessageDies
<1>6. ASSUME NEW p \in Request, Answer(p)
      PROVE  \/ req'[q] = req[q] \/ req'[q].doing = "eta"
             \/ /\ req'[q].doing = "forward" /\ ~NoHandover
                /\ HandoverAnswers /\ req'[q].inc # NULL => \E m \in outbox : m.inc = req'[q].inc
             \/ /\ req'[q].doing = "reason"
                /\ OnlyReplies => \E m \in outbox : m.inc = req'[q].inc
  <2>1. PICK doing, i, t :
          /\ req' = [req EXCEPT ![p] = [doing |-> doing, inc |-> i, tkt |-> t]]
          /\ \/ doing = "eta"
             \/ /\ doing = "forward" /\ ~NoHandover
                /\ HandoverAnswers /\ i # NULL => \E m \in outbox : m.inc = i
             \/ doing = "reason" /\ (OnlyReplies => \E m \in outbox : m.inc = i)
    <3>1. ASSUME NEW i \in Incidents, ReplyToPrompt(p, i)
          PROVE  \/ Begin(p, "reason", i, NULL) /\ \E m \in outbox : m.inc = i
                 \/ /\ Begin(p, "forward", i, NULL) /\ ~NoHandover
                    /\ \E m \in outbox : m.inc = i
      BY <3>1 DEF ReplyToPrompt, NoHandover
    <3>2. ASSUME NEW i \in Incidents, NamedReply(p, i) \/ PanelReason(p, i)
          PROVE  \/ Begin(p, "reason", i, NULL) /\ ~OnlyReplies
                 \/ Begin(p, "forward", i, NULL) /\ ~NoHandover /\ ~HandoverAnswers
      BY <3>2 DEF NamedReply, PanelReason, OnlyReplies, NoHandover, HandoverAnswers
    <3>3. ASSUME NEW i \in Incidents, PanelRemind(p, i)
          PROVE  \E t \in Tickets \cup {NULL} :
                   Begin(p, "forward", i, t) /\ ~NoHandover /\ ~HandoverAnswers
      BY <3>3 DEF PanelRemind, NoHandover, HandoverAnswers, OpenTickets
    <3>4. ASSUME NEW t \in Tickets, ReplyToEta(p, t)
          PROVE  \/ Begin(p, "eta", NULL, t)
                 \/ Begin(p, "forward", NULL, t) /\ ~NoHandover
      BY <3>4 DEF ReplyToEta, NoHandover
    <3> QED
      BY <1>6, <3>1, <3>2, <3>3, <3>4 DEF Answer, Begin
  <2>2. req' = [req EXCEPT ![p] = [doing |-> doing, inc |-> i, tkt |-> t]]
    BY <2>1
  <2>3. CASE q # p
    BY <1>0, <2>2, <2>3
  <2>4. CASE q = p
    <3>1. req'[q] = [doing |-> doing, inc |-> i, tkt |-> t]
      BY <1>0, <2>2, <2>4
    <3>2. req'[q].doing = doing /\ req'[q].inc = i
      BY <3>1
    <3> QED
      BY <2>1, <3>2
  <2> QED
    BY <2>3, <2>4
<1> QED
  BY <1>0, <1>1, <1>2, <1>3, <1>4, <1>5, <1>6 DEF Next

\* If nobody can hand a job over, nobody is about to.
LEMMA NobodyStarts ==
  ASSUME NoHandover, RInv, NobodyHandsOver, [Next]_vars
  PROVE  NobodyHandsOver'
BY RequestsTaken DEF NobodyHandsOver

-----------------------------------------------------------------------------
(* What the operations do that are not quiet. *)

\* One unit of time passes everywhere at once, and nothing else happens.
LEMMA TimePasses ==
  ASSUME RInv, Advance
  PROVE  /\ UNCHANGED <<outbox, fresh, faults, req, due>>
         /\ \A r \in Rows : /\ esc'[r].inc = esc[r].inc /\ esc'[r].tkt = esc[r].tkt
                            /\ esc'[r].act = esc[r].act /\ esc'[r].rung = esc[r].rung
                            /\ esc'[r].trig = esc[r].trig /\ esc'[r].due = Less(esc[r].due)
                            /\ (esc'[r] = NoRow <=> esc[r] = NoRow)
         /\ \A t \in Tickets : /\ tkt'[t].inc = tkt[t].inc /\ tkt'[t].status = tkt[t].status
                               /\ tkt[t].status # "none" => tkt'[t].eta = Less(tkt[t].eta)
         /\ \A i \in Incidents : /\ inc'[i].status = inc[i].status
                                 /\ inc'[i].reasons = inc[i].reasons
                                 /\ inc'[i].ran = inc[i].ran /\ inc'[i].asset = inc[i].asset
                                 /\ inc'[i].reopened = inc[i].reopened
                                 /\ inc[i].status # "none" => inc'[i].age = Older(inc[i].age)
<1>0. TablesOK
  BY TablesTyped DEF RInv
<1>1. UNCHANGED <<outbox, fresh, faults, req, due>>
  BY DEF Advance, mail, poller, ticker
<1>2. ASSUME NEW r \in Rows
      PROVE  /\ esc'[r].inc = esc[r].inc /\ esc'[r].tkt = esc[r].tkt
             /\ esc'[r].act = esc[r].act /\ esc'[r].rung = esc[r].rung
             /\ esc'[r].trig = esc[r].trig /\ esc'[r].due = Less(esc[r].due)
             /\ (esc'[r] = NoRow <=> esc[r] = NoRow)
  <2>1. esc[r] \in Row
    BY <1>0 DEF TablesOK
  <2>2. esc'[r] = [esc[r] EXCEPT !.due = Less(@)]
    BY DEF Advance
  <2>3. esc[r] = NoRow => esc'[r] = NoRow
    BY <2>2 DEF NoRow, Less
  <2>4. esc[r] # NoRow => esc'[r] # NoRow
    <3>1. esc[r] # NoRow => esc[r].inc # NULL \/ esc[r].tkt # NULL
      BY DEF RInv, IInv, RowsRefer, Incidents, Tickets, NULL
    <3> QED
      BY <2>1, <2>2, <3>1, NoRowFields DEF Row, Pending
  <2> QED
    BY <2>1, <2>2, <2>3, <2>4 DEF Row, Pending
<1>3. ASSUME NEW t \in Tickets
      PROVE  /\ tkt'[t].inc = tkt[t].inc /\ tkt'[t].status = tkt[t].status
             /\ tkt[t].status # "none" => tkt'[t].eta = Less(tkt[t].eta)
  <2>1. tkt[t] \in TicketRow
    BY <1>0 DEF TablesOK
  <2> QED
    BY <2>1 DEF Advance, TicketRow
<1>4. ASSUME NEW i \in Incidents
      PROVE  /\ inc'[i].status = inc[i].status
             /\ inc'[i].reasons = inc[i].reasons
             /\ inc'[i].ran = inc[i].ran /\ inc'[i].asset = inc[i].asset
             /\ inc'[i].reopened = inc[i].reopened
             /\ inc[i].status # "none" => inc'[i].age = Older(inc[i].age)
  <2>1. inc[i] \in IncidentRow
    BY <1>0 DEF TablesOK
  <2> QED
    BY <2>1 DEF Advance, IncidentRow
<1> QED
  BY <1>1, <1>2, <1>3, <1>4

\* The rungs that set_reason leaves: those of its incident are gone.
Kept(r, i) == IF esc[r].inc = i THEN NoRow ELSE esc[r]

\* What was appended to is not empty.
LEMMA AppendIsNotEmpty ==
  ASSUME NEW S, NEW s \in Seq(S), NEW e \in S
  PROVE  Append(s, e) # << >>
<1>1. Len(Append(s, e)) = Len(s) + 1 /\ Len(s) \in Nat
  OBVIOUS
<1>2. Len(<< >>) = 0
  OBVIOUS
<1> QED BY <1>1, <1>2

\* set_reason adds a reason and cancels the prompts; if it opens a ticket, the ticket is
\* new, has no estimate, and its first rung is the one that is added.
LEMMA ReasonGives ==
  ASSUME RInv, NEW i \in Incidents, NEW code \in Codes, NEW age \in 0 .. AgeCap,
         SetReason(i, code, age)
  PROVE  /\ \A j \in Incidents \ {i} : inc'[j] = inc[j]
         /\ inc'[i].status = inc[i].status /\ inc'[i].age = inc[i].age
         /\ inc'[i].ran = inc[i].ran /\ inc'[i].asset = inc[i].asset
         /\ inc'[i].reopened = inc[i].reopened /\ inc'[i].reasons # << >>
         /\ \/ tkt' = tkt /\ \A r \in Rows : esc'[r] = Kept(r, i)
            \/ \E t \in Tickets :
                 /\ tkt[t].status = "none" /\ tkt'[t].inc = i /\ tkt'[t].eta = 0
                 /\ code \in Ticketable
                 /\ \A u \in Tickets \ {t} : tkt'[u] = tkt[u]
                 /\ \/ LadderFor[code] = << >> /\ \A r \in Rows : esc'[r] = Kept(r, i)
                    \/ \E s \in Rows :
                         /\ FreeRow(s) /\ esc'[s].tkt = t /\ esc'[s].inc = NULL
                         /\ esc'[s] # NoRow /\ esc'[s].act # "eta_check"
                         /\ \A r \in Rows \ {s} : esc'[r] = Kept(r, i)
<1>0. TablesOK
  BY TablesTyped DEF RInv
<1>1. /\ \A j \in Incidents \ {i} : inc'[j] = inc[j]
      /\ inc'[i].status = inc[i].status /\ inc'[i].age = inc[i].age
      /\ inc'[i].ran = inc[i].ran /\ inc'[i].asset = inc[i].asset
      /\ inc'[i].reopened = inc[i].reopened /\ inc'[i].reasons # << >>
  <2>1. inc' = [inc EXCEPT ![i].reasons = Append(@, code)]
    BY DEF SetReason
  <2>2. inc[i] \in IncidentRow
    BY <1>0 DEF TablesOK
  <2>3. inc[i].reasons \in Seq(Codes)
    BY <2>2 DEF IncidentRow
  <2>4. Append(inc[i].reasons, code) # << >>
    BY <2>3, AppendIsNotEmpty
  <2> QED
    BY <1>0, <2>1, <2>2, <2>3, <2>4 DEF TablesOK, IncidentRow
<1>2. CASE tkt' = tkt /\ esc' = CancelForIncident(i)
  BY <1>1, <1>2 DEF CancelForIncident, Kept
<1>3. CASE code \in Ticketable /\ OpenTicket(i, code, age)
  <2> DEFINE new == [NoTicket EXCEPT !.inc = i, !.code = code, !.status = "open", !.age = age]
             prior == Prior(i, code) + (IF age <= RecurWindow THEN 1 ELSE 0)
  <2>1. PICK t \in Tickets :
          /\ NextTicket(t)
          /\ tkt' = [tkt EXCEPT ![t] = new]
          /\ \/ LadderFor[code] = << >> /\ esc' = CancelForIncident(i)
             \/ LadderFor[code] # << >> /\ \E s \in Rows :
                  /\ NextRow(s)
                  /\ esc' = [CancelForIncident(i) EXCEPT ![s] = FirstPage(t, code, age, prior)]
    BY <1>3 DEF OpenTicket
  <2>2. tkt[t].status = "none"
    BY <2>1 DEF NextTicket
  <2>3. tkt'[t].inc = i /\ tkt'[t].eta = 0 /\ \A u \in Tickets \ {t} : tkt'[u] = tkt[u]
    BY <1>0, <2>1 DEF TablesOK, NoTicket
  <2>4. CASE LadderFor[code] = << >> /\ esc' = CancelForIncident(i)
    <3>1. \A r \in Rows : esc'[r] = Kept(r, i)
      BY <2>4 DEF CancelForIncident, Kept
    <3> QED
      BY <1>1, <1>3, <2>2, <2>3, <2>4, <3>1
  <2>5. CASE LadderFor[code] # << >> /\ \E s \in Rows :
                  /\ NextRow(s)
                  /\ esc' = [CancelForIncident(i) EXCEPT ![s] = FirstPage(t, code, age, prior)]
    <3>1. PICK s \in Rows :
            /\ NextRow(s)
            /\ esc' = [CancelForIncident(i) EXCEPT ![s] = FirstPage(t, code, age, prior)]
      BY <2>5
    <3> DEFINE first == FirstPage(t, code, age, prior)
               start == IF SkipsAhead(prior) THEN Lower(RecurRung, Len(LadderFor[code]) - 1) ELSE 0
    <3>2. first.tkt = t /\ first.inc = NULL /\ t # NULL
          /\ first.act = Step(LadderFor[code], start).act
      BY DEF FirstPage, Tickets, NULL
    <3>3. first.act # "eta_check"
      <4>1. LadderFor[code] \in Seq(Rung) /\ Len(LadderFor[code]) \in Nat \ {0}
        BY <1>3, <2>5, LadderAssumption
      <4>2. start + 1 \in 1 .. Len(LadderFor[code])
        BY <4>1, LadderAssumption DEF Lower
      <4> HIDE DEF start
      <4>3. LadderFor[code][start + 1] \in Rung
        BY <4>1, <4>2
      <4> QED
        BY <3>2, <4>3 DEF Step, Rung, RungAction
    <3> HIDE DEF first
    <3>4. esc'[s] = first /\ \A r \in Rows \ {s} : esc'[r] = Kept(r, i)
      BY <3>1 DEF CancelForIncident, Kept, first
    <3>5. esc'[s] # NoRow /\ FreeRow(s)
      BY <3>1, <3>2, <3>4, NoRowFields DEF NextRow
    <3> QED
      BY <1>1, <1>3, <2>2, <2>3, <3>2, <3>3, <3>4, <3>5
  <2> QED
    BY <2>1, <2>4, <2>5
<1> QED
  BY <1>2, <1>3 DEF SetReason

\* set_eta leaves the ticket one rung, the check at the end of the estimate.
LEMMA EtaGives ==
  ASSUME RInv, NEW q \in Request, RequestEta(q)
  PROVE  /\ inc' = inc
         /\ \/ UNCHANGED <<tkt, esc>>
            \/ \E t \in Tickets, h \in EtaHours, s \in Rows :
                 /\ tkt[t].status = "open" /\ tkt'[t].eta = h /\ FreeRow(s)
                 /\ \A u \in Tickets : tkt'[u].inc = tkt[u].inc /\ tkt'[u].status = tkt[u].status
                 /\ \A u \in Tickets \ {t} : tkt'[u] = tkt[u]
                 /\ esc'[s] # NoRow /\ esc'[s].tkt = t /\ esc'[s].inc = NULL
                 /\ esc'[s].act = "eta_check" /\ esc'[s].due = h
                 /\ \A r \in Rows \ {s} :
                      esc'[r] = IF esc[r].tkt = t THEN NoRow ELSE esc[r]
<1>0. TablesOK
  BY TablesTyped DEF RInv
<1>1. inc' = inc
  BY DEF RequestEta
<1>2. CASE UNCHANGED <<tkt, esc>>
  BY <1>1, <1>2
<1>3. CASE ~UNCHANGED <<tkt, esc>>
  <2>1. PICK t \in Tickets : t = req[q].tkt
    BY DEF RInv, IInv, RequestKnows, RequestEta
  <2>2. PICK h \in EtaHours, s \in Rows :
          /\ tkt[t].status = "open" /\ NextRow(s)
          /\ tkt' = [tkt EXCEPT ![t].eta = h]
          /\ esc' = [CancelAll({}, {t}) EXCEPT ![s] = EtaCheck(t, h)]
    BY <1>3, <2>1 DEF RequestEta
  <2>3. \A u \in Tickets : tkt'[u].inc = tkt[u].inc /\ tkt'[u].status = tkt[u].status
    <3> SUFFICES ASSUME NEW u \in Tickets
                 PROVE  tkt'[u].inc = tkt[u].inc /\ tkt'[u].status = tkt[u].status
      OBVIOUS
    <3>1. tkt[u] \in TicketRow
      BY <1>0 DEF TablesOK
    <3> QED
      BY <1>0, <2>2, <3>1 DEF TablesOK, TicketRow
  <2>4. tkt'[t].eta = h /\ \A u \in Tickets \ {t} : tkt'[u] = tkt[u]
    <3>1. tkt[t] \in TicketRow
      BY <1>0 DEF TablesOK
    <3> QED
      BY <1>0, <2>2, <3>1 DEF TablesOK, TicketRow
  <2> DEFINE check == EtaCheck(t, h)
  <2>5. check.tkt = t /\ check.inc = NULL /\ check.act = "eta_check" /\ check.due = h
    BY DEF EtaCheck
  <2> HIDE DEF check
  <2>6. /\ esc'[s] = check
        /\ \A r \in Rows \ {s} : esc'[r] = IF esc[r].tkt = t THEN NoRow ELSE esc[r]
    BY <2>2 DEF CancelAll, check
  <2>7. check # NoRow
    BY <2>5 DEF NoRow
  <2>8. /\ tkt[t].status = "open" /\ tkt'[t].eta = h /\ FreeRow(s)
        /\ esc'[s] # NoRow /\ esc'[s].tkt = t /\ esc'[s].inc = NULL
        /\ esc'[s].act = "eta_check" /\ esc'[s].due = h
    BY <2>2, <2>4, <2>5, <2>6, <2>7 DEF NextRow
  <2> QED
    BY <1>1, <2>3, <2>4, <2>6, <2>8
<1> QED
  BY <1>2, <1>3

\* on_open asks about an incident that has no rung yet, at the time the ladder says.
LEMMA PromptGives ==
  ASSUME RInv, NEW i \in fresh, PollClassify(i)
  PROVE  /\ i \in Incidents /\ UNCHANGED <<outbox, req, due, faults>> /\ fresh' = fresh \ {i}
         /\ \/ \E code \in AutoCodes : SetReason(i, code, inc[i].age)
            \/ UNCHANGED <<inc, tkt, esc>> /\ UnknownLadder = << >>
            \/ /\ UNCHANGED <<inc, tkt>> /\ UnknownLadder # << >>
               /\ \E s \in Rows :
                    /\ FreeRow(s) /\ esc'[s].inc = i /\ esc'[s].tkt = NULL
                    /\ esc'[s] # NoRow /\ esc'[s].act # "eta_check"
                    /\ esc'[s].due = Remaining(UnknownLadder[1].after, inc[i].age)
                    /\ \A r \in Rows \ {s} : esc'[r] = esc[r]
<1>0. TablesOK
  BY TablesTyped DEF RInv
<1>1. i \in Incidents /\ UNCHANGED <<outbox, req, due, faults>> /\ fresh' = fresh \ {i}
  BY DEF PollClassify, mail, ticker, RInv, IInv, TypeOK
<1>2. CASE /\ UNCHANGED <<inc, tkt>> /\ UnknownLadder # << >>
           /\ \E r \in Rows : /\ NextRow(r)
                              /\ esc' = [esc EXCEPT ![r] = FirstPrompt(i, inc[i].age)]
  <2>1. PICK s \in Rows : /\ NextRow(s)
                          /\ esc' = [esc EXCEPT ![s] = FirstPrompt(i, inc[i].age)]
    BY <1>2
  <2> DEFINE prompt == FirstPrompt(i, inc[i].age)
  <2>2. /\ prompt.inc = i /\ prompt.tkt = NULL /\ i # NULL
        /\ prompt.due = Remaining(UnknownLadder[1].after, inc[i].age)
        /\ prompt.act = UnknownLadder[1].act
    BY <1>1 DEF FirstPrompt, Incidents, NULL
  <2>3. prompt.act # "eta_check"
    <3>1. UnknownLadder \in Seq(Rung) /\ 1 \in 1 .. Len(UnknownLadder)
      BY <1>2, LadderAssumption
    <3>2. UnknownLadder[1] \in Rung
      BY <3>1
    <3> QED
      BY <2>2, <3>2 DEF Rung, RungAction
  <2> HIDE DEF prompt
  <2>4. esc'[s] = prompt /\ \A r \in Rows \ {s} : esc'[r] = esc[r]
    BY <1>0, <2>1 DEF TablesOK, prompt
  <2>5. esc'[s] # NoRow /\ FreeRow(s)
    BY <2>1, <2>2, <2>4, NoRowFields DEF NextRow
  <2> QED
    BY <1>1, <1>2, <2>2, <2>3, <2>4, <2>5
<1> QED
  BY <1>1, <1>2 DEF PollClassify

\* What follows a rung that fired has a higher number, or is the last one repeated; a
\* ladder that repeats always has a successor.
LEMMA SuccessorRises ==
  ASSUME NEW row \in Row, NEW ladder \in Seq(Rung), NEW age \in Nat
  PROVE  LET s == Successor(row, ladder, age)
         IN  /\ s = NoRow \/ s.rung = row.rung + 1 \/ (s.rung = row.rung /\ s.trig = "repeat")
             /\ Repeats(ladder) /\ (row.inc # NULL \/ row.tkt # NULL) => s # NoRow
<1> DEFINE nxt == row.rung + 1
           final == ladder[Len(ladder)]
           s == Successor(row, ladder, age)
<1>1. CASE nxt < Len(ladder)
  <2>1. s = [row EXCEPT !.rung = nxt, !.act = ladder[nxt + 1].act,
               !.due = Remaining(ladder[nxt + 1].after, age), !.trig = "timer"]
    BY <1>1 DEF Successor, Step
  <2>2. s.rung = nxt /\ s.inc = row.inc /\ s.tkt = row.tkt
    BY <2>1 DEF Row, Pending
  <2> QED
    BY <2>2, NoRowFields
<1>2. CASE ~(nxt < Len(ladder)) /\ ladder # << >> /\ final.every > 0
  <2>1. s = [row EXCEPT !.act = final.act, !.due = final.every, !.trig = "repeat"]
    BY <1>2 DEF Successor
  <2>2. s.rung = row.rung /\ s.trig = "repeat" /\ s.inc = row.inc /\ s.tkt = row.tkt
    BY <2>1 DEF Row, Pending
  <2> QED
    BY <2>2, NoRowFields
<1>3. CASE ~(nxt < Len(ladder)) /\ ~(ladder # << >> /\ final.every > 0)
  BY <1>3 DEF Successor, Repeats
<1> QED
  BY <1>1, <1>2, <1>3

\* The rung that the ticker takes up is dropped, or fires: it sends a page of its number,
\* and what takes its place is about the same fault.
LEMMA FireGives ==
  ASSUME RInv, NEW r \in due, TickFire(r)
  PROVE  /\ r \in Rows /\ UNCHANGED <<inc, fresh, faults, req>> /\ due' = due \ {r}
         /\ \A s \in Rows \ {r} : esc'[s] = esc[s]
         /\ \A t \in Tickets : /\ tkt'[t].inc = tkt[t].inc /\ tkt'[t].status = tkt[t].status
                               /\ tkt'[t].eta = tkt[t].eta
         /\ \/ /\ UNCHANGED <<tkt, outbox>>
               /\ \/ esc[r] = NoRow /\ esc'[r] = NoRow
                  \/ Moot(esc[r]) /\ esc'[r] = NoRow
            \/ /\ esc[r] # NoRow /\ ~Moot(esc[r])
               /\ \E sent :
                    /\ outbox' = outbox \cup sent /\ sent # {}
                    /\ dead' = IF esc[r].trig = "repeat" THEN dead \ sent ELSE dead
                    /\ \A m \in sent : /\ m.inc = esc[r].inc /\ m.tkt = esc[r].tkt
                                       /\ m.rung = esc[r].rung /\ m.rep = (esc[r].trig = "repeat")
               /\ \/ esc'[r] = NoRow
                  \/ /\ esc'[r].inc = esc[r].inc /\ esc'[r].tkt = esc[r].tkt
                     /\ esc'[r].act # "eta_check"
                     /\ esc'[r].due \in Nat
                     /\ \/ esc'[r].rung = esc[r].rung + 1
                        \/ esc'[r].rung = esc[r].rung /\ esc'[r].trig = "repeat"
               /\ AllRepeat => esc'[r] # NoRow
<1>0. TablesOK
  BY TablesTyped DEF RInv
<1>1. r \in Rows /\ UNCHANGED <<inc, fresh, faults, req>> /\ due' = due \ {r}
  BY DEF TickFire, RowDone, poller, RInv, IInv, TypeOK
<1>2. CASE UNCHANGED <<tkt, mail>> /\ (esc[r] = NoRow \/ Moot(esc[r]))
           /\ esc' = [esc EXCEPT ![r] = NoRow]
  BY <1>0, <1>1, <1>2 DEF mail, TablesOK
<1>3. CASE esc[r] # NoRow /\ ~Moot(esc[r]) /\ FireRow(r)
  <2> DEFINE row  == esc[r]
             base == IF Misses(row) THEN 0
                     ELSE IF row.tkt # NULL THEN tkt[row.tkt].age ELSE inc[row.inc].age
             s    == Successor(row, LadderOf(row), base)
  <2>1. row \in Row
    BY <1>0, <1>1 DEF TablesOK
  <2>2. \/ /\ row.tkt = NULL /\ row.inc \in Incidents /\ row.inc # NULL
           /\ row.act # "eta_check"
        \/ /\ row.inc = NULL /\ row.tkt \in Tickets /\ row.tkt # NULL
           /\ tkt[row.tkt].code \in Ticketable
    BY <1>1, <1>3 DEF RInv, IInv, RowsRefer, TicketsRefer, Tickets, Incidents, NULL
  <2>3. LadderOf(row) \in Seq(Rung) /\ (AllRepeat => Repeats(LadderOf(row)))
    BY <2>2, LadderAssumption DEF LadderOf, AllRepeat
  <2>4. base \in Nat
    <3>1. \A t \in Tickets : tkt[t].age \in Nat
      BY <1>0 DEF TablesOK, TicketRow
    <3>2. \A i \in Incidents : inc[i].age \in Nat
      BY <1>0 DEF TablesOK, IncidentRow
    <3>3. CASE row.tkt # NULL
      <4>1. tkt[row.tkt].age \in Nat
        BY <2>2, <3>1, <3>3
      <4> QED
        BY <3>3, <4>1
    <3>4. CASE row.tkt = NULL
      <4>1. inc[row.inc].age \in Nat
        BY <2>2, <3>2, <3>4
      <4> QED
        BY <3>4, <4>1
    <3> QED
      BY <3>3, <3>4
  <2>5. esc' = [esc EXCEPT ![r] = s]
    BY <1>3 DEF FireRow
  <2> HIDE DEF base
  <2>6. /\ s \in Row
        /\ s # NoRow => s.inc = row.inc /\ s.tkt = row.tkt /\ s.act # "eta_check"
        /\ s = NoRow \/ s.rung = row.rung + 1 \/ (s.rung = row.rung /\ s.trig = "repeat")
        /\ AllRepeat => s # NoRow
    BY <2>1, <2>2, <2>3, <2>4, SuccessorType, SuccessorKeeps, SuccessorRises
  <2>7. s.due \in Nat
    BY <2>6 DEF Row, Pending
  <2> HIDE DEF s
  <2>8. esc'[r] = s /\ \A x \in Rows \ {r} : esc'[x] = esc[x]
    BY <1>0, <1>1, <2>5 DEF TablesOK
  <2>9. \A t \in Tickets : /\ tkt'[t].inc = tkt[t].inc /\ tkt'[t].status = tkt[t].status
                           /\ tkt'[t].eta = tkt[t].eta
    <3>1. CASE row.tkt = NULL
      BY <1>3, <3>1 DEF FireRow
    <3>2. CASE row.tkt # NULL
      <4> DEFINE u == row.tkt
                 b == tkt[u].notified \/ row.act # "ask_reason"
                 n == IF Misses(row) THEN tkt[u].misses + 1 ELSE tkt[u].misses
      <4>1. tkt' = [tkt EXCEPT ![u].notified = b, ![u].misses = n] /\ u \in Tickets
        BY <1>3, <2>2, <3>2 DEF FireRow
      <4> HIDE DEF u, b, n
      <4> SUFFICES ASSUME NEW t \in Tickets
                   PROVE  /\ tkt'[t].inc = tkt[t].inc /\ tkt'[t].status = tkt[t].status
                          /\ tkt'[t].eta = tkt[t].eta
        OBVIOUS
      <4>2. tkt[t] \in TicketRow
        BY <1>0 DEF TablesOK
      <4> QED
        BY <1>0, <4>1, <4>2 DEF TablesOK, TicketRow
    <3> QED
      BY <3>1, <3>2
  <2>10. PICK sent :
           /\ outbox' = outbox \cup sent /\ sent # {}
           /\ dead' = IF row.trig = "repeat" THEN dead \ sent ELSE dead
           /\ \A m \in sent : /\ m.inc = row.inc /\ m.tkt = row.tkt
                              /\ m.rung = row.rung /\ m.rep = (row.trig = "repeat")
    <3>1. PICK who \in Rosters :
            LET sent == {Page(row, p) : p \in IF who = {} THEN {"unrouted"} ELSE who}
            IN  /\ outbox' = outbox \cup sent
                /\ dead' = IF row.trig = "repeat" THEN dead \ sent ELSE dead
      BY <1>3 DEF FireRow
    <3>2. \A p : /\ Page(row, p).tkt = row.tkt /\ Page(row, p).inc = row.inc
                 /\ Page(row, p).rung = row.rung /\ Page(row, p).rep = (row.trig = "repeat")
      BY DEF Page
    <3> DEFINE to == IF who = {} THEN {"unrouted"} ELSE who
               pages == {Page(row, p) : p \in to}
    <3>3. to # {}
      OBVIOUS
    <3> HIDE DEF to
    <3>4. pages # {} /\ \A m \in pages : /\ m.tkt = row.tkt /\ m.inc = row.inc
                                         /\ m.rung = row.rung /\ m.rep = (row.trig = "repeat")
      BY <3>2, <3>3
    <3>5. /\ outbox' = outbox \cup pages
          /\ dead' = IF row.trig = "repeat" THEN dead \ pages ELSE dead
      BY <3>1 DEF to
    <3> HIDE DEF pages
    <3> QED
      BY <3>4, <3>5
  <2> QED
    BY <1>1, <1>3, <2>6, <2>7, <2>8, <2>9, <2>10
<1> QED
  <2>1. \/ UNCHANGED <<tkt, mail>> /\ (esc[r] = NoRow \/ Moot(esc[r]))
           /\ ((esc' = esc /\ esc[r] = NoRow) \/ esc' = [esc EXCEPT ![r] = NoRow])
        \/ esc[r] # NoRow /\ ~Moot(esc[r]) /\ FireRow(r)
    BY DEF TickFire
  <2>2. esc[r] = NoRow => esc = [esc EXCEPT ![r] = NoRow]
    BY <1>0, <1>1 DEF TablesOK
  <2> QED
    BY <1>2, <1>3, <2>1, <2>2

\* A reason is given by on_open, of those that need nobody, or by a request.
LEMMA ReasonsGiven ==
  ASSUME RInv, (\E i \in fresh : PollClassify(i)) \/ (\E q \in Request : RequestReason(q))
  PROVE  \/ \E i \in Incidents, code \in Codes, age \in 0 .. AgeCap :
              inc[i].status # "none" /\ SetReason(i, code, age)
         \/ \E i \in fresh : PollClassify(i) /\ UNCHANGED <<inc, tkt>>
<1>0. TablesOK
  BY TablesTyped DEF RInv
<1>1. ASSUME NEW i \in fresh, PollClassify(i)
      PROVE  \/ \E code \in Codes, age \in 0 .. AgeCap :
                  i \in Incidents /\ inc[i].status # "none" /\ SetReason(i, code, age)
             \/ UNCHANGED <<inc, tkt>>
  <2>1. i \in Incidents /\ inc[i].status # "none"
    BY DEF RInv, IInv, TypeOK, FreshUnasked
  <2>2. inc[i].age \in 0 .. AgeCap
    BY <1>0, <2>1 DEF TablesOK, IncidentRow
  <2> QED
    BY <1>1, <2>1, <2>2, CoreAssumption DEF PollClassify
<1>2. ASSUME NEW q \in Request, RequestReason(q)
      PROVE  \E i \in Incidents, code \in Codes :
               inc[i].status # "none" /\ SetReason(i, code, 0)
  BY <1>2 DEF RequestReason, RInv, IInv, RequestKnows, AnswersRaised
<1>3. 0 \in 0 .. AgeCap
  BY LadderAssumption
<1> QED
  BY <1>1, <1>2, <1>3

\* What the ticker has found due is not put off behind its back: a place that it holds is
\* not used again, and time runs one way.
LEMMA DueKept ==
  ASSUME RInv, DueStays, [Next]_vars
  PROVE  DueStays'
<1> SUFFICES ASSUME NEW r \in due', esc'[r] # NoRow
             PROVE  esc'[r].due = 0
  BY DEF DueStays
<1>0. r \in Rows
  <2>1. IInv'
    BY NextKeepsIInv DEF RInv
  <2> QED
    BY <2>1 DEF IInv, TypeOK
<1>1. CASE r \notin due
  BY <1>1, DueTaken
<1>2. CASE r \in due
  <2>1. esc[r] # NoRow => esc[r].due = 0
    BY <1>2 DEF DueStays
  <2>2. CASE Quiet
    BY <1>0, <2>1, <2>2 DEF Quiet
  <2>3. CASE Advance
    BY <1>0, <2>1, <2>3, TimePasses DEF Less
  <2>4. ASSUME NEW i \in Incidents, NEW code \in Codes, NEW age \in 0 .. AgeCap,
               SetReason(i, code, age)
        PROVE  esc'[r].due = 0
    BY <1>0, <1>2, <2>1, <2>4, ReasonGives DEF Kept, FreeRow
  <2>5. ASSUME NEW i \in fresh, PollClassify(i), UNCHANGED <<inc, tkt>>
        PROVE  esc'[r].due = 0
    <3>1. ~(\E code \in AutoCodes : SetReason(i, code, inc[i].age))
          \/ \E code \in Codes, age \in 0 .. AgeCap : i \in Incidents /\ SetReason(i, code, age)
      <4>1. TablesOK /\ i \in Incidents
        BY TablesTyped DEF RInv, IInv, TypeOK
      <4>2. inc[i].age \in 0 .. AgeCap
        BY <4>1 DEF TablesOK, IncidentRow
      <4> QED
        BY <4>1, <4>2, CoreAssumption
    <3> QED
      BY <1>0, <1>2, <2>1, <2>4, <2>5, <3>1, PromptGives DEF FreeRow
  <2>6. ASSUME NEW s \in due, TickFire(s)
        PROVE  esc'[r].due = 0
    BY <1>0, <2>1, <2>6, FireGives
  <2>7. ASSUME NEW q \in Request, RequestEta(q)
        PROVE  esc'[r].due = 0
    BY <1>0, <1>2, <2>1, <2>7, EtaGives DEF FreeRow
  <2>8. ASSUME NEW q \in Request, RequestForward(q)
        PROVE  esc'[r].due = 0
    <3>1. esc[r] \in Row
      BY <1>0, TablesTyped DEF TablesOK, RInv
    <3> QED
      BY <1>0, <2>1, <2>8, <3>1 DEF RequestForward, Row, Pending
  <2> QED
    BY <2>2, <2>3, <2>4, <2>5, <2>6, <2>7, <2>8, StepKinds, ReasonsGiven DEF Act
<1> QED
  BY <1>1, <1>2

-----------------------------------------------------------------------------
(* A promise ends the chase until it is over. *)

\* A promise is kept in two places, eta_due_at and the due_at of the check; they agree.
LEMMA EtaKept ==
  ASSUME NoHandover, RInv, EtaInv, [Next]_vars
  PROVE  EtaSnoozes' /\ CheckAtTheEnd'
<1>0. TablesOK
  BY TablesTyped DEF RInv
<1>r. \A r \in Rows : /\ esc[r].tkt # NULL => esc[r].tkt \in Tickets
                                              /\ tkt[esc[r].tkt].status = "open"
                      /\ esc[r].act = "eta_check" => esc[r].tkt \in Tickets /\ esc[r].tkt # NULL
  BY NoRowFields DEF RInv, IInv, RowsRefer, Tickets, NULL, NoRow
<1>e. \A r \in Rows : esc[r].tkt # NULL => tkt[esc[r].tkt].eta \in Nat
  BY <1>0, <1>r DEF TablesOK, TicketRow
<1>n. NoRow.tkt = NULL /\ NoRow.act # "eta_check"
  BY DEF NoRow
<1> SUFFICES ASSUME NEW r \in Rows
             PROVE  /\ esc'[r].tkt # NULL /\ tkt'[esc'[r].tkt].eta > 0 => esc'[r].act = "eta_check"
                    /\ esc'[r].act = "eta_check" => esc'[r].due = tkt'[esc'[r].tkt].eta
  BY DEF EtaSnoozes, CheckAtTheEnd
<1> DEFINE Goal == /\ esc'[r].tkt # NULL /\ tkt'[esc'[r].tkt].eta > 0 => esc'[r].act = "eta_check"
                   /\ esc'[r].act = "eta_check" => esc'[r].due = tkt'[esc'[r].tkt].eta
<1>h. /\ esc[r].tkt # NULL /\ tkt[esc[r].tkt].eta > 0 => esc[r].act = "eta_check"
      /\ esc[r].act = "eta_check" => esc[r].due = tkt[esc[r].tkt].eta
  BY DEF EtaInv, EtaSnoozes, CheckAtTheEnd
<1>s. ASSUME esc'[r] = NoRow \/ (esc'[r] = esc[r] /\ \A t \in Tickets :
               tkt[t].status = "open" /\ t = esc[r].tkt => tkt'[t].eta = tkt[t].eta)
      PROVE  Goal
  <2>1. CASE esc'[r] = NoRow
    BY <2>1, <1>n
  <2>2. CASE esc'[r] = esc[r] /\ \A t \in Tickets :
               tkt[t].status = "open" /\ t = esc[r].tkt => tkt'[t].eta = tkt[t].eta
    BY <1>r, <1>h, <2>2
  <2> QED
    BY <1>s, <2>1, <2>2
<1>1. CASE Quiet
  BY <1>1, <1>s DEF Quiet
<1>2. CASE Advance
  <2>1. /\ esc'[r].tkt = esc[r].tkt /\ esc'[r].act = esc[r].act /\ esc'[r].due = Less(esc[r].due)
        /\ esc[r].tkt # NULL => tkt'[esc[r].tkt].eta = Less(tkt[esc[r].tkt].eta)
    BY <1>2, <1>r, TimePasses
  <2> QED
    BY <1>r, <1>e, <1>h, <2>1 DEF Less
<1>3. ASSUME NEW i \in Incidents, NEW code \in Codes, NEW age \in 0 .. AgeCap,
             SetReason(i, code, age)
      PROVE  Goal
  <2>1. CASE tkt' = tkt /\ \A x \in Rows : esc'[x] = Kept(x, i)
    BY <1>s, <2>1 DEF Kept
  <2>2. ASSUME NEW t \in Tickets, tkt[t].status = "none", tkt'[t].eta = 0,
               \A u \in Tickets \ {t} : tkt'[u] = tkt[u]
        PROVE  /\ esc'[r] = Kept(r, i) => Goal
               /\ esc'[r].tkt = t /\ esc'[r].act # "eta_check" => Goal
    <3>1. \A u \in Tickets : tkt[u].status = "open" => tkt'[u] = tkt[u]
      BY <2>2
    <3> QED
      BY <1>s, <2>2, <3>1 DEF Kept
  <2> QED
    BY <1>3, <2>1, <2>2, ReasonGives
<1>4. ASSUME NEW i \in fresh, PollClassify(i), UNCHANGED <<inc, tkt>>
      PROVE  Goal
  <2>1. CASE \E code \in AutoCodes : SetReason(i, code, inc[i].age)
    <3>1. i \in Incidents
      BY DEF RInv, IInv, TypeOK
    <3>2. inc[i].age \in 0 .. AgeCap
      BY <1>0, <3>1 DEF TablesOK, IncidentRow
    <3> QED
      BY <1>3, <2>1, <3>1, <3>2, CoreAssumption
  <2>2. CASE esc' = esc
    BY <1>4, <1>s, <2>2
  <2>3. ASSUME NEW s \in Rows, esc'[s].tkt = NULL, esc'[s].act # "eta_check",
               \A x \in Rows \ {s} : esc'[x] = esc[x]
        PROVE  Goal
    BY <1>4, <1>s, <2>3
  <2> QED
    BY <1>4, <2>1, <2>2, <2>3, PromptGives
<1>5. ASSUME NEW s \in due, TickFire(s)
      PROVE  Goal
  <2>1. \A t \in Tickets : tkt'[t].eta = tkt[t].eta
    BY <1>5, FireGives
  <2>2. CASE r # s \/ esc'[r] = NoRow
    BY <1>5, <1>s, <2>1, <2>2, FireGives
  <2>3. CASE r = s /\ esc'[r] # NoRow
    <3>1. /\ esc'[r].tkt = esc[r].tkt /\ esc'[r].act # "eta_check" /\ esc[r] # NoRow
      BY <1>5, <2>3, FireGives
    <3>2. esc[r].due = 0
      BY <2>3, <3>1 DEF EtaInv, DueStays
    <3>3. esc[r].tkt # NULL => tkt[esc[r].tkt].eta = 0
      BY <1>e, <1>h, <3>2
    <3> QED
      BY <1>r, <2>1, <3>1, <3>3
  <2> QED
    BY <2>2, <2>3
<1>6. ASSUME NEW q \in Request, RequestEta(q)
      PROVE  Goal
  <2>1. CASE UNCHANGED <<tkt, esc>>
    BY <1>s, <2>1
  <2>2. ASSUME NEW t \in Tickets, NEW h \in EtaHours, NEW s \in Rows,
               tkt'[t].eta = h,
               \A u \in Tickets \ {t} : tkt'[u] = tkt[u],
               esc'[s].tkt = t, esc'[s].act = "eta_check", esc'[s].due = h,
               \A x \in Rows \ {s} : esc'[x] = IF esc[x].tkt = t THEN NoRow ELSE esc[x]
        PROVE  Goal
    <3>1. CASE r = s
      BY <2>2, <3>1
    <3>2. CASE r # s /\ esc[r].tkt = t
      BY <1>s, <2>2, <3>2
    <3>3. CASE r # s /\ esc[r].tkt # t
      BY <1>s, <2>2, <3>3
    <3> QED
      BY <3>1, <3>2, <3>3
  <2> QED
    BY <1>6, <2>1, <2>2, EtaGives
<1>7. \A q \in Request : ~RequestForward(q)
  BY DEF EtaInv, NobodyHandsOver, RequestForward
<1> QED
  BY <1>1, <1>2, <1>3, <1>4, <1>5, <1>6, <1>7, StepKinds, ReasonsGiven DEF Act

\* While a promise runs nobody is chased: the only rung of the ticket is the check at its
\* end, whatever the ticker had in hand when the fixer answered, with any number of
\* tickets, ladders and answers, if no job is handed over.
THEOREM PromisesSnooze ==
  ASSUME NoHandover
  PROVE  Spec => []EtaSnoozes
<1>1. Init => RInv /\ EtaInv
  <2>1. Init => EtaInv
    BY DEF Init, EtaInv, EtaSnoozes, CheckAtTheEnd, DueStays, NobodyHandsOver, NoRow, Idle, NULL
  <2> QED
    BY <2>1, InitPromised
<1>2. RInv /\ EtaInv /\ [Next]_vars => RInv' /\ EtaInv'
  BY NextPromised, EtaKept, DueKept, NobodyStarts DEF EtaInv
<1>3. EtaInv => EtaSnoozes
  BY DEF EtaInv
<1> QED
  BY <1>1, <1>2, <1>3, PTL DEF Spec

-----------------------------------------------------------------------------
(* No page is swallowed. *)

\* No incident is taken back.
LEMMA RaisedStays ==
  ASSUME RInv, [Next]_vars, NEW i \in Incidents, inc[i].status # "none"
  PROVE  inc'[i].status # "none"
<1>1. CASE Quiet
  BY <1>1 DEF Quiet
<1>2. CASE Advance
  BY <1>2, TimePasses
<1>3. ASSUME NEW j \in Incidents, NEW code \in Codes, NEW age \in 0 .. AgeCap,
             SetReason(j, code, age)
      PROVE  inc'[i].status # "none"
  BY <1>3, ReasonGives
<1>4. ASSUME NEW r \in due, TickFire(r)
      PROVE  inc'[i].status # "none"
  BY <1>4 DEF TickFire
<1>5. ASSUME NEW q \in Request, RequestEta(q) \/ RequestForward(q)
      PROVE  inc'[i].status # "none"
  BY <1>5 DEF RequestEta, RequestForward
<1> QED
  BY <1>1, <1>2, <1>3, <1>4, <1>5, StepKinds, ReasonsGiven DEF Act

\* Only a rung that fires queues a page.
LEMMA OnlyFiringTells ==
  ASSUME RInv, [Next]_vars
  PROVE  outbox' = outbox \/ \E r \in due : TickFire(r)
<1>1. CASE Quiet
  BY <1>1 DEF Quiet
<1>2. Advance \/ (\E i \in fresh : PollClassify(i)) => outbox' = outbox
  BY DEF Advance, PollClassify, mail
<1>3. (\E q \in Request : Act(q)) => outbox' = outbox
  BY DEF Act, RequestReason, RequestEta, RequestForward, Finish, mail
<1> QED
  BY <1>1, <1>2, <1>3, StepKinds

\* A new page is about what the rung was about.
LEMMA PagesCome ==
  ASSUME RInv, [Next]_vars, NEW m \in outbox', m \notin outbox
  PROVE  \E r \in Rows : esc[r] # NoRow /\ m.inc = esc[r].inc /\ m.tkt = esc[r].tkt
<1>1. PICK r \in due : TickFire(r)
  BY OnlyFiringTells
<1> QED
  BY <1>1, FireGives

\* An incident that is to be classified was so before, or is new.
LEMMA FreshComes ==
  ASSUME RInv, [Next]_vars, NEW i \in fresh'
  PROVE  \/ i \in fresh
         \/ /\ i \in Incidents /\ inc[i].status = "none"
            /\ inc'[i].reasons = << >> /\ inc'[i].status = "open"
<1>1. CASE UNCHANGED vars
  BY <1>1 DEF vars, poller
<1>2. ASSUME NEW a \in Asset, MachineStops(a) \/ MachineRuns(a) \/ Panel(a)
      PROVE  fresh' = fresh
  BY <1>2
  DEF Panel, MachineStops, MachineRuns, SetOffplan, Decommission, OffplanEnds, Recommission, poller
<1>3. CASE PollInsert
  <2>1. PICK j \in Incidents :
          /\ inc[j].status = "none" /\ fresh' = fresh \cup {j}
          /\ inc' = [inc EXCEPT ![j] = [NoIncident EXCEPT !.asset = ev.asset, !.status = "open"]]
    BY <1>3 DEF PollInsert, NextIncident
  <2>2. inc'[j].reasons = << >> /\ inc'[j].status = "open"
    BY <2>1, TablesTyped DEF TablesOK, NoIncident, RInv
  <2> QED
    BY <2>1, <2>2
<1>4. PollerStep => fresh' \subseteq fresh \/ PollInsert
  BY DEF PollerStep, PollFetch, PollRead, PollReopen, PollResolve, PollClassify
<1>5. Advance \/ TickerStep => fresh' = fresh
  BY DEF Advance, TickerStep, TickBegin, TickCommit, TickQuery, TickFire, poller
<1>6. ASSUME NEW q \in Request, Answer(q) \/ Act(q)
      PROVE  fresh' = fresh
  BY <1>6
  DEF Answer, ReplyToPrompt, NamedReply, PanelReason, PanelRemind, ReplyToEta, Begin, Act,
      RequestReason, RequestEta, RequestForward, Finish, poller
<1>7. Trouble => fresh' \subseteq fresh
  BY DEF Trouble, PollFails, TickFails, Restart, TickWedge, MessageDies, poller
<1> QED
  BY <1>1, <1>2, <1>3, <1>4, <1>5, <1>6, <1>7 DEF Next

\* Nobody is told of an incident before it is classified.
LEMMA PagesKept ==
  ASSUME RInv, PagesRefer, FreshUntold, [Next]_vars
  PROVE  PagesRefer' /\ FreshUntold'
<1>1. \A i \in fresh : i \in Incidents /\ inc[i].status # "none"
  BY DEF RInv, IInv, TypeOK, FreshUnasked
<1>2. ASSUME NEW m \in outbox', m \notin outbox, m.inc # NULL
      PROVE  m.inc \in Incidents /\ inc[m.inc].status # "none" /\ m.inc \notin fresh
  <2>1. PICK r \in Rows : esc[r] # NoRow /\ m.inc = esc[r].inc /\ m.tkt = esc[r].tkt
    BY <1>2, PagesCome
  <2> QED
    BY <1>2, <2>1 DEF RInv, IInv, RowsRefer, FreshUnasked
<1>3. PagesRefer'
  <2> SUFFICES ASSUME NEW m \in outbox', m.inc # NULL
               PROVE  m.inc \in Incidents /\ inc'[m.inc].status # "none"
    BY DEF PagesRefer
  <2>1. m.inc \in Incidents /\ inc[m.inc].status # "none"
    BY <1>2 DEF PagesRefer
  <2> QED
    BY <2>1, RaisedStays
<1>4. FreshUntold'
  <2> SUFFICES ASSUME NEW i \in fresh', NEW m \in outbox', m.inc = i
               PROVE  FALSE
    BY DEF FreshUntold
  <2>1. i \in Incidents /\ i # NULL
    BY <1>1, FreshComes DEF Incidents, NULL
  <2>2. CASE i \in fresh
    BY <1>2, <2>1, <2>2 DEF FreshUntold
  <2>3. CASE inc[i].status = "none"
    BY <1>2, <2>1, <2>3 DEF PagesRefer
  <2> QED
    BY <2>2, <2>3, FreshComes
<1> QED
  BY <1>3, <1>4

\* Numbers are not used twice: whatever is written next about a fault is a higher rung,
\* or the last one again.
LEMMA RungsKept ==
  ASSUME EtaHours = {}, RInv, PageInv, [Next]_vars
  PROVE  RungsRise'
<1>0. /\ \A r \in Rows : esc[r].rung \in Nat
      /\ \A m \in outbox : m.rung \in Nat
  <2>1. TablesOK
    BY TablesTyped DEF RInv
  <2>2. \A r \in Rows : esc[r] \in Row
    BY <2>1 DEF TablesOK
  <2>3. outbox \subseteq Message
    BY DEF RInv, IInv, TypeOK
  <2> QED
    BY <2>2, <2>3 DEF Row, Pending, Message
<1> SUFFICES ASSUME NEW r \in Rows, NEW m \in outbox',
                    esc'[r] # NoRow, m.inc = esc'[r].inc, m.tkt = esc'[r].tkt
             PROVE  m.rung <= esc'[r].rung /\ (esc'[r].trig # "repeat" => m.rung < esc'[r].rung)
  BY DEF RungsRise
<1> DEFINE Goal == m.rung <= esc'[r].rung /\ (esc'[r].trig # "repeat" => m.rung < esc'[r].rung)
<1>h. ASSUME m \in outbox, esc[r] # NoRow, esc'[r].inc = esc[r].inc, esc'[r].tkt = esc[r].tkt
      PROVE  m.rung <= esc[r].rung /\ (esc[r].trig # "repeat" => m.rung < esc[r].rung)
  BY <1>h DEF PageInv, RungsRise
<1>1. CASE Quiet
  BY <1>1, <1>h DEF Quiet
<1>2. CASE Advance
  BY <1>2, <1>h, TimePasses
<1>3. ASSUME NEW i \in Incidents, NEW code \in Codes, NEW age \in 0 .. AgeCap,
             SetReason(i, code, age), outbox' = outbox
      PROVE  Goal
  <2>1. CASE esc'[r] = Kept(r, i)
    BY <1>3, <1>h, <2>1 DEF Kept
  <2>2. ASSUME NEW t \in Tickets, tkt[t].status = "none", esc'[r].tkt = t
        PROVE  FALSE
    <3>1. m \in outbox /\ m.tkt = t /\ t # NULL
      BY <1>3, <2>2 DEF Tickets, NULL
    <3> QED
      BY <2>2, <3>1 DEF RInv, MessagesRefer
  <2> QED
    BY <1>3, <2>1, <2>2, ReasonGives
<1>4. ASSUME NEW i \in fresh, PollClassify(i), UNCHANGED <<inc, tkt>>
      PROVE  Goal
  <2>0. i \in Incidents /\ outbox' = outbox
    BY <1>4, PromptGives
  <2>1. CASE \E code \in AutoCodes : SetReason(i, code, inc[i].age)
    <3>1. inc[i].age \in 0 .. AgeCap
      <4>1. TablesOK
        BY TablesTyped DEF RInv
      <4> QED
        BY <2>0, <4>1 DEF TablesOK, IncidentRow
    <3> QED
      BY <1>3, <2>0, <2>1, <3>1, CoreAssumption
  <2>2. CASE esc'[r] = esc[r]
    BY <1>h, <2>0, <2>2
  <2>3. CASE esc'[r].inc = i
    BY <2>0, <2>3 DEF PageInv, FreshUntold
  <2> QED
    BY <1>4, <2>1, <2>2, <2>3, PromptGives
<1>5. ASSUME NEW s \in due, TickFire(s)
      PROVE  Goal
  <2>1. CASE outbox' = outbox /\ (esc'[r] = esc[r] \/ esc'[r] = NoRow)
    BY <1>h, <2>1
  <2>2. CASE /\ esc[s] # NoRow
             /\ \E sent :
                  /\ outbox' = outbox \cup sent
                  /\ \A x \in sent : /\ x.inc = esc[s].inc /\ x.tkt = esc[s].tkt
                                     /\ x.rung = esc[s].rung
             /\ esc'[s] = NoRow
                \/ /\ esc'[s].inc = esc[s].inc /\ esc'[s].tkt = esc[s].tkt
                   /\ \/ esc'[s].rung = esc[s].rung + 1
                      \/ esc'[s].rung = esc[s].rung /\ esc'[s].trig = "repeat"
    <3>0. s \in Rows /\ \A x \in Rows \ {s} : esc'[x] = esc[x]
      BY <1>5, FireGives
    <3>1. m \in outbox \/ (m.inc = esc[s].inc /\ m.tkt = esc[s].tkt /\ m.rung = esc[s].rung)
      BY <2>2
    <3>2. CASE r # s
      <4>1. m \in outbox
        <5>1. m \notin outbox => r = s
          BY <2>2, <3>0, <3>1, <3>2 DEF RInv, IInv, OneTimerPerLadder
        <5> QED
          BY <3>2, <5>1
      <4> QED
        BY <1>h, <3>0, <3>2, <4>1
    <3>3. CASE r = s
      <4>1. m.rung \in Nat /\ m.rung <= esc[s].rung
        BY <1>0, <1>h, <2>2, <3>0, <3>1, <3>3
      <4> QED
        BY <1>0, <2>2, <3>0, <3>3, <4>1
    <3> QED
      BY <3>2, <3>3
  <2> QED
    BY <1>5, <2>1, <2>2, FireGives
<1>6. ASSUME NEW q \in Request, RequestEta(q)
      PROVE  Goal
  <2>1. UNCHANGED <<outbox, esc>>
    BY <1>6, EtaGives DEF RequestEta, Finish, mail
  <2> QED
    BY <1>h, <2>1
<1>7. ASSUME NEW q \in Request, RequestForward(q)
      PROVE  Goal
  <2>1. outbox' = outbox
    BY <1>7 DEF RequestForward, Finish, mail
  <2>2. esc[r] \in Row
    BY TablesTyped DEF TablesOK, RInv
  <2>3. esc'[r] = esc[r] \/ (esc'[r] = [esc[r] EXCEPT !.due = 0]
                             /\ (esc[r].inc # NULL \/ esc[r].tkt # NULL))
    BY <1>7 DEF RequestForward
  <2>4. /\ esc[r] # NoRow
        /\ esc'[r].inc = esc[r].inc /\ esc'[r].tkt = esc[r].tkt
        /\ esc'[r].rung = esc[r].rung /\ esc'[r].trig = esc[r].trig
    BY <2>2, <2>3, NoRowFields DEF Row, Pending
  <2> QED
    BY <1>h, <2>1, <2>4
<1>8. ASSUME (\E i \in fresh : PollClassify(i)) \/ (\E q \in Request : RequestReason(q))
      PROVE  Goal
  <2>1. outbox' = outbox
    BY <1>8 DEF PollClassify, RequestReason, Finish, mail
  <2> QED
    BY <1>3, <1>4, <1>8, <2>1, ReasonsGiven
<1> QED
  BY <1>1, <1>2, <1>5, <1>6, <1>7, <1>8, StepKinds DEF Act

\* A row that has left the snapshot of the ticker without a fault of the database is the
\* one it dealt with.
LEMMA FiredByTicker ==
  ASSUME RInv, DueStays, [Next]_vars, NEW r \in due, r \notin due', faults' = faults,
         esc[r] # NoRow
  PROVE  TickFire(r)
<1>0. faults \in Nat /\ r \in Rows
  BY DEF RInv, IInv, TypeOK
<1>1. CASE UNCHANGED vars
  BY <1>1 DEF vars, ticker
<1>2. ~TickQuery
  BY <1>0 DEF TickQuery, DueStays
<1>3. ASSUME NEW a \in Asset, MachineStops(a) \/ MachineRuns(a) \/ Panel(a)
      PROVE  due' = due
  BY <1>3
  DEF Panel, MachineStops, MachineRuns, SetOffplan, Decommission, OffplanEnds, Recommission, ticker
<1>4. PollerStep \/ Advance => due' = due
  BY DEF PollerStep, PollFetch, PollRead, PollInsert, PollReopen, PollResolve, PollClassify,
     Advance, ticker
<1>5. TickerStep => due' = due \/ \E s \in due : TickFire(s) /\ due' = due \ {s}
  BY <1>2 DEF TickerStep, TickBegin, TickCommit, TickFire, RowDone
<1>6. ASSUME NEW q \in Request, Answer(q) \/ Act(q)
      PROVE  due' = due
  BY <1>6
  DEF Answer, ReplyToPrompt, NamedReply, PanelReason, PanelRemind, ReplyToEta, Begin, Act,
      RequestReason, RequestEta, RequestForward, Finish, ticker
<1>7. Trouble => due' = due
  BY <1>0 DEF Trouble, PollFails, TickFails, Restart, TickWedge, MessageDies, ticker
<1> QED
  BY <1>1, <1>3, <1>4, <1>5, <1>6, <1>7 DEF Next

\* INSERT IGNORE never swallows the page of a rung that fires, whatever the ladders, the
\* rosters and the operators do, if no fixer gives an estimate.  (If one does, the ladder
\* starts again from its first rung when the estimate runs out, and the keys of the first
\* round are used again.)
THEOREM PagesAreQueued ==
  ASSUME EtaHours = {}
  PROVE  Spec => EveryPageQueued
<1> DEFINE Queued ==
      \A r \in Rows : Fires(r) =>
        \/ outbox' # outbox
        \/ \E m \in outbox' \ dead' :
             m.rep /\ m.tkt = esc[r].tkt /\ m.inc = esc[r].inc /\ m.rung = esc[r].rung
<1>1. Init => RInv /\ PageInv /\ DueStays
  <2>1. Init => PageInv /\ DueStays
    BY DEF Init, PageInv, RungsRise, PagesRefer, FreshUntold, DueStays
  <2> QED
    BY <2>1, InitPromised
<1>2. RInv /\ PageInv /\ DueStays /\ [Next]_vars => RInv' /\ PageInv' /\ DueStays'
  BY NextPromised, RungsKept, PagesKept, DueKept DEF PageInv
<1>3. RInv /\ PageInv /\ DueStays /\ [Next]_vars => [Queued]_vars
  <2> SUFFICES ASSUME RInv, PageInv, DueStays, [Next]_vars, NEW r \in Rows, Fires(r)
               PROVE  \/ outbox' # outbox
                      \/ \E m \in outbox' \ dead' :
                           /\ m.rep /\ m.tkt = esc[r].tkt /\ m.inc = esc[r].inc
                           /\ m.rung = esc[r].rung
    OBVIOUS
  <2>1. r \in due /\ esc[r] # NoRow /\ ~Moot(esc[r]) /\ TickFire(r)
    BY FiredByTicker DEF Fires
  <2>2. PICK sent :
          /\ outbox' = outbox \cup sent /\ sent # {}
          /\ dead' = IF esc[r].trig = "repeat" THEN dead \ sent ELSE dead
          /\ \A m \in sent : /\ m.inc = esc[r].inc /\ m.tkt = esc[r].tkt
                             /\ m.rung = esc[r].rung /\ m.rep = (esc[r].trig = "repeat")
    BY <2>1, FireGives
  <2>3. PICK m : m \in sent
    BY <2>2
  <2>4. CASE esc[r].trig = "repeat"
    BY <2>2, <2>3, <2>4
  <2>5. CASE esc[r].trig # "repeat"
    <3>1. m \notin outbox
      <4>1. esc[r].rung \in Nat
        <5>1. esc[r] \in Row
          BY TablesTyped DEF TablesOK, RInv
        <5> QED
          BY <5>1 DEF Row, Pending
      <4> QED
        BY <2>1, <2>2, <2>3, <2>5, <4>1 DEF PageInv, RungsRise
    <3> QED
      BY <2>2, <2>3, <3>1
  <2> QED
    BY <2>4, <2>5
<1> QED
  BY <1>1, <1>2, <1>3, PTL DEF Spec, EveryPageQueued

-----------------------------------------------------------------------------
(* Nobody is asked about a short stop. *)

\* A question waits until its stop is too long for a short one, whoever else is asked
\* meanwhile; and a stop that ends afterwards has run at least so long.
LEMMA LateKept ==
  ASSUME AsksLate, RInv, LateInv, [Next]_vars
  PROVE  AskedLate'
<1>0. TablesOK /\ MinDuration \in Nat /\ AgeCap \in Nat
  BY TablesTyped, CoreAssumption, LadderAssumption DEF RInv
<1>a. \A i \in Incidents : inc[i].age \in 0 .. AgeCap
  BY <1>0 DEF TablesOK, IncidentRow
<1>d. \A r \in Rows : esc[r].due \in Nat
  BY <1>0 DEF TablesOK, Row, Pending
<1>r. \A r \in Rows : esc[r].inc # NULL =>
        /\ esc[r] # NoRow /\ esc[r].tkt = NULL
        /\ esc[r].inc \in Incidents /\ inc[esc[r].inc].status # "none"
        /\ MinDuration <= AgeCap /\ MinDuration <= inc[esc[r].inc].age + esc[r].due
  BY NoRowFields DEF LateInv, AskedLate, RInv, IInv, RowsRefer
<1>m. \A m \in outbox : m.inc # NULL =>
        /\ m.inc \in Incidents /\ inc[m.inc].status # "none"
        /\ MinDuration <= AgeCap /\ MinDuration <= inc[m.inc].age
        /\ inc[m.inc].status = "resolving" => MinDuration <= inc[m.inc].ran
  BY DEF LateInv, AskedLate, PagesRefer
<1> DEFINE RowLate(r) == esc'[r].inc # NULL =>
             MinDuration <= AgeCap /\ MinDuration <= inc'[esc'[r].inc].age + esc'[r].due
           PageLate(m) == m.inc # NULL =>
             /\ MinDuration <= AgeCap /\ MinDuration <= inc'[m.inc].age
             /\ inc'[m.inc].status = "resolving" => MinDuration <= inc'[m.inc].ran
           Goal == (\A r \in Rows : RowLate(r)) /\ (\A m \in outbox' : PageLate(m))
<1>s. ASSUME \A i \in Incidents : inc[i].status # "none" => inc'[i].age = inc[i].age,
             NEW r \in Rows, esc'[r] = NoRow \/ esc'[r] = esc[r]
      PROVE  RowLate(r)
  BY <1>s, <1>r, NoRowFields
<1>t. ASSUME \A i \in Incidents : /\ inc'[i].age = inc[i].age
                                  /\ inc'[i].status = inc[i].status /\ inc'[i].ran = inc[i].ran,
             NEW m \in outbox
      PROVE  PageLate(m)
  BY <1>t, <1>m
<1>1. ASSUME Quiet
      PROVE  Goal
  <2>1. \A r \in Rows : RowLate(r)
    BY <1>1, <1>s DEF Quiet
  <2>2. \A m \in outbox' : PageLate(m)
    BY <1>1, <1>m DEF Quiet
  <2> QED
    BY <2>1, <2>2
<1>2. ASSUME Advance
      PROVE  Goal
  <2>1. \A i \in Incidents : inc[i].status # "none" =>
          /\ inc'[i].age = Older(inc[i].age)
          /\ inc'[i].status = inc[i].status /\ inc'[i].ran = inc[i].ran
    BY <1>2, TimePasses
  <2>2. \A r \in Rows : esc'[r].inc = esc[r].inc /\ esc'[r].due = Less(esc[r].due)
    BY <1>2, TimePasses
  <2>3. ASSUME NEW n \in 0 .. AgeCap
        PROVE  /\ Older(n) >= n
               /\ \A d \in Nat : MinDuration <= AgeCap /\ MinDuration <= n + d =>
                    MinDuration <= Older(n) + Less(d)
    BY <1>0 DEF Older, Less, Lower
  <2>4. ASSUME NEW r \in Rows
        PROVE  RowLate(r)
    <3> SUFFICES ASSUME esc'[r].inc # NULL
                 PROVE  MinDuration <= AgeCap /\ MinDuration <= inc'[esc'[r].inc].age + esc'[r].due
      OBVIOUS
    <3>1. PICK i \in Incidents : i = esc[r].inc /\ inc[i].status # "none"
      BY <1>r, <2>2
    <3>2. MinDuration <= AgeCap /\ MinDuration <= inc[i].age + esc[r].due
      BY <1>r, <2>2, <3>1
    <3>3. MinDuration <= Older(inc[i].age) + Less(esc[r].due)
      BY <1>a, <1>d, <2>3, <3>2
    <3> QED
      BY <2>1, <2>2, <3>1, <3>2, <3>3
  <2>5. ASSUME NEW m \in outbox
        PROVE  PageLate(m)
    <3> SUFFICES ASSUME m.inc # NULL
                 PROVE  PageLate(m)
      OBVIOUS
    <3>1. PICK i \in Incidents : i = m.inc /\ inc[i].status # "none"
      BY <1>m
    <3>2. Older(inc[i].age) >= inc[i].age /\ Older(inc[i].age) \in Nat
      BY <1>0, <1>a, <2>3 DEF Older, Lower
    <3>3. MinDuration <= Older(inc[i].age)
      BY <1>0, <1>a, <1>m, <3>1, <3>2
    <3> QED
      BY <1>m, <2>1, <3>1, <3>3
  <2>6. outbox' = outbox
    BY <1>2, TimePasses
  <2> QED
    BY <2>4, <2>5, <2>6
<1>3. ASSUME NEW i \in Incidents, NEW code \in Codes, NEW age \in 0 .. AgeCap,
             SetReason(i, code, age), outbox' = outbox
      PROVE  Goal
  <2>1. \A j \in Incidents : /\ inc'[j].age = inc[j].age
                             /\ inc'[j].status = inc[j].status /\ inc'[j].ran = inc[j].ran
    BY <1>3, ReasonGives
  <2>2. \A r \in Rows : esc'[r] = NoRow \/ esc'[r] = esc[r] \/ esc'[r].inc = NULL
    BY <1>3, ReasonGives DEF Kept
  <2> QED
    BY <1>3, <1>s, <1>t, <2>1, <2>2
<1>4. ASSUME NEW i \in fresh, PollClassify(i), UNCHANGED <<inc, tkt>>
      PROVE  Goal
  <2>0. i \in Incidents /\ outbox' = outbox
    BY <1>4, PromptGives
  <2>1. CASE \E code \in AutoCodes : SetReason(i, code, inc[i].age)
    BY <1>3, <1>a, <2>0, <2>1, CoreAssumption
  <2>2. CASE esc' = esc
    BY <1>4, <1>s, <1>t, <2>0, <2>2
  <2>3. CASE UnknownLadder # << >> /\ \E s \in Rows :
               /\ esc'[s].inc = i
               /\ esc'[s].due = Remaining(UnknownLadder[1].after, inc[i].age)
               /\ \A r \in Rows \ {s} : esc'[r] = esc[r]
    <3>1. UnknownLadder[1].after \in 0 .. AgeCap /\ MinDuration <= UnknownLadder[1].after
      <4>1. UnknownLadder \in Seq(Rung) /\ 1 \in 1 .. Len(UnknownLadder)
        BY <2>3, LadderAssumption
      <4>2. UnknownLadder[1] \in Rung
        BY <4>1
      <4> QED
        BY <2>3, <4>2 DEF Rung, AsksLate
    <3>2. /\ MinDuration <= AgeCap
          /\ MinDuration <= inc[i].age + Remaining(UnknownLadder[1].after, inc[i].age)
      BY <1>0, <1>a, <2>0, <3>1 DEF Remaining
    <3> QED
      BY <1>4, <1>s, <1>t, <2>0, <2>3, <3>2
  <2> QED
    BY <1>4, <2>1, <2>2, <2>3, PromptGives
<1>5. ASSUME NEW s \in due, TickFire(s)
      PROVE  Goal
  <2>0. s \in Rows /\ inc' = inc /\ \A r \in Rows \ {s} : esc'[r] = esc[r]
    BY <1>5, FireGives
  <2>1. CASE outbox' = outbox /\ esc'[s] = NoRow
    BY <1>s, <1>t, <2>0, <2>1
  <2>2. CASE /\ esc[s] # NoRow /\ ~Moot(esc[s])
             /\ \E sent : /\ outbox' = outbox \cup sent
                          /\ \A m \in sent : m.inc = esc[s].inc
             /\ esc'[s] = NoRow \/ (esc'[s].inc = esc[s].inc /\ esc'[s].due \in Nat)
    <3>1. esc[s].due = 0
      BY <1>5, <2>2 DEF LateInv, DueStays
    <3>2. esc[s].inc # NULL =>
            /\ MinDuration <= AgeCap /\ MinDuration <= inc[esc[s].inc].age
            /\ inc[esc[s].inc].age \in Nat /\ inc[esc[s].inc].status # "resolving"
      <4>1. esc[s].inc # NULL => inc[esc[s].inc].age \in Nat
        BY <1>a, <1>r, <2>0
      <4>2. esc[s].inc # NULL => inc[esc[s].inc].status # "resolving"
        BY <1>r, <2>0, <2>2 DEF Moot, IncidentOf
      <4> QED
        BY <1>r, <2>0, <3>1, <4>1, <4>2
    <3>3. \A r \in Rows : RowLate(r)
      <4>1. RowLate(s)
        BY <1>0, <2>0, <2>2, <3>2, NoRowFields
      <4> QED
        BY <1>s, <2>0, <4>1
    <3>4. \A m \in outbox' : PageLate(m)
      BY <1>t, <2>0, <2>2, <3>2
    <3> QED
      BY <3>3, <3>4
  <2> QED
    BY <1>5, <2>1, <2>2, FireGives
<1>6. ASSUME NEW q \in Request, RequestEta(q)
      PROVE  Goal
  <2>1. outbox' = outbox
    BY <1>6 DEF RequestEta, Finish, mail
  <2>2. inc' = inc /\ \A r \in Rows : esc'[r] = NoRow \/ esc'[r] = esc[r] \/ esc'[r].inc = NULL
    BY <1>6, EtaGives
  <2> QED
    BY <1>s, <1>t, <2>1, <2>2
<1>7. ASSUME NEW q \in Request, RequestForward(q)
      PROVE  Goal
  <2>1. UNCHANGED <<inc, outbox>>
    BY <1>7 DEF RequestForward, Finish, mail
  <2>2. ASSUME NEW r \in Rows
        PROVE  RowLate(r)
    <3>1. CASE esc'[r] = esc[r]
      BY <1>s, <2>1, <3>1
    <3>2. CASE esc'[r] # esc[r]
      <4>1. /\ \/ req[q].inc # NULL /\ esc[r].inc = req[q].inc
               \/ req[q].tkt # NULL /\ esc[r].tkt = req[q].tkt
            /\ esc'[r] = [esc[r] EXCEPT !.due = 0]
        BY <1>7, <3>2 DEF RequestForward
      <4>2. esc'[r].inc = esc[r].inc /\ esc'[r].due = 0
        BY <1>0, <4>1 DEF TablesOK, Row, Pending
      <4>3. esc[r].inc # NULL => \E m \in outbox : m.inc = esc[r].inc
        BY <1>7, <1>r, <4>1 DEF LateInv, AskedFirst, RequestForward
      <4>4. esc[r].inc # NULL =>
              /\ MinDuration <= AgeCap /\ MinDuration <= inc[esc[r].inc].age
              /\ inc[esc[r].inc].age \in Nat
        BY <1>a, <1>m, <1>r, <4>3
      <4> QED
        BY <1>0, <2>1, <4>2, <4>4
    <3> QED
      BY <3>1, <3>2
  <2> QED
    BY <1>t, <2>1, <2>2
<1>8. ASSUME (\E i \in fresh : PollClassify(i)) \/ (\E q \in Request : RequestReason(q))
      PROVE  Goal
  <2>1. outbox' = outbox
    BY <1>8 DEF PollClassify, RequestReason, Finish, mail
  <2> QED
    BY <1>3, <1>4, <1>8, <2>1, ReasonsGiven
<1>9. Goal
  BY <1>1, <1>2, <1>5, <1>6, <1>7, <1>8, StepKinds DEF Act
<1> QED
  BY <1>9 DEF AskedLate

\* What was sent stays sent, so that who answered it has been asked.
LEMMA AskedStays ==
  ASSUME HandoverAnswers, RInv, AskedFirst, [Next]_vars
  PROVE  AskedFirst'
<1>1. outbox \subseteq outbox'
  BY OnlyFiringTells, FireGives
<1> SUFFICES ASSUME NEW q \in Request, req'[q].doing = "forward", req'[q].inc # NULL
             PROVE  \E m \in outbox : m.inc = req'[q].inc
  BY <1>1 DEF AskedFirst
<1> QED
  BY RequestsTaken DEF AskedFirst

\* An incident leaves the ticker's list by commit_resolve, or untouched.
LEMMA SettledLeft ==
  ASSUME [Next]_vars, NEW i \in settled, i \notin settled'
  PROVE  inc' = inc \/ TickCommit(i)
<1>1. CASE UNCHANGED vars
  BY <1>1 DEF vars, ticker
<1>2. ASSUME NEW a \in Asset, MachineStops(a) \/ MachineRuns(a) \/ Panel(a)
      PROVE  settled' = settled
  BY <1>2
  DEF Panel, MachineStops, MachineRuns, SetOffplan, Decommission, OffplanEnds, Recommission, ticker
<1>3. PollerStep \/ Advance => settled' = settled
  BY DEF PollerStep, PollFetch, PollRead, PollInsert, PollReopen, PollResolve, PollClassify,
     Advance, ticker
<1>4. CASE TickerStep
  <2>1. TickBegin => inc' = inc
    BY DEF TickBegin, tables
  <2>2. TickQuery \/ (\E r \in due : TickFire(r)) => settled' = settled
    BY DEF TickQuery, TickFire, RowDone
  <2>3. ASSUME NEW j \in settled, TickCommit(j)
        PROVE  TickCommit(i)
    BY <2>3 DEF TickCommit
  <2> QED
    BY <1>4, <2>1, <2>2, <2>3 DEF TickerStep
<1>5. ASSUME NEW q \in Request, Answer(q) \/ Act(q)
      PROVE  settled' = settled
  BY <1>5
  DEF Answer, ReplyToPrompt, NamedReply, PanelReason, PanelRemind, ReplyToEta, Begin, Act,
      RequestReason, RequestEta, RequestForward, Finish, ticker
<1>6. Trouble => inc' = inc
  BY DEF Trouble, PollFails, TickFails, Restart, TickWedge, MessageDies, tables
<1> QED
  BY <1>1, <1>2, <1>3, <1>4, <1>5, <1>6 DEF Next

\* A stop that commit_resolve codes as a short stop is one that nobody was asked about,
\* though the ticker may have had its question in hand when the loom resumed: if the first
\* question waits as long as a short stop may last, and is brought forward by nobody who
\* was not sent it.
THEOREM ShortStopsAreQuiet ==
  ASSUME HandoverAnswers, AsksLate
  PROVE  Spec => ShortStopNotAsked
<1> DEFINE Inv == RInv /\ LateInv /\ FreshUntold
           NotAsked ==
             \A i \in settled \ settled' :
               inc[i].reasons = << >> /\ inc'[i].reasons = << "short_stop" >>
                 => ~\E m \in outbox : m.inc = i /\ m.ask
<1>1. Init => Inv
  <2>1. Init => LateInv /\ FreshUntold
    BY NoRowFields
    DEF Init, LateInv, AskedLate, AskedFirst, PagesRefer, DueStays, FreshUntold, Idle
  <2> QED
    BY <2>1, InitPromised
<1>2. Inv /\ [Next]_vars => Inv'
  BY NextPromised, LateKept, AskedStays, PagesKept, DueKept DEF LateInv
<1>3. Inv /\ [Next]_vars => [NotAsked]_vars
  <2> SUFFICES ASSUME RInv, LateInv, [Next]_vars, NEW i \in settled \ settled',
                      inc[i].reasons = << >>, inc'[i].reasons = << "short_stop" >>,
                      NEW m \in outbox, m.inc = i
               PROVE  FALSE
    OBVIOUS
  <2>1. i \in Incidents /\ i # NULL
    <3>1. settled \subseteq Incidents
      BY DEF RInv, IInv, TypeOK
    <3>2. i \in Incidents
      BY <3>1
    <3> QED
      BY <3>2 DEF Incidents, NULL
  <2>2. << "short_stop" >> # << >>
    OBVIOUS
  <2>3. TickCommit(i) /\ inc' # inc
    BY <2>2, SettledLeft
  <2>4. /\ inc[i].status = "resolving"
        /\ inc' = [inc EXCEPT ![i].status = "resolved", ![i].left = 0,
                     ![i].reasons = IF @ = << >> /\ inc[i].ran < MinDuration
                                      THEN << "short_stop" >> ELSE @]
    BY <2>3 DEF TickCommit
  <2>5. inc[i].ran < MinDuration
    <3> DEFINE why == IF inc[i].reasons = << >> /\ inc[i].ran < MinDuration
                        THEN << "short_stop" >> ELSE inc[i].reasons
    <3>1. inc' = [inc EXCEPT ![i].status = "resolved", ![i].left = 0, ![i].reasons = why]
      BY <2>4
    <3> HIDE DEF why
    <3>2. TablesOK
      BY TablesTyped DEF RInv
    <3>3. inc[i] \in IncidentRow
      BY <2>1, <3>2 DEF TablesOK
    <3>4. inc'[i].reasons = why
      BY <2>1, <3>1, <3>2, <3>3 DEF TablesOK, IncidentRow
    <3> QED
      BY <2>2, <3>4 DEF why
  <2>6. MinDuration <= inc[i].ran
    BY <2>1, <2>4 DEF LateInv, AskedLate
  <2>7. inc[i].ran \in Nat /\ MinDuration \in Nat
    BY <2>1, TablesTyped, CoreAssumption, LadderAssumption DEF TablesOK, IncidentRow, RInv
  <2> QED
    BY <2>5, <2>6, <2>7
<1> QED
  BY <1>1, <1>2, <1>3, PTL DEF Spec, ShortStopNotAsked

-----------------------------------------------------------------------------
(* An answer ends the questions. *)

\* An incident stays with its loom.
LEMMA LoomStays ==
  ASSUME RInv, [Next]_vars, NEW i \in Incidents, inc[i].status # "none"
  PROVE  inc'[i].asset = inc[i].asset
<1>1. Promised
  BY NextPromised
<1>2. CASE UNCHANGED <<About, State, Said>>
  BY <1>2 DEF About
<1>3. CASE Contract!Next
  <2>1. PICK f \in Incidents :
          \/ \E loom \in Asset : Contract!Raise(f, loom)
          \/ Contract!Resume(f) \/ Contract!Relapse(f) \/ Contract!Close(f) \/ Contract!Tell(f)
    BY <1>3 DEF Contract!Next
  <2>2. About' = About \/ (inc[f].status = "none" /\ \E loom \in Asset :
                             About' = [About EXCEPT ![f] = loom])
    BY <2>1
    DEF About, Contract!Raise, Contract!Resume, Contract!Relapse, Contract!Close, Contract!Tell
  <2> QED
    BY <2>2 DEF About
<1> QED
  BY <1>1, <1>2, <1>3 DEF Promised

\* What is not the poller's leaves its batch alone.
LEMMA PollerAlone ==
  ASSUME [Next]_vars
  PROVE  PollerStep \/ PollFails \/ Restart \/ UNCHANGED poller
<1>1. CASE UNCHANGED vars
  BY <1>1 DEF vars
<1>2. ASSUME NEW a \in Asset, MachineStops(a) \/ MachineRuns(a) \/ Panel(a)
      PROVE  UNCHANGED poller
  BY <1>2
  DEF Panel, MachineStops, MachineRuns, SetOffplan, Decommission, OffplanEnds, Recommission
<1>3. Advance \/ TickerStep => UNCHANGED poller
  BY DEF Advance, TickerStep, TickBegin, TickCommit, TickQuery, TickFire
<1>4. ASSUME NEW q \in Request, Answer(q) \/ Act(q)
      PROVE  UNCHANGED poller
  BY <1>4
  DEF Answer, ReplyToPrompt, NamedReply, PanelReason, PanelRemind, ReplyToEta, Begin, Act,
      RequestReason, RequestEta, RequestForward, Finish
<1>5. Trouble => PollFails \/ Restart \/ UNCHANGED poller
  BY DEF Trouble, TickFails, TickWedge, MessageDies
<1> QED
  BY <1>1, <1>2, <1>3, <1>4, <1>5 DEF Next

\* The poller deals with a loom once a batch: the incident that it has just raised for a
\* loom is not the one that an event of the same batch resolves.
LEMMA BatchKept ==
  ASSUME RInv, BatchOnce, [Next]_vars
  PROVE  BatchOnce'
<1>1. /\ fresh \subseteq Incidents /\ \A i \in fresh : inc[i].status # "none"
      /\ found # NotFound => found.id \in Incidents /\ inc[found.id].status # "none"
  BY DEF RInv, IInv, TypeOK, FreshUnasked, PollerKnows
<1>2. /\ \A i \in fresh : inc'[i].asset = inc[i].asset
      /\ found # NotFound => inc'[found.id].asset = inc[found.id].asset
  BY <1>1, LoomStays
<1>3. CASE UNCHANGED poller
  <2>1. UNCHANGED <<pollPc, batch, ev, found, fresh>>
    BY <1>3 DEF poller
  <2> QED
    BY <1>2, <2>1 DEF BatchOnce
<1>4. CASE PollFails \/ Restart
  BY <1>4 DEF PollFails, Restart, BatchOnce
<1>5. CASE PollFetch
  <2>1. fresh = {} /\ found = NotFound /\ fresh' = {} /\ found' = NotFound
    BY <1>5 DEF PollFetch, BatchOnce
  <2>2. \A e, f \in batch' : e.asset = f.asset => e = f
    <3> DEFINE stopped == {a \in Asset : machine[a] = "STOPPED" /\ last[a] # "STOPPED"}
               resumed == {a \in Asset : machine[a] = "RUNNING" /\ last[a] = "STOPPED"}
    <3>1. batch' = [kind : {"opened"}, asset : stopped \ (retired \cup offplan)]
                     \cup [kind : {"resolved"}, asset : resumed]
      BY <1>5 DEF PollFetch
    <3>2. \A a : a \in stopped => a \notin resumed
      OBVIOUS
    <3> HIDE DEF stopped, resumed
    <3> QED
      BY <3>1, <3>2
  <2>3. pollPc' = IF batch' = {} THEN "idle" ELSE "apply"
    BY <1>5 DEF PollFetch, NextPc
  <2> QED
    BY <2>1, <2>2, <2>3 DEF BatchOnce
<1>6. ASSUME NEW e \in batch, PollRead(e)
      PROVE  BatchOnce'
  <2>1. pollPc' = "act" /\ ev' = e /\ batch' = batch \ {e} /\ UNCHANGED <<inc, fresh>>
    BY <1>6 DEF PollRead, tables
  <2>2. found' = NotFound \/ inc[found'.id].asset = e.asset
    BY <1>6 DEF PollRead, LiveOf
  <2> QED
    BY <2>1, <2>2 DEF BatchOnce
<1>7. ASSUME pollPc = "act", batch' = batch, found' = NotFound,
             pollPc' = NextPc(batch, fresh'),
             \A i \in fresh' : i \in fresh \/ inc'[i].asset = ev.asset
      PROVE  BatchOnce'
  <2>1. /\ pollPc' # "act"
        /\ pollPc' \in {"idle", "classify"} => batch' = {}
        /\ pollPc' = "idle" => fresh' = {}
    BY <1>7 DEF NextPc
  <2>2. \A e \in batch' : \A i \in fresh' : inc'[i].asset # e.asset
    BY <1>2, <1>7 DEF BatchOnce
  <2> QED
    BY <1>7, <2>1, <2>2 DEF BatchOnce
<1>8. CASE PollInsert
  <2>1. PICK i \in Incidents :
          /\ inc' = [inc EXCEPT ![i] = [NoIncident EXCEPT !.asset = ev.asset, !.status = "open"]]
          /\ fresh' = fresh \cup {i}
    BY <1>8 DEF PollInsert
  <2>2. inc'[i].asset = ev.asset
    BY <2>1, TablesTyped DEF TablesOK, NoIncident, RInv
  <2> QED
    BY <1>7, <1>8, <2>1, <2>2 DEF PollInsert, EventDone
<1>9. CASE PollReopen \/ PollResolve
  BY <1>7, <1>9 DEF PollReopen, PollResolve, EventDone
<1>10. ASSUME NEW i \in fresh, PollClassify(i)
       PROVE  BatchOnce'
  <2>1. pollPc = "classify" /\ batch' = batch /\ found' = found /\ fresh' = fresh \ {i}
        /\ pollPc' = IF fresh' # {} THEN "classify" ELSE "idle"
    BY <1>10 DEF PollClassify, NextPc
  <2> QED
    BY <2>1 DEF BatchOnce
<1> QED
  BY <1>3, <1>4, <1>5, <1>6, <1>8, <1>9, <1>10, PollerAlone DEF PollerStep

\* Nothing but on_open gives a reason to an incident that is still to be classified, and
\* its loom cannot have resumed: its batch is not done with.
LEMMA FreshKept ==
  ASSUME OnlyReplies, RInv, AnswerInv, [Next]_vars
  PROVE  FreshUnanswered'
<1>0. TablesOK
  BY TablesTyped DEF RInv
<1> SUFFICES ASSUME NEW i \in fresh'
             PROVE  /\ inc'[i].reasons = << >> /\ inc'[i].status # "resolving"
                    /\ \A q \in Request : req'[q].doing = "reason" => req'[q].inc # i
  BY DEF FreshUnanswered
<1>1. i \in Incidents /\ i # NULL
  <2>1. fresh \subseteq Incidents
    BY DEF RInv, IInv, TypeOK
  <2>2. i \in Incidents
    BY <2>1, FreshComes
  <2> QED
    BY <2>2 DEF Incidents, NULL
<1>2. ASSUME NEW q \in Request, req'[q].doing = "reason", req'[q].inc = i
      PROVE  FALSE
  <2>1. \A m \in outbox : m.inc # i
    <3>1. i \in fresh => \A m \in outbox : m.inc # i
      BY DEF AnswerInv, FreshUntold
    <3>2. inc[i].status = "none" => \A m \in outbox : m.inc # i
      BY <1>1 DEF AnswerInv, PagesRefer
    <3> QED
      BY <3>1, <3>2, FreshComes
  <2>2. req'[q] = req[q]
    BY <1>2, <2>1, RequestsTaken
  <2>3. inc[i].status # "none"
    BY <1>2, <2>2 DEF RInv, AnswersRaised
  <2>4. i \in fresh
    BY <2>3, FreshComes
  <2> QED
    BY <1>2, <2>2, <2>4 DEF AnswerInv, FreshUnanswered
<1>3. CASE i \notin fresh
  BY <1>2, <1>3, FreshComes
<1>4. CASE i \in fresh
  <2> DEFINE Goal == inc'[i].reasons = << >> /\ inc'[i].status # "resolving"
  <2>0. /\ inc[i].reasons = << >> /\ inc[i].status # "resolving" /\ inc[i].status # "none"
        /\ \A q \in Request : req[q].doing = "reason" => req[q].inc # i
        /\ inc[i] \in IncidentRow
    BY <1>0, <1>1, <1>4 DEF AnswerInv, FreshUnanswered, RInv, IInv, FreshUnasked, TablesOK
  <2>s. ASSUME inc'[i] = inc[i]
        PROVE  Goal
    BY <2>0, <2>s
  <2>1. ASSUME UNCHANGED vars
        PROVE  Goal
    BY <2>s, <2>1 DEF vars, tables
  <2>2. ASSUME NEW a \in Asset, MachineStops(a) \/ MachineRuns(a) \/ Panel(a)
        PROVE  Goal
    <3>1. CASE inc' = inc
      BY <2>s, <3>1
    <3>2. CASE inc' = [j \in Incidents |-> IF j \in LiveOf(a)
                 THEN [inc[j] EXCEPT !.status = "resolved", !.ran = inc[j].age] ELSE inc[j]]
      BY <1>1, <2>0, <3>2 DEF IncidentRow
    <3> QED
      BY <2>2, <3>1, <3>2
      DEF MachineStops, MachineRuns, Panel, SetOffplan, Decommission, OffplanEnds,
          Recommission, tables
  <2>3. ASSUME PollerStep
        PROVE  Goal
    <3>1. ASSUME PollFetch \/ \E e \in batch : PollRead(e)
          PROVE  inc' = inc
      BY <3>1 DEF PollFetch, PollRead, tables
    <3>2. ASSUME PollInsert
          PROVE  inc'[i] = inc[i]
      BY <1>0, <1>1, <2>0, <3>2 DEF PollInsert, NextIncident, TablesOK
    <3>3. ASSUME PollReopen, ~UNCHANGED inc
          PROVE  Goal
      <4>1. inc' = [inc EXCEPT ![found.id] = Reopened(@)]
        BY <3>3 DEF PollReopen
      <4> QED
        BY <1>0, <1>1, <2>0, <4>1 DEF TablesOK, IncidentRow, Reopened
    <3>4. ASSUME PollResolve
          PROVE  inc'[i] = inc[i]
      <4>1. found # NotFound => found.id # i
        BY <1>4, <3>4 DEF AnswerInv, BatchOnce, PollResolve
      <4> QED
        BY <1>0, <1>1, <3>4, <4>1 DEF PollResolve, TablesOK
    <3>5. ASSUME NEW j \in fresh, PollClassify(j)
          PROVE  inc'[i] = inc[i]
      <4>1. j # i /\ j \in Incidents
        BY <3>5, PromptGives
      <4>2. CASE \E code \in AutoCodes : SetReason(j, code, inc[j].age)
        <5>1. inc[j].age \in 0 .. AgeCap
          BY <1>0, <4>1 DEF TablesOK, IncidentRow
        <5> QED
          BY <1>1, <4>1, <4>2, <5>1, ReasonGives, CoreAssumption
      <4> QED
        BY <3>5, <4>2 DEF PollClassify
    <3> QED
      BY <2>3, <2>s, <3>1, <3>2, <3>3, <3>4, <3>5 DEF PollerStep
  <2>4. ASSUME TickerStep
        PROVE  Goal
    <3>1. TickBegin \/ TickQuery \/ (\E r \in due : TickFire(r)) => inc' = inc
      BY DEF TickBegin, TickQuery, TickFire, tables
    <3>2. ASSUME NEW j \in settled, TickCommit(j), inc' # inc
          PROVE  inc'[i] = inc[i]
      <4>1. inc[j].status = "resolving"
        BY <3>2 DEF TickCommit
      <4>2. j # i
        BY <2>0, <4>1
      <4> DEFINE why == IF inc[j].reasons = << >> /\ inc[j].ran < MinDuration
                          THEN << "short_stop" >> ELSE inc[j].reasons
      <4>3. inc' = [inc EXCEPT ![j].status = "resolved", ![j].left = 0, ![j].reasons = why]
        BY <3>2 DEF TickCommit
      <4> HIDE DEF why
      <4> QED
        BY <1>0, <1>1, <4>2, <4>3 DEF TablesOK
    <3> QED
      BY <2>4, <2>s, <3>1, <3>2 DEF TickerStep
  <2>5. ASSUME Advance
        PROVE  Goal
    BY <1>1, <2>0, <2>5, TimePasses
  <2>6. ASSUME NEW q \in Request, Answer(q) \/ Act(q)
        PROVE  Goal
    <3>1. CASE inc' = inc
      BY <2>s, <3>1
    <3>2. CASE RequestReason(q)
      <4>1. PICK code \in Codes : SetReason(req[q].inc, code, 0)
        BY <3>2 DEF RequestReason
      <4>2. req[q].inc # i
        BY <2>0, <3>2 DEF RequestReason
      <4>3. inc'[i] = inc[i]
        BY <1>0, <1>1, <4>1, <4>2 DEF SetReason, TablesOK
      <4> QED
        BY <2>s, <4>3
    <3> QED
      BY <2>6, <3>1, <3>2
      DEF Answer, ReplyToPrompt, NamedReply, PanelReason, PanelRemind, ReplyToEta, Begin, Act,
          RequestEta, RequestForward, tables
  <2>7. ASSUME Trouble
        PROVE  inc' = inc
    BY <2>7 DEF Trouble, PollFails, TickFails, Restart, TickWedge, MessageDies, tables
  <2>8. Goal
    BY <2>s, <2>1, <2>2, <2>3, <2>4, <2>5, <2>6, <2>7 DEF Next
  <2> QED
    BY <1>2, <2>8
<1> QED
  BY <1>3, <1>4

\* What is answered has no question pending, and none is written afterwards.
LEMMA AnswerKept ==
  ASSUME RInv, AnswerInv, [Next]_vars
  PROVE  AnsweredStopsAsking'
<1> SUFFICES ASSUME NEW j \in Incidents, NEW r \in Rows, inc'[j].reasons # << >>, esc'[r].inc = j
             PROVE  FALSE
  BY DEF AnsweredStopsAsking
<1>0. j # NULL /\ NoRow.inc = NULL
  BY NoRowFields DEF Incidents, NULL
<1>s. ASSUME inc'[j].reasons = inc[j].reasons, esc'[r].inc = esc[r].inc
      PROVE  FALSE
  BY <1>s DEF AnswerInv, AnsweredStopsAsking
<1>1. CASE Quiet
  <2>1. inc'[j].reasons = inc[j].reasons
    BY <1>1 DEF Quiet
  <2>2. esc'[r] = esc[r]
    BY <1>0, <1>1 DEF Quiet
  <2> QED
    BY <1>s, <2>1, <2>2
<1>2. CASE Advance
  BY <1>2, <1>s, TimePasses
<1>3. ASSUME NEW i \in Incidents, NEW code \in Codes, NEW age \in 0 .. AgeCap,
             SetReason(i, code, age)
      PROVE  FALSE
  <2>1. esc'[r] = Kept(r, i)
    BY <1>0, <1>3, ReasonGives
  <2>2. esc'[r] = esc[r] /\ i # j
    BY <1>0, <2>1 DEF Kept
  <2>3. inc'[j] = inc[j]
    BY <1>3, <2>2, ReasonGives
  <2> QED
    BY <1>s, <2>2, <2>3
<1>4. ASSUME NEW i \in fresh, PollClassify(i), UNCHANGED <<inc, tkt>>
      PROVE  FALSE
  <2>1. i \in Incidents
    BY <1>4, PromptGives
  <2>2. CASE \E code \in AutoCodes : SetReason(i, code, inc[i].age)
    <3>1. inc[i].age \in 0 .. AgeCap
      BY <2>1, TablesTyped DEF TablesOK, IncidentRow, RInv
    <3> QED
      BY <1>3, <2>1, <2>2, <3>1, CoreAssumption
  <2>3. CASE esc'[r] = esc[r]
    BY <1>4, <1>s, <2>3
  <2>4. CASE j = i
    BY <1>4, <2>4 DEF AnswerInv, FreshUnanswered
  <2> QED
    BY <1>4, <2>2, <2>3, <2>4, PromptGives
<1>5. ASSUME NEW s \in due, TickFire(s)
      PROVE  FALSE
  BY <1>0, <1>5, <1>s, FireGives
<1>6. ASSUME NEW q \in Request, RequestEta(q)
      PROVE  FALSE
  BY <1>0, <1>6, <1>s, EtaGives
<1>7. ASSUME NEW q \in Request, RequestForward(q)
      PROVE  FALSE
  <2>1. esc[r] \in Row
    BY TablesTyped DEF TablesOK, RInv
  <2>2. inc' = inc /\ esc'[r].inc = esc[r].inc
    BY <1>7, <2>1 DEF RequestForward, Row, Pending
  <2> QED
    BY <1>s, <2>2
<1> QED
  BY <1>1, <1>2, <1>3, <1>4, <1>5, <1>6, <1>7, StepKinds, ReasonsGiven DEF Act

\* A fault that has its reason is asked about no more, with any number of replies on their
\* way at once and whatever rung is in the ticker's hands, as long as all of them answer
\* questions that were sent.  (One that comes by the panel, or names the loom, may come
\* before the poller has classified the stop, which then asks all the same.)
THEOREM AnswersEndQuestions ==
  ASSUME OnlyReplies
  PROVE  Spec => []AnsweredStopsAsking
<1>1. Init => RInv /\ AnswerInv
  <2>1. Init => AnsweredStopsAsking /\ PagesRefer /\ FreshUntold /\ FreshUnanswered
    BY DEF Init, AnsweredStopsAsking, PagesRefer, FreshUntold, FreshUnanswered, NoIncident
  <2>2. Init => BatchOnce
    BY DEF Init, BatchOnce
  <2> QED
    BY <2>1, <2>2, InitPromised DEF AnswerInv
<1>2. RInv /\ AnswerInv /\ [Next]_vars => RInv' /\ AnswerInv'
  BY NextPromised, AnswerKept, PagesKept, FreshKept, BatchKept DEF AnswerInv
<1>3. AnswerInv => AnsweredStopsAsking
  BY DEF AnswerInv
<1> QED
  BY <1>1, <1>2, <1>3, PTL DEF Spec

-----------------------------------------------------------------------------
(* A stopped loom is not forgotten. *)

\* A step that takes rungs only from faults that stand no more, or from tickets that it
\* closes, and otherwise forgets nothing, leaves no fault without.
LEMMA ChaseStays ==
  ASSUME RInv, ChaseInv, faults' = faults,
         \A i \in Incidents : inc'[i].status = "open" /\ ~inc'[i].reopened =>
           /\ inc[i].status = "open" /\ ~inc[i].reopened
           /\ inc[i].reasons # << >> => inc'[i].reasons # << >>
           /\ i \in fresh => i \in fresh',
         \A t \in Tickets : tkt'[t].status = "open" =>
           tkt[t].status = "open" /\ tkt'[t].inc = tkt[t].inc,
         \A r \in Rows :
           \/ esc'[r].inc = esc[r].inc /\ esc'[r].tkt = esc[r].tkt
           \/ /\ esc[r].inc \in Incidents =>
                   inc'[esc[r].inc].status # "open" \/ inc'[esc[r].inc].reopened
              /\ esc[r].tkt \in Tickets =>
                   \/ tkt'[esc[r].tkt].status # "open"
                   \/ inc'[tkt[esc[r].tkt].inc].status # "open"
                   \/ inc'[tkt[esc[r].tkt].inc].reopened
  PROVE  ChaseInv'
<1>1. ASSUME faults = 0, NEW i \in Incidents, inc'[i].status = "open", ~inc'[i].reopened
      PROVE  i \in fresh' \/ inc'[i].reasons # << >> \/ \E r \in Rows : esc'[r].inc = i
  <2>1. i \in fresh \/ inc[i].reasons # << >> \/ \E r \in Rows : esc[r].inc = i
    BY <1>1 DEF ChaseInv, Chased
  <2> QED
    BY <1>1, <2>1
<1>2. ASSUME faults = 0, NEW t \in Tickets, tkt'[t].status = "open",
             inc'[tkt'[t].inc].status = "open", ~inc'[tkt'[t].inc].reopened
      PROVE  \E r \in Rows : esc'[r].tkt = t
  <2>1. PICK i \in Incidents : i = tkt[t].inc
    BY <1>2 DEF RInv, IInv, TicketsRefer
  <2>2. tkt[t].status = "open" /\ inc[i].status = "open" /\ ~inc[i].reopened
    BY <1>2, <2>1
  <2>3. PICK r \in Rows : esc[r].tkt = t
    BY <1>2, <2>1, <2>2 DEF ChaseInv, Chased
  <2> QED
    BY <1>2, <2>1, <2>3
<1> QED
  BY <1>1, <1>2 DEF ChaseInv, Chased

\* What writes no table keeps every fault chased.
LEMMA ChaseIdle ==
  ASSUME RInv, ChaseInv, UNCHANGED <<inc, tkt, esc>>, faults' = faults, fresh \subseteq fresh'
  PROVE  ChaseInv'
BY ChaseStays

\* set_reason cancels the questions about an incident only by giving it a reason, and a
\* ticket that it opens has a rung if its ladder is one that repeats.
LEMMA ChaseAnswered ==
  ASSUME AllRepeat, RInv, ChaseInv, faults' = faults,
         NEW i \in Incidents, NEW code \in Codes, NEW age \in 0 .. AgeCap,
         SetReason(i, code, age), fresh \ {i} \subseteq fresh'
  PROVE  ChaseInv'
<1>0. i # NULL /\ NoRow.inc = NULL /\ NoRow.tkt = NULL
  BY NoRowFields DEF Incidents, NULL
<1>1. \A j \in Incidents : /\ inc'[j].status = inc[j].status /\ inc'[j].reopened = inc[j].reopened
                           /\ j # i => inc'[j] = inc[j]
      /\ inc'[i].reasons # << >>
  BY ReasonGives
<1>2. \A r \in Rows : esc[r].inc # NULL /\ esc[r].inc # i => esc'[r] = esc[r]
  BY <1>0, ReasonGives DEF Kept, FreeRow
<1>3. \A r \in Rows : esc[r].tkt # NULL => esc'[r] = esc[r]
  <2>1. \A r \in Rows : esc[r].tkt # NULL => esc[r].inc # i /\ esc[r] # NoRow
    BY <1>0 DEF RInv, IInv, RowsRefer
  <2> QED
    BY <2>1, ReasonGives DEF Kept, FreeRow
<1>4. ASSUME faults = 0, NEW j \in Incidents, inc'[j].status = "open", ~inc'[j].reopened
      PROVE  j \in fresh' \/ inc'[j].reasons # << >> \/ \E r \in Rows : esc'[r].inc = j
  <2>1. CASE j = i
    BY <1>1, <2>1
  <2>2. CASE j # i
    <3>1. j \in fresh \/ inc[j].reasons # << >> \/ \E r \in Rows : esc[r].inc = j
      BY <1>1, <1>4 DEF ChaseInv, Chased
    <3>2. j # NULL
      BY DEF Incidents, NULL
    <3> QED
      BY <1>1, <1>2, <2>2, <3>1, <3>2
  <2> QED
    BY <2>1, <2>2
<1>5. ASSUME faults = 0, NEW t \in Tickets, tkt'[t].status = "open",
             inc'[tkt'[t].inc].status = "open", ~inc'[tkt'[t].inc].reopened
      PROVE  \E r \in Rows : esc'[r].tkt = t
  <2>1. CASE tkt'[t] = tkt[t]
    <3>1. PICK j \in Incidents : j = tkt[t].inc
      BY <1>5, <2>1 DEF RInv, IInv, TicketsRefer
    <3>2. PICK r \in Rows : esc[r].tkt = t
      BY <1>1, <1>5, <2>1, <3>1 DEF ChaseInv, Chased
    <3>3. t # NULL
      BY DEF Tickets, NULL
    <3> QED
      BY <1>3, <3>2, <3>3
  <2>2. CASE tkt'[t] # tkt[t]
    <3>1. \A c \in Ticketable : LadderFor[c] # << >>
      BY DEF AllRepeat, Repeats
    <3> QED
      BY <2>2, <3>1, ReasonGives
  <2> QED
    BY <2>1, <2>2
<1> QED
  BY <1>4, <1>5 DEF ChaseInv, Chased

\* A new fault is in the poller's hands until it is classified.
LEMMA ChaseInserted ==
  ASSUME RInv, ChaseInv, PollInsert
  PROVE  ChaseInv'
<1>1. PICK i \in Incidents :
        /\ inc[i].status = "none" /\ fresh' = fresh \cup {i}
        /\ inc' = [inc EXCEPT ![i] = [NoIncident EXCEPT !.asset = ev.asset, !.status = "open"]]
  BY DEF PollInsert, NextIncident
<1>2. \A j \in Incidents \ {i} : inc'[j] = inc[j]
  BY <1>1, TablesTyped DEF TablesOK, RInv
<1>3. UNCHANGED <<tkt, esc, faults>>
  BY DEF PollInsert
<1>4. ASSUME faults = 0, NEW t \in Tickets, tkt'[t].status = "open",
             inc'[tkt'[t].inc].status = "open", ~inc'[tkt'[t].inc].reopened
      PROVE  \E r \in Rows : esc'[r].tkt = t
  <2>1. PICK j \in Incidents : j = tkt[t].inc /\ inc[j].status # "none"
    BY <1>3, <1>4 DEF RInv, IInv, TicketsRefer, TicketsRaised
  <2>2. inc'[j] = inc[j]
    BY <1>1, <1>2, <2>1
  <2> QED
    BY <1>3, <1>4, <2>1, <2>2 DEF ChaseInv, Chased
<1>5. ASSUME faults = 0, NEW j \in Incidents, inc'[j].status = "open", ~inc'[j].reopened
      PROVE  j \in fresh' \/ inc'[j].reasons # << >> \/ \E r \in Rows : esc'[r].inc = j
  BY <1>1, <1>2, <1>3, <1>5 DEF ChaseInv, Chased
<1> QED
  BY <1>3, <1>4, <1>5 DEF ChaseInv, Chased

\* The poller ends the chase of a fault only when its loom has resumed, for a while or
\* for good.
LEMMA ChaseMoved ==
  ASSUME RInv, ChaseInv, PollReopen \/ PollResolve
  PROVE  ChaseInv'
<1>0. TablesOK
  BY TablesTyped DEF RInv
<1>1. UNCHANGED <<esc, faults, fresh>>
  BY DEF PollReopen, PollResolve
<1>2. ASSUME NEW i \in Incidents, inc'[i].status = "open", ~inc'[i].reopened
      PROVE  inc'[i] = inc[i]
  <2>1. inc[i] \in IncidentRow
    BY <1>0 DEF TablesOK
  <2>2. CASE UNCHANGED inc
    BY <2>2
  <2>3. CASE inc' = [inc EXCEPT ![found.id] = Reopened(@)]
    BY <1>0, <1>2, <2>1, <2>3 DEF TablesOK, IncidentRow, Reopened
  <2>4. CASE inc' = [inc EXCEPT ![found.id].status = "resolving", ![found.id].left = Grace,
                                ![found.id].ran = inc[found.id].age]
    BY <1>0, <1>2, <2>1, <2>4 DEF TablesOK, IncidentRow
  <2> QED
    BY <2>2, <2>3, <2>4 DEF PollReopen, PollResolve
<1>3. ASSUME NEW t \in Tickets
      PROVE  tkt'[t].status = tkt[t].status /\ tkt'[t].inc = tkt[t].inc
  <2>1. tkt[t] \in TicketRow
    BY <1>0 DEF TablesOK
  <2>2. tkt' = tkt \/ \E again : tkt' = [u \in Tickets |-> IF u \in again
                                    THEN [tkt[u] EXCEPT !.reopens = @ + 1] ELSE tkt[u]]
    BY DEF PollReopen, PollResolve
  <2> QED
    BY <2>1, <2>2 DEF TicketRow
<1> QED
  BY <1>1, <1>2, <1>3, ChaseStays

\* on_open gives a fault its reason, or its first question.
LEMMA ChaseClassified ==
  ASSUME AllRepeat, RInv, ChaseInv, NEW i \in fresh, PollClassify(i)
  PROVE  ChaseInv'
<1>0. /\ i \in Incidents /\ faults' = faults /\ fresh' = fresh \ {i}
      /\ UnknownLadder # << >>
  BY PromptGives DEF AllRepeat, Repeats
<1>1. CASE \E code \in AutoCodes : SetReason(i, code, inc[i].age)
  <2>1. inc[i].age \in 0 .. AgeCap
    BY <1>0, TablesTyped DEF TablesOK, IncidentRow, RInv
  <2> QED
    BY <1>0, <1>1, <2>1, ChaseAnswered, CoreAssumption
<1>2. CASE /\ UNCHANGED <<inc, tkt>>
           /\ \E s \in Rows : FreeRow(s) /\ esc'[s].inc = i /\ \A r \in Rows \ {s} : esc'[r] = esc[r]
  <2>1. PICK s \in Rows : FreeRow(s) /\ esc'[s].inc = i /\ \A r \in Rows \ {s} : esc'[r] = esc[r]
    BY <1>2
  <2>2. \A r \in Rows : esc[r].inc # NULL \/ esc[r].tkt # NULL => esc'[r] = esc[r]
    BY <2>1, NoRowFields DEF FreeRow
  <2>3. \A j \in Incidents : j # NULL
    BY DEF Incidents, NULL
  <2>4. \A t \in Tickets : t # NULL
    BY DEF Tickets, NULL
  <2>5. ASSUME faults = 0, NEW j \in Incidents, inc'[j].status = "open", ~inc'[j].reopened
        PROVE  j \in fresh' \/ inc'[j].reasons # << >> \/ \E r \in Rows : esc'[r].inc = j
    <3>1. j \in fresh \/ inc[j].reasons # << >> \/ \E r \in Rows : esc[r].inc = j
      BY <1>2, <2>5 DEF ChaseInv, Chased
    <3> QED
      BY <1>0, <1>2, <2>1, <2>2, <2>3, <3>1
  <2>6. ASSUME faults = 0, NEW t \in Tickets, tkt'[t].status = "open",
               inc'[tkt'[t].inc].status = "open", ~inc'[tkt'[t].inc].reopened
        PROVE  \E r \in Rows : esc'[r].tkt = t
    <3>1. PICK r \in Rows : esc[r].tkt = t
      BY <1>2, <2>6 DEF ChaseInv, Chased
    <3> QED
      BY <2>2, <2>4, <3>1
  <2> QED
    BY <1>0, <2>5, <2>6 DEF ChaseInv, Chased
<1> QED
  BY <1>0, <1>1, <1>2, PromptGives

\* commit_resolve cancels the rungs of what it closes.
LEMMA ChaseCommitted ==
  ASSUME RInv, ChaseInv, NEW i \in settled, TickCommit(i)
  PROVE  ChaseInv'
<1>0. TablesOK
  BY TablesTyped DEF RInv
<1>1. i \in Incidents /\ UNCHANGED <<faults, fresh>>
  <2>1. settled \subseteq Incidents
    BY DEF RInv, IInv, TypeOK
  <2> QED
    BY <2>1 DEF TickCommit, poller
<1>2. CASE UNCHANGED <<inc, tkt, esc>>
  BY <1>1, <1>2, ChaseIdle
<1>3. CASE inc[i].status = "resolving"
  <2> DEFINE why == IF inc[i].reasons = << >> /\ inc[i].ran < MinDuration
                      THEN << "short_stop" >> ELSE inc[i].reasons
  <2>0. inc' = [inc EXCEPT ![i].status = "resolved", ![i].left = 0, ![i].reasons = why]
    BY <1>3 DEF TickCommit
  <2> HIDE DEF why
  <2>1. ASSUME NEW j \in Incidents
        PROVE  /\ j # i => inc'[j] = inc[j]
               /\ j = i => inc'[j].status = "resolved"
    <3>1. inc[j] \in IncidentRow
      BY <1>0 DEF TablesOK
    <3> QED
      BY <1>0, <1>1, <2>0, <3>1 DEF TablesOK, IncidentRow
  <2>2. PICK shut \in LimitOne(OpenTickets(i)) :
          /\ tkt' = [t \in Tickets |-> IF t \in shut
                       THEN [tkt[t] EXCEPT !.status = "closed"] ELSE tkt[t]]
          /\ esc' = CancelAll({i}, shut)
    BY <1>3 DEF TickCommit
  <2>3. ASSUME NEW t \in Tickets
        PROVE  /\ t \in shut => tkt'[t].status = "closed"
               /\ t \notin shut => tkt'[t] = tkt[t]
    <3>1. tkt[t] \in TicketRow
      BY <1>0 DEF TablesOK
    <3> QED
      BY <2>2, <3>1 DEF TicketRow
  <2>4. ASSUME NEW r \in Rows
        PROVE  \/ esc'[r] = esc[r] \/ (esc[r].inc = i /\ esc[r].tkt = NULL)
               \/ (esc[r].tkt \in shut /\ esc[r].inc = NULL)
    <3>1. esc'[r] = esc[r] \/ (esc[r] # NoRow /\ (esc[r].inc = i \/ esc[r].tkt \in shut))
      BY <2>2 DEF CancelAll
    <3>2. NULL \notin Incidents /\ NULL \notin Tickets
      BY DEF Incidents, Tickets, NULL
    <3>3. shut \subseteq Tickets
      BY <2>2 DEF LimitOne, OpenTickets
    <3> QED
      BY <1>1, <3>1, <3>2, <3>3 DEF RInv, IInv, RowsRefer
  <2>5. NULL \notin Incidents /\ NULL \notin Tickets
    BY DEF Incidents, Tickets, NULL
  <2>6. \A r \in Rows :
           \/ esc'[r].inc = esc[r].inc /\ esc'[r].tkt = esc[r].tkt
           \/ /\ esc[r].inc \in Incidents =>
                   inc'[esc[r].inc].status # "open" \/ inc'[esc[r].inc].reopened
              /\ esc[r].tkt \in Tickets =>
                   \/ tkt'[esc[r].tkt].status # "open"
                   \/ inc'[tkt[esc[r].tkt].inc].status # "open"
                   \/ inc'[tkt[esc[r].tkt].inc].reopened
    BY <1>1, <2>1, <2>3, <2>4, <2>5
  <2>7. \A t \in Tickets : tkt'[t].status = "open" =>
           tkt[t].status = "open" /\ tkt'[t].inc = tkt[t].inc
    BY <2>3
  <2>8. \A j \in Incidents : inc'[j].status = "open" /\ ~inc'[j].reopened => inc'[j] = inc[j]
    BY <1>1, <2>1
  <2> QED
    BY <1>1, <2>6, <2>7, <2>8, ChaseStays
<1> QED
  BY <1>2, <1>3 DEF TickCommit

\* Going off plan leaves the rungs of the ticket, and retirement cancels those of a ticket
\* that it closes; both end the fault.
LEMMA ChaseEnded ==
  ASSUME RInv, ChaseInv, NEW a \in Asset, SetOffplan(a) \/ Decommission(a)
  PROVE  ChaseInv'
<1>0. TablesOK /\ UNCHANGED <<faults, fresh>>
  BY TablesTyped DEF RInv, SetOffplan, Decommission, poller
<1> DEFINE gone == LiveOf(a)
<1>1. inc' = [i \in Incidents |-> IF i \in gone
               THEN [inc[i] EXCEPT !.status = "resolved", !.ran = inc[i].age] ELSE inc[i]]
  BY DEF SetOffplan, Decommission
<1>2. PICK shut :
        /\ shut \subseteq Tickets
        /\ tkt' = [t \in Tickets |-> IF t \in shut
                     THEN [tkt[t] EXCEPT !.status = "closed"] ELSE tkt[t]]
        /\ esc' = CancelAll(gone, shut)
  <2>1. CASE SetOffplan(a)
    <3>1. tkt' = tkt /\ esc' = CancelAll(gone, {})
      BY <2>1 DEF SetOffplan
    <3>2. tkt' = [t \in Tickets |-> IF t \in {}
                    THEN [tkt[t] EXCEPT !.status = "closed"] ELSE tkt[t]]
      BY <1>0, <3>1 DEF TablesOK
    <3> QED
      BY <3>1, <3>2
  <2>2. CASE Decommission(a)
    <3>1. UNION {OpenTickets(i) : i \in gone} \subseteq Tickets
      BY DEF OpenTickets
    <3> QED
      BY <2>2, <3>1 DEF Decommission
  <2> QED
    BY <2>1, <2>2
<1>3. gone \subseteq Incidents /\ NULL \notin Incidents /\ NULL \notin Tickets
  BY DEF LiveOf, Incidents, Tickets, NULL
<1> HIDE DEF gone
<1>4. ASSUME NEW j \in Incidents
      PROVE  /\ j \notin gone => inc'[j] = inc[j]
             /\ j \in gone => inc'[j].status = "resolved"
  <2>1. inc[j] \in IncidentRow
    BY <1>0 DEF TablesOK
  <2> QED
    BY <1>1, <2>1 DEF IncidentRow
<1>5. ASSUME NEW t \in Tickets
      PROVE  /\ t \in shut => tkt'[t].status = "closed"
             /\ t \notin shut => tkt'[t] = tkt[t]
  <2>1. tkt[t] \in TicketRow
    BY <1>0 DEF TablesOK
  <2> QED
    BY <1>2, <2>1 DEF TicketRow
<1>6. ASSUME NEW r \in Rows
      PROVE  \/ esc'[r] = esc[r] \/ (esc[r].inc \in gone /\ esc[r].tkt = NULL)
             \/ (esc[r].tkt \in shut /\ esc[r].inc = NULL)
  <2>1. esc'[r] = esc[r] \/ (esc[r] # NoRow /\ (esc[r].inc \in gone \/ esc[r].tkt \in shut))
    BY <1>2 DEF CancelAll
  <2> QED
    BY <1>2, <1>3, <2>1 DEF RInv, IInv, RowsRefer
<1>7. \A r \in Rows :
         \/ esc'[r].inc = esc[r].inc /\ esc'[r].tkt = esc[r].tkt
         \/ /\ esc[r].inc \in Incidents =>
                 inc'[esc[r].inc].status # "open" \/ inc'[esc[r].inc].reopened
            /\ esc[r].tkt \in Tickets =>
                 \/ tkt'[esc[r].tkt].status # "open"
                 \/ inc'[tkt[esc[r].tkt].inc].status # "open"
                 \/ inc'[tkt[esc[r].tkt].inc].reopened
  BY <1>2, <1>3, <1>4, <1>5, <1>6
<1>8. \A t \in Tickets : tkt'[t].status = "open" =>
         tkt[t].status = "open" /\ tkt'[t].inc = tkt[t].inc
  BY <1>5
<1>9. \A j \in Incidents : inc'[j].status = "open" /\ ~inc'[j].reopened => inc'[j] = inc[j]
  BY <1>4
<1> QED
  BY <1>0, <1>7, <1>8, <1>9, ChaseStays

\* A rung that fires has a successor, if the ladders repeat; one that is dropped was moot.
LEMMA ChaseFired ==
  ASSUME AllRepeat, RInv, ChaseInv, NEW r \in due, TickFire(r)
  PROVE  ChaseInv'
<1>1. /\ r \in Rows /\ UNCHANGED <<inc, fresh, faults>>
      /\ \A s \in Rows \ {r} : esc'[s] = esc[s]
      /\ \A t \in Tickets : tkt'[t].inc = tkt[t].inc /\ tkt'[t].status = tkt[t].status
  BY FireGives
<1>2. CASE esc'[r].inc = esc[r].inc /\ esc'[r].tkt = esc[r].tkt
  <2>1. \A s \in Rows : esc'[s].inc = esc[s].inc /\ esc'[s].tkt = esc[s].tkt
    BY <1>1, <1>2
  <2> QED
    BY <1>1, <2>1, ChaseStays
<1>3. CASE esc[r] # NoRow /\ Moot(esc[r])
  <2>1. \/ /\ esc[r].tkt = NULL /\ esc[r].inc \in Incidents
           /\ inc[esc[r].inc].status # "open"
        \/ /\ esc[r].inc = NULL /\ esc[r].tkt \in Tickets
           /\ inc[tkt[esc[r].tkt].inc].status # "open"
    <3>1. NULL \notin Incidents /\ NULL \notin Tickets
      BY DEF Incidents, Tickets, NULL
    <3> QED
      BY <1>1, <1>3, <3>1 DEF Moot, IncidentOf, RInv, IInv, RowsRefer
  <2>2. NULL \notin Incidents /\ NULL \notin Tickets
    BY DEF Incidents, Tickets, NULL
  <2>3. \A s \in Rows :
           \/ esc'[s].inc = esc[s].inc /\ esc'[s].tkt = esc[s].tkt
           \/ /\ esc[s].inc \in Incidents =>
                   inc'[esc[s].inc].status # "open" \/ inc'[esc[s].inc].reopened
              /\ esc[s].tkt \in Tickets =>
                   \/ tkt'[esc[s].tkt].status # "open"
                   \/ inc'[tkt[esc[s].tkt].inc].status # "open"
                   \/ inc'[tkt[esc[s].tkt].inc].reopened
    BY <1>1, <2>1, <2>2
  <2> QED
    BY <1>1, <2>3, ChaseStays
<1> QED
  BY <1>2, <1>3, FireGives

\* set_eta puts the check of the estimate in the place of what it cancels; handing over
\* moves rungs in time only.
LEMMA ChaseRequested ==
  ASSUME RInv, ChaseInv, NEW q \in Request, RequestEta(q) \/ RequestForward(q)
  PROVE  ChaseInv'
<1>1. UNCHANGED <<inc, fresh, faults>>
  BY DEF RequestEta, RequestForward, Finish, poller
<1>2. CASE RequestForward(q)
  <2>1. \A r \in Rows : esc'[r].inc = esc[r].inc /\ esc'[r].tkt = esc[r].tkt
    <3> SUFFICES ASSUME NEW r \in Rows
                 PROVE  esc'[r].inc = esc[r].inc /\ esc'[r].tkt = esc[r].tkt
      OBVIOUS
    <3>1. esc[r] \in Row
      BY TablesTyped DEF TablesOK, RInv
    <3> QED
      BY <1>2, <3>1 DEF RequestForward, Row, Pending
  <2>2. tkt' = tkt
    BY <1>2 DEF RequestForward
  <2> QED
    BY <1>1, <2>1, <2>2, ChaseStays
<1>3. CASE RequestEta(q) /\ UNCHANGED <<tkt, esc>>
  BY <1>1, <1>3, ChaseIdle
<1>4. CASE \E t \in Tickets, s \in Rows :
             /\ FreeRow(s) /\ esc'[s].tkt = t
             /\ \A u \in Tickets : tkt'[u].inc = tkt[u].inc /\ tkt'[u].status = tkt[u].status
             /\ \A r \in Rows \ {s} : esc'[r] = IF esc[r].tkt = t THEN NoRow ELSE esc[r]
  <2>1. PICK t \in Tickets, s \in Rows :
             /\ FreeRow(s) /\ esc'[s].tkt = t
             /\ \A u \in Tickets : tkt'[u].inc = tkt[u].inc /\ tkt'[u].status = tkt[u].status
             /\ \A r \in Rows \ {s} : esc'[r] = IF esc[r].tkt = t THEN NoRow ELSE esc[r]
    BY <1>4
  <2>2. NULL \notin Incidents /\ NULL \notin Tickets
    BY DEF Incidents, Tickets, NULL
  <2>3. \A r \in Rows : esc[r].inc \in Incidents => esc'[r] = esc[r]
    BY <2>1, <2>2, NoRowFields DEF FreeRow, RInv, IInv, RowsRefer
  <2>4. \A r \in Rows : esc[r].tkt \in Tickets /\ esc[r].tkt # t => esc'[r] = esc[r]
    BY <2>1, <2>2, NoRowFields DEF FreeRow
  <2>5. ASSUME faults = 0, NEW j \in Incidents, inc'[j].status = "open", ~inc'[j].reopened
        PROVE  j \in fresh' \/ inc'[j].reasons # << >> \/ \E r \in Rows : esc'[r].inc = j
    BY <1>1, <2>3, <2>5 DEF ChaseInv, Chased
  <2>6. ASSUME faults = 0, NEW u \in Tickets, tkt'[u].status = "open",
               inc'[tkt'[u].inc].status = "open", ~inc'[tkt'[u].inc].reopened
        PROVE  \E r \in Rows : esc'[r].tkt = u
    <3>1. PICK r \in Rows : esc[r].tkt = u
      BY <1>1, <2>1, <2>6 DEF ChaseInv, Chased
    <3> QED
      BY <2>1, <2>4, <3>1
  <2> QED
    BY <1>1, <2>5, <2>6 DEF ChaseInv, Chased
<1> QED
  BY <1>2, <1>3, <1>4, EtaGives

\* As long as the database fails nobody, no step leaves a fault that stands without a
\* rung or an answer.
LEMMA ChaseKept ==
  ASSUME AllRepeat, RInv, ChaseInv, [Next]_vars
  PROVE  ChaseInv'
<1>0. faults \in Nat
  BY DEF RInv, IInv, TypeOK
<1>f. ASSUME faults' = faults + 1
      PROVE  ChaseInv'
  BY <1>0, <1>f DEF ChaseInv
<1>1. CASE UNCHANGED vars
  BY <1>1, ChaseIdle DEF vars, tables, poller
<1>2. ASSUME NEW a \in Asset, MachineStops(a) \/ MachineRuns(a) \/ Panel(a)
      PROVE  ChaseInv'
  <2>1. MachineStops(a) \/ MachineRuns(a) \/ OffplanEnds(a) \/ Recommission(a) =>
          UNCHANGED <<inc, tkt, esc, fresh, faults>>
    BY DEF MachineStops, MachineRuns, OffplanEnds, Recommission, tables, poller
  <2> QED
    BY <1>2, <2>1, ChaseIdle, ChaseEnded DEF Panel
<1>3. CASE PollerStep
  <2>1. PollFetch \/ (\E e \in batch : PollRead(e)) => UNCHANGED <<inc, tkt, esc, fresh, faults>>
    BY DEF PollFetch, PollRead, tables
  <2> QED
    BY <1>3, <2>1, ChaseIdle, ChaseInserted, ChaseMoved, ChaseClassified DEF PollerStep
<1>4. CASE TickerStep
  <2>1. TickBegin \/ TickQuery => UNCHANGED <<inc, tkt, esc, fresh, faults>>
    BY DEF TickBegin, TickQuery, tables, poller
  <2> QED
    BY <1>4, <2>1, ChaseIdle, ChaseCommitted, ChaseFired DEF TickerStep
<1>5. CASE Advance
  <2>1. \A r \in Rows : esc'[r].inc = esc[r].inc /\ esc'[r].tkt = esc[r].tkt
    BY <1>5, TimePasses
  <2>2. \A i \in Incidents : /\ inc'[i].status = inc[i].status
                             /\ inc'[i].reasons = inc[i].reasons
                             /\ inc'[i].reopened = inc[i].reopened
    BY <1>5, TimePasses
  <2>3. fresh' = fresh /\ faults' = faults
        /\ \A t \in Tickets : tkt'[t].inc = tkt[t].inc /\ tkt'[t].status = tkt[t].status
    BY <1>5, TimePasses
  <2> QED
    BY <2>1, <2>2, <2>3, ChaseStays
<1>6. ASSUME NEW q \in Request, Answer(q)
      PROVE  ChaseInv'
  <2>1. UNCHANGED <<inc, tkt, esc, fresh, faults>>
    BY <1>6
    DEF Answer, ReplyToPrompt, NamedReply, PanelReason, PanelRemind, ReplyToEta, Begin, tables,
        poller
  <2> QED
    BY <2>1, ChaseIdle
<1>7. ASSUME NEW q \in Request, Act(q)
      PROVE  ChaseInv'
  <2>1. CASE RequestReason(q)
    <3>1. PICK i \in Incidents : i = req[q].inc
      BY <2>1 DEF RInv, IInv, RequestKnows, RequestReason
    <3>2. PICK code \in Codes : SetReason(i, code, 0)
      BY <2>1, <3>1 DEF RequestReason
    <3>3. UNCHANGED <<fresh, faults>> /\ 0 \in 0 .. AgeCap
      BY <2>1, LadderAssumption DEF RequestReason, Finish, poller
    <3> QED
      BY <3>2, <3>3, ChaseAnswered
  <2> QED
    BY <1>7, <2>1, ChaseRequested DEF Act
<1>8. CASE Trouble
  <2>1. (\E m \in outbox : MessageDies(m)) \/ (\E r \in due : TickWedge(r))
          \/ PollFails \/ TickFails \/ Restart => faults' = faults + 1
    BY DEF MessageDies, TickWedge, PollFails, TickFails, Restart
  <2> QED
    BY <1>8, <1>f, <2>1 DEF Trouble
<1> QED
  BY <1>1, <1>2, <1>3, <1>4, <1>5, <1>6, <1>7, <1>8 DEF Next

\* A stopped loom is not forgotten, whoever answers, hands over, retires or plans: as long
\* as the database fails nobody and the ladders repeat, an incident that has never entered
\* its grace window is about to be classified, or has a rung, or needs nobody.
THEOREM StopsAreChased == Spec => []StillChased
<1>1. Init => RInv /\ (AllRepeat => ChaseInv)
  <2>1. Init => ChaseInv
    BY DEF Init, ChaseInv, Chased, NoIncident, NoTicket
  <2> QED
    BY <2>1, InitPromised
<1>2. RInv /\ (AllRepeat => ChaseInv) /\ [Next]_vars => RInv' /\ (AllRepeat => ChaseInv)'
  BY NextPromised, ChaseKept DEF AllRepeat, Repeats
<1>3. RInv /\ (AllRepeat => ChaseInv) => StillChased
  <2> SUFFICES ASSUME RInv, ChaseInv, faults = 0, NEW i \in Incidents, Chased(i),
                      i \notin fresh, OpenTickets(i) # {} \/ inc[i].reasons = << >>
               PROVE  \E r \in Rows : esc[r] # NoRow /\ IncidentOf(esc[r]) = i
    BY DEF StillChased, AllRepeat, Chased
  <2>0. NULL \notin Incidents /\ NULL \notin Tickets
    BY DEF Incidents, Tickets, NULL
  <2>1. CASE \E r \in Rows : esc[r].inc = i
    BY <2>0, <2>1, NoRowFields DEF RInv, IInv, RowsRefer, IncidentOf
  <2>2. CASE OpenTickets(i) # {}
    <3>1. PICK t \in Tickets : tkt[t].inc = i /\ tkt[t].status = "open"
      BY <2>2 DEF OpenTickets
    <3>2. PICK r \in Rows : esc[r].tkt = t
      BY <3>1 DEF ChaseInv
    <3> QED
      BY <2>0, <3>1, <3>2, NoRowFields DEF IncidentOf
  <2> QED
    BY <2>1, <2>2 DEF ChaseInv
<1> QED
  BY <1>1, <1>2, <1>3, PTL DEF Spec

=============================================================================
