------------------------------- MODULE Replies -------------------------------
(***************************************************************************)
(* What a reply of the floor is taken to answer: the webhooks that receive *)
(* WhatsApp and Google Chat messages (app/api/webhooks.py) and the reading *)
(* of their text (app/core/prompts.py).                                    *)
(*                                                                         *)
(* Every delivery is an HTTP request of its own.  Its handler stores it    *)
(* and looks its question up, looks the named loom up, writes, and says    *)
(* something back, in steps between which the other requests, the poller   *)
(* and the ticker go on.  A provider that redelivers a message makes       *)
(* another request of the same content.  The rows of inbound_raw are read  *)
(* by nobody here, so a request leaves nothing but what it did.            *)
(*                                                                         *)
(* The fault lifecycle is here only as far as a reply can tell: an         *)
(* incident inside its grace is live, and timers are left to OpsCore.      *)
(***************************************************************************)
EXTENDS Integers, Sequences, FiniteSets

CONSTANTS
  Phones,       \* the people on WhatsApp, who may quote a message
  Spaces,       \* the Google Chat spaces
  Cards,        \* the looms their cards may carry
  Looms,        \* the looms, by the number that people use
  Options,      \* prompts.options: the code each number stands for
  Ticketable,   \* the codes that open a ticket
  ETA_MAX_HOURS,
  Texts,        \* what people write
  Window,       \* the LIMIT of the look-ups
  Request,      \* HTTP request threads
  \* bounds of the model, none of them in the code
  MaxIncidents, MaxTickets, MaxMessages

NoLoom  == 0
NoCode  == "none"
NoHours == 0
Nothing == 0
Sender  == Phones \cup Spaces
Codes   == {Options[n] : n \in DOMAIN Options}

\* The words of a reply: numbers, then at most one word that is none.  A label
\* is that of the first option; noise is what nobody can read.
Text == [numbers : Seq(Nat), word : {"none", "label", "pass", "noise"}]

ASSUME RepliesAssumption ==
  /\ Sender # {}
  /\ Looms \subseteq Nat \ {NoLoom} /\ Cards \subseteq Looms
  /\ Options \in Seq(STRING) /\ Options # << >> /\ NoCode \notin Codes
  /\ Texts \subseteq Text
  /\ ETA_MAX_HOURS \in Nat /\ Window \in Nat \ {0}
  /\ {MaxIncidents, MaxTickets, MaxMessages} \subseteq Nat

Incidents == 1 .. MaxIncidents
Tickets   == 1 .. MaxTickets

VARIABLES
  inc,     \* table incidents, with incident_reasons folded in
  tkt,     \* table tickets
  chat,    \* table outbox, by recipient and in order of id
  req      \* the request threads, each with the delivery it handles

vars == <<inc, tkt, chat, req>>

-----------------------------------------------------------------------------
(* Rows. *)

\* answered: there is a row of incident_reasons.
IncidentRow == [loom : Looms \cup {NoLoom}, status : {"none", "live", "resolved"},
                answered : BOOLEAN]
TicketRow   == [inc : Incidents \cup {Nothing}, status : {"none", "open", "closed"}]

\* A message is here from the moment it is queued, which is when the look-ups find
\* it; when it reaches the phone is left to Delivery.  Whoever quotes a message of
\* which provider_msg_id is not recorded quotes nothing: no row is found by it.
Message == [type : {"reason_prompt", "eta_request", "escalation"},
            inc : Incidents, tkt : Tickets \cup {Nothing}]

\* What a question is about, and what a reply did: set_reason of an incident,
\* set_eta of a ticket, or the timers of one of them brought forward.
Target == [kind : {"none", "reason", "eta"}, id : Nat]
NoTarget == [kind |-> "none", id |-> Nothing]

Acks == {"none", "reason", "eta", "passed", "nothing_pending", "unparsed",
         "already_answered", "already_running"}

\* quotes: the message replied to.  loom: the one the text names (named), or
\* the card.  passed: what it did was to hand over.  settled and upto remember
\* the moment of the delivery, for the properties: the incidents that were
\* answered or over, and how many messages there were.
RequestState ==
  [pc : {"idle", "name", "refuse", "handover", "eta", "find", "reason", "say"},
   from : Sender, quotes : Nat, loom : Nat, named : BOOLEAN, text : Text,
   found : Target, did : Target, passed : BOOLEAN, ack : Acks,
   settled : SUBSET Incidents, upto : Nat]

Idle ==
  [pc |-> "idle", from |-> CHOOSE s \in Sender : TRUE, quotes |-> Nothing,
   loom |-> NoLoom, named |-> FALSE, text |-> [numbers |-> << >>, word |-> "none"],
   found |-> NoTarget, did |-> NoTarget, passed |-> FALSE, ack |-> "none",
   settled |-> {}, upto |-> 0]

-----------------------------------------------------------------------------
(* Reading a text: prompts.py. *)

Length(text) == Len(text.numbers) + IF text.word = "none" THEN 0 ELSE 1

\* split_asset: a number that something follows is a loom, whether or not there
\* is such a loom.
NamesLoom(text) == text.numbers # << >> /\ Length(text) > 1
split_asset(text) ==
  IF NamesLoom(text) THEN [text EXCEPT !.numbers = Tail(@)] ELSE text

is_pass(text) == text.numbers = << >> /\ text.word = "pass"

\* parse: a first number is an option or nothing; or the label of one.
parse(text) ==
  IF text.numbers # << >>
    THEN IF Head(text.numbers) \in DOMAIN Options THEN Options[Head(text.numbers)] ELSE NoCode
  ELSE IF text.word = "label" THEN Options[1] ELSE NoCode

\* parse_eta: a number alone.  Zero is an hour.
parse_eta(text) ==
  IF Length(text) # 1 \/ text.numbers = << >> \/ Head(text.numbers) > ETA_MAX_HOURS THEN NoHours
  ELSE IF Head(text.numbers) = 0 THEN 1 ELSE Head(text.numbers)

-----------------------------------------------------------------------------
(* Queries. *)

Live(i) == inc[i].status = "live"

\* Mutant of Unanswered: an answered incident takes another answer.
UnansweredIfLive(i) == Live(i)

\* _incident_open_no_reason
Unanswered(i) == Live(i) /\ ~inc[i].answered

OpenTickets(i) == {t \in Tickets : tkt[t].inc = i /\ tkt[t].status = "open"}

\* _answer_target, and the test of each row in _last_question_to: a question is
\* answered for good when it is about a reason, and open while its ticket is
\* when it is about an estimate.
AnswerTarget(m) ==
  IF m.type = "eta_request" /\ tkt[m.tkt].status = "open" THEN [kind |-> "eta", id |-> m.tkt]
  ELSE IF m.type = "reason_prompt" /\ Unanswered(m.inc) THEN [kind |-> "reason", id |-> m.inc]
  ELSE NoTarget

Newest(S) == CHOOSE m \in S : \A k \in S : k <= m

Sent(s, types) == {m \in DOMAIN chat[s] : chat[s][m].type \in types}

\* Mutant of Recent: the limit counts messages of every type.
RecentOfAll(s, types) == {m \in Sent(s, types) : Len(chat[s]) - m < Window}

\* ... AND payload LIKE ... ORDER BY id DESC LIMIT: queued messages too, sent or not.
Recent(s, types) ==
  {m \in Sent(s, types) : Cardinality({k \in Sent(s, types) : k > m}) < Window}

\* _last_question_to: the newest question that is still open.
LastQuestionTo(s) ==
  LET open == {m \in Recent(s, {"reason_prompt", "eta_request"}) :
                 AnswerTarget(chat[s][m]) # NoTarget}
  IN  IF open = {} THEN NoTarget ELSE AnswerTarget(chat[s][Newest(open)])

\* Mutant of FindIncident: without a loom the newest incident of any will do.
FindIncidentAnyLoom(s, quoted, loom) ==
  LET live == {i \in Incidents : Live(i) /\ loom \in {inc[i].loom, NoLoom}}
  IN  IF live # {} /\ Unanswered(Newest(live)) THEN Newest(live) ELSE Nothing

\* _find_incident: by the message quoted; else by the loom; else the newest
\* prompt sent to this person that is still unanswered.
FindIncident(s, quoted, loom) ==
  LET live == {i \in Incidents : Live(i) /\ inc[i].loom = loom}
      open == {m \in Recent(s, {"reason_prompt"}) : Unanswered(chat[s][m].inc)}
  IN  IF quoted # Nothing /\ Unanswered(chat[s][quoted].inc) THEN chat[s][quoted].inc
      ELSE IF live # {} /\ Unanswered(Newest(live)) THEN Newest(live)
      ELSE IF open # {} THEN chat[s][Newest(open)].inc
      ELSE Nothing

-----------------------------------------------------------------------------
(* The fault lifecycle, as far as a reply can tell. *)

\* open_incident: at most one live incident a loom (OpsCore!OneLiveIncident).
Stops(i, loom) ==
  /\ inc[i].status = "none" /\ \A j \in Incidents : j < i => inc[j].status # "none"
  /\ ~\E j \in Incidents : Live(j) /\ inc[j].loom = loom
  /\ inc' = [inc EXCEPT ![i] = [loom |-> loom, status |-> "live", answered |-> FALSE]]
  /\ UNCHANGED <<tkt, chat, req>>

\* commit_resolve: the ticket is closed.  Whether the stop is coded short is
\* left out: nothing here asks for the reasons of an incident that is over.
Resolves(i) ==
  /\ Live(i)
  /\ inc' = [inc EXCEPT ![i].status = "resolved"]
  /\ tkt' = [t \in Tickets |-> IF t \in OpenTickets(i)
                THEN [tkt[t] EXCEPT !.status = "closed"] ELSE tkt[t]]
  /\ UNCHANGED <<chat, req>>

\* set_reason: one transaction, which does not look whether the incident is
\* live or answered.
SetReason(i, code) ==
  /\ inc' = [inc EXCEPT ![i].answered = TRUE]
  /\ \/ /\ code \in Ticketable /\ OpenTickets(i) = {}
        /\ \E t \in Tickets :
             /\ tkt[t].status = "none" /\ \A u \in Tickets : u < t => tkt[u].status # "none"
             /\ tkt' = [tkt EXCEPT ![t] = [inc |-> i, status |-> "open"]]
     \/ (code \notin Ticketable \/ OpenTickets(i) # {}) /\ UNCHANGED tkt

\* The reason comes from elsewhere: classify_at_open, the panel.
CodedElsewhere(i, code) ==
  /\ Unanswered(i) /\ SetReason(i, code)
  /\ UNCHANGED <<chat, req>>

\* fire: a question, or a reminder of one (a reminder of none becomes the
\* question), while the loom stands and there is no answer.
Queue(s, m) ==
  /\ Cardinality(UNION {{x} \X DOMAIN chat[x] : x \in Sender}) < MaxMessages
  /\ chat' = [chat EXCEPT ![s] = Append(@, m)]
  /\ UNCHANGED <<inc, tkt, req>>

Asks(s, i) ==
  \/ /\ Unanswered(i)
     /\ Queue(s, [type |-> "reason_prompt", inc |-> i, tkt |-> Nothing])
  \/ \E t \in OpenTickets(i) :
       /\ Live(i)
       /\ Queue(s, [type |-> "eta_request", inc |-> i, tkt |-> t])

Reminds(s, i) ==
  \E x \in Sender : \E m \in Sent(x, {"reason_prompt", "eta_request"}) :
    /\ chat[x][m].inc = i /\ Live(i) /\ AnswerTarget(chat[x][m]) # NoTarget
    /\ Queue(s, [chat[x][m] EXCEPT !.type = "escalation"])

-----------------------------------------------------------------------------
(* The handler of one delivery: _handle. *)

\* The request goes on, and nothing else changes.
Goes(q, r) == req' = [req EXCEPT ![q] = r] /\ UNCHANGED <<inc, tkt, chat>>

\* Where a reply goes once its question is settled: a hand-over is recognised
\* before anything else, and what is no estimate may be a reason.
Verb(text, found) ==
  IF is_pass(text) THEN "handover"
  ELSE IF found.kind = "eta" /\ parse_eta(text) # NoHours THEN "eta"
  ELSE IF found.kind = "reason" THEN "reason"
  ELSE "find"

\* Mutant of Asked: what is quoted and takes no answer is as if nothing was.
AskedOrLast(s, quotes) ==
  IF quotes # Nothing /\ AnswerTarget(chat[s][quotes]) # NoTarget
    THEN AnswerTarget(chat[s][quotes]) ELSE LastQuestionTo(s)

\* The question quoted, if we know it, or else the last one that is open.
Asked(s, quotes) ==
  IF quotes # Nothing THEN AnswerTarget(chat[s][quotes]) ELSE LastQuestionTo(s)

\* A delivery is stored, its text taken apart, and its question looked up.  A
\* card of Google Chat may carry a loom, but one in the text goes before it.  A
\* known message that takes no answer ends it.
Receive(q, s, quotes, card, text) ==
  LET rest  == split_asset(text)
      found == Asked(s, quotes)
  IN  /\ req[q] = Idle
      /\ quotes # Nothing => s \in Phones
      /\ card # NoLoom => s \in Spaces
      /\ Goes(q, [Idle EXCEPT
           !.from = s, !.quotes = quotes, !.text = rest, !.found = found,
           !.named = NamesLoom(text),
           !.loom = IF NamesLoom(text) THEN Head(text.numbers) ELSE card,
           !.pc = IF quotes # Nothing /\ found = NoTarget THEN "refuse"
                  ELSE IF NamesLoom(text) THEN "name" ELSE Verb(rest, found),
           !.settled = {i \in Incidents : inc[i].status = "resolved" \/ inc[i].answered},
           !.upto = Len(chat[s])])

\* Mutant of ByName: nobody asks whether the loom had an incident.
ByNameBlindly(found, i) ==
  IF found # [kind |-> "reason", id |-> i] THEN [kind |-> "reason", id |-> i] ELSE found

ByName(found, i) ==
  IF i # Nothing /\ found # [kind |-> "reason", id |-> i] THEN [kind |-> "reason", id |-> i]
  ELSE found

\* "A loom named in the reply beats every inference".
Name(q) ==
  LET r == req[q]  found == ByName(r.found, FindIncident(r.from, Nothing, r.loom)) IN
  /\ r.pc = "name"
  /\ Goes(q, [r EXCEPT !.found = found, !.pc = Verb(r.text, found)])

\* Mutant of Refusal: the wrong words for each.
RefusalSwapped(m) ==
  IF inc[m.inc].status = "resolved" THEN "already_answered" ELSE "already_running"

Refusal(m) ==
  IF inc[m.inc].status = "resolved" THEN "already_running" ELSE "already_answered"

\* A known message that takes no answer: say why.
Refuse(q) ==
  LET r == req[q] IN
  /\ r.pc = "refuse"
  /\ Goes(q, [r EXCEPT !.pc = "say", !.ack = Refusal(chat[r.from][r.quotes])])

\* _handle_pass: of the question, or of the incident of the loom.
HandOver(q) ==
  LET r == req[q]
      i == IF r.found = NoTarget /\ r.loom # NoLoom
             THEN FindIncident(r.from, Nothing, r.loom) ELSE Nothing
      found == IF i # Nothing THEN [kind |-> "reason", id |-> i] ELSE r.found
  IN  /\ r.pc = "handover"
      /\ Goes(q, [r EXCEPT !.pc = "say", !.did = found, !.passed = found # NoTarget,
                   !.ack = IF found = NoTarget THEN "nothing_pending" ELSE "passed"])

\* set_eta, which looks again; a ticket that was closed meanwhile leaves the
\* number to whatever question is next.
Eta(q) ==
  LET r == req[q]  t == r.found.id IN
  /\ r.pc = "eta"
  /\ \/ /\ tkt[t].status = "open"
        /\ Goes(q, [r EXCEPT !.pc = "say", !.did = r.found, !.ack = "eta"])
     \/ tkt[t].status = "closed" /\ Goes(q, [r EXCEPT !.pc = "find"])

Find(q) ==
  LET r == req[q]
      i == FindIncident(r.from, r.quotes, r.loom)
  IN  /\ r.pc = "find"
      /\ Goes(q, [r EXCEPT !.pc = "reason",
                    !.found = IF i = Nothing THEN NoTarget ELSE [kind |-> "reason", id |-> i]])

\* A reason is written; a text that is no reason is complained about; a reason
\* for which nothing waits is passed over in silence, and so is an empty text.
Reason(q) ==
  LET r == req[q]  code == parse(r.text) IN
  /\ r.pc = "reason"
  /\ \/ /\ code # NoCode /\ r.found # NoTarget
        /\ SetReason(r.found.id, code)
        /\ req' = [req EXCEPT ![q].pc = "say", ![q].did = r.found, ![q].ack = "reason"]
        /\ UNCHANGED chat
     \/ /\ code = NoCode \/ r.found = NoTarget
        /\ Goes(q, [r EXCEPT !.pc = "say",
                      !.ack = IF code = NoCode /\ Length(r.text) > 0 THEN "unparsed" ELSE "none"])

\* _say, if there is something to say, and the request is over.
Say(q) == req[q].pc = "say" /\ Goes(q, Idle)

\* The handler raises, or the process dies: nobody goes on with this delivery.
Fails(q) == req[q].pc \notin {"idle", "say"} /\ Goes(q, Idle)

-----------------------------------------------------------------------------
Init ==
  /\ inc = [i \in Incidents |-> [loom |-> NoLoom, status |-> "none", answered |-> FALSE]]
  /\ tkt = [t \in Tickets |-> [inc |-> Nothing, status |-> "none"]]
  /\ chat = [s \in Sender |-> << >>]
  /\ req = [q \in Request |-> Idle]

Lifecycle ==
  \/ \E i \in Incidents :
       \/ \E loom \in Looms : Stops(i, loom)
       \/ \E code \in Codes : CodedElsewhere(i, code)
       \/ Resolves(i)
       \/ \E s \in Sender : Asks(s, i) \/ Reminds(s, i)

Arrives(q) ==
  \E s \in Sender, card \in Cards \cup {NoLoom}, text \in Texts :
    \E quotes \in {Nothing} \cup DOMAIN chat[s] : Receive(q, s, quotes, card, text)

Handle(q) ==
  Name(q) \/ Refuse(q) \/ HandOver(q) \/ Eta(q) \/ Find(q) \/ Reason(q) \/ Say(q)

Next == Lifecycle \/ \E q \in Request : Arrives(q) \/ Handle(q) \/ Fails(q)

Spec == Init /\ [][Next]_vars

-----------------------------------------------------------------------------
(* Properties. *)

\* Tables and handlers hold what they may hold; in particular what a handler has
\* found, and what it did, is a row that exists.
TypeOK ==
  /\ inc \in [Incidents -> IncidentRow]
  /\ tkt \in [Tickets -> TicketRow]
  /\ chat \in [Sender -> Seq(Message)]
  /\ req \in [Request -> RequestState]
  /\ \A q \in Request : \A target \in {req[q].found, req[q].did} :
       /\ target.kind = "none" => target.id = Nothing
       /\ target.kind = "reason" => target.id \in Incidents /\ inc[target.id].status # "none"
       /\ target.kind = "eta" => target.id \in Tickets /\ tkt[target.id].status # "none"

Did(q) == req[q].did # NoTarget
Quoted(q) == chat[req[q].from][req[q].quotes]
Subject(m) == IF m.type = "eta_request" THEN [kind |-> "eta", id |-> m.tkt]
              ELSE [kind |-> "reason", id |-> m.inc]

\* A reply that quotes a message we know, and names no loom, does what the
\* message asks or nothing; only what was written under the request for an
\* estimate may still be a reason, if it is no estimate or its ticket is closed.
QuoteDecides ==
  \A q \in Request : Did(q) /\ req[q].quotes # Nothing /\ ~req[q].named =>
    \/ Quoted(q).type # "escalation" /\ req[q].did = Subject(Quoted(q))
    \/ /\ Quoted(q).type = "eta_request" /\ req[q].did.kind = "reason"
       /\ parse_eta(req[q].text) = NoHours \/ tkt[Quoted(q).tkt].status = "closed"

\* Unless it names a loom, a reply only changes what its sender was asked about,
\* however many people were asked and whoever answers first.
OnlyTheAsked ==
  \A q \in Request : Did(q) /\ req[q].loom = NoLoom =>
    \E m \in Sent(req[q].from, {"reason_prompt", "eta_request"}) :
      Subject(chat[req[q].from][m]) = req[q].did

\* "Only the first answer counts": a reply that arrives once an incident is
\* answered or over gives it no other reason, whatever it quotes or names.
FirstAnswerStands ==
  \A q \in Request : req[q].did.kind = "reason" => req[q].did.id \notin req[q].settled

\* Nothing that can be read is lost: when the handler of an answer is over and
\* has done nothing, no question about a reason that had been put to its sender when it
\* arrived is open, but for those beyond the limit of the look-up and for a reply
\* that quotes what takes no answer.
AnswerIsHeard ==
  \A q \in Request :
    LET r == req[q] IN
    r.pc = "say" /\ ~Did(q) /\ r.quotes = Nothing /\ parse(r.text) # NoCode =>
      \A m \in Sent(r.from, {"reason_prompt"}) :
        /\ m <= r.upto
        /\ Cardinality({k \in Sent(r.from, {"reason_prompt"}) : k > m}) < Window
        => ~Unanswered(chat[r.from][m].inc)

\* Why a reply is refused is true, although others answer and looms resume between the
\* look-up and the words: who is told "no answer needed" quoted an incident that is over;
\* who is told "already recorded", under a question and not under a reminder, quoted one
\* that is answered.  Nobody's answer is refused that was still awaited when it arrived,
\* and no estimate while its ticket is open.
RefusalIsTrue ==
  \A q \in Request : LET r == req[q]  m == Quoted(q) IN
    r.ack \in {"already_answered", "already_running"} =>
      /\ r.ack = "already_running" => inc[m.inc].status = "resolved"
      /\ m.type # "escalation" =>
           /\ m.inc \in r.settled
           /\ r.ack = "already_answered" => inc[m.inc].answered
           /\ m.type = "eta_request" => tkt[m.tkt].status = "closed"
=============================================================================
