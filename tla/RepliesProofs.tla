---------------------------- MODULE RepliesProofs ----------------------------
(***************************************************************************)
(* Theorems about Replies, for any people, looms, menu, texts and window   *)
(* of the look-ups, any number of incidents, tickets and messages, and any *)
(* number of requests that are handled at the same time.  They rest on     *)
(* RepliesAssumption only.                                                 *)
(***************************************************************************)
EXTENDS Replies, FiniteSetTheorems, WellFoundedInduction, TLAPS

Questions == {"reason_prompt", "eta_request"}

-----------------------------------------------------------------------------
(* The inductive invariant. *)

\* A message is about an incident that happened; an estimate is asked for a
\* ticket of it.
MessageOK(m) ==
  /\ inc[m.inc].status # "none"
  /\ m.type = "eta_request" =>
       m.tkt \in Tickets /\ tkt[m.tkt].status # "none" /\ tkt[m.tkt].inc = m.inc

\* What the tables have to do with each other: a ticket is opened by an answer.
Tables ==
  /\ inc \in [Incidents -> IncidentRow]
  /\ tkt \in [Tickets -> TicketRow]
  /\ chat \in [Sender -> Seq(Message)]
  /\ \A i \in Incidents : inc[i].answered => inc[i].status # "none"
  /\ \A i \in Incidents : inc[i].status # "none" => inc[i].loom \in Looms
  /\ \A t \in Tickets : tkt[t].status # "none" =>
       tkt[t].inc \in Incidents /\ inc[tkt[t].inc].answered
  /\ \A s \in Sender : \A m \in DOMAIN chat[s] : MessageOK(chat[s][m])

TargetOK(target) ==
  /\ target.kind = "none" => target.id = Nothing
  /\ target.kind = "reason" => target.id \in Incidents /\ inc[target.id].status # "none"
  /\ target.kind = "eta" => target.id \in Tickets /\ tkt[target.id].status # "none"

\* The sender was asked about the target.
AskedAbout(s, target) == \E m \in Sent(s, Questions) : Subject(chat[s][m]) = target

QuotedBy(r) == chat[r.from][r.quotes]

EtaOver(r) == parse_eta(r.text) = NoHours \/ tkt[QuotedBy(r).tkt].status = "closed"

\* The target is what the quoted message asks about, or else what a text
\* that is no estimate, or comes too late for one, may be about.
AsksFor(r, target) == QuotedBy(r).type # "escalation" /\ target = Subject(QuotedBy(r))
Obeys(r, target) ==
  \/ AsksFor(r, target)
  \/ QuotedBy(r).type = "eta_request" /\ target.kind = "reason" /\ EtaOver(r)

\* Targets exist, were not settled when the reply arrived and, unless a loom is
\* known, were put to the sender.
FoundOK(r, target) ==
  /\ TargetOK(target)
  /\ target.kind = "reason" => target.id \notin r.settled
  /\ r.loom = NoLoom /\ target # NoTarget => AskedAbout(r.from, target)

\* Where a handler that was given a quote stands.
QuoteOK(r) ==
  r.quotes # Nothing =>
    /\ r.quotes \in DOMAIN chat[r.from]
    /\ r.pc \notin {"idle", "refuse", "say"} => QuotedBy(r).type # "escalation"
    /\ ~r.named =>
         /\ r.did # NoTarget => Obeys(r, r.did)
         /\ r.pc \in {"handover", "eta"} => AsksFor(r, r.found)
         /\ r.pc = "find" => QuotedBy(r).type = "eta_request" /\ EtaOver(r)
         /\ r.pc = "reason" => r.found = NoTarget \/ Obeys(r, r.found)

\* What a message is about is answered or over, and so is the ticket it is about.
Settled(m) ==
  /\ inc[m.inc].status = "resolved" \/ inc[m.inc].answered
  /\ m.type = "eta_request" => tkt[m.tkt].status = "closed"

\* The words of a refusal: over, or answered.
Meant(ack, m) ==
  /\ ack = "already_running" => inc[m.inc].status = "resolved"
  /\ ack = "already_answered" /\ m.type # "escalation" => inc[m.inc].answered

\* Whoever is refused quoted something that was settled when the reply arrived.
RefusalOK(r) ==
  r.pc = "refuse" \/ r.ack \in {"already_answered", "already_running"} =>
    /\ r.quotes # Nothing
    /\ QuotedBy(r).type # "escalation" =>
         QuotedBy(r).inc \in r.settled /\ Settled(QuotedBy(r))
    /\ Meant(r.ack, QuotedBy(r))

RequestOK(r) ==
  /\ FoundOK(r, r.found) /\ FoundOK(r, r.did)
  /\ \A i \in r.settled : inc[i].status = "resolved" \/ inc[i].answered
  /\ r.pc = "name" => r.named
  /\ r.pc = "eta" => r.found.kind = "eta"
  /\ r.pc = "reason" => r.found = NoTarget \/ r.found.kind = "reason"
  /\ QuoteOK(r)
  /\ RefusalOK(r)

IInv ==
  /\ Tables
  /\ req \in [Request -> RequestState]
  /\ \A q \in Request : RequestOK(req[q])

-----------------------------------------------------------------------------
(* Facts about the operators. *)

LEMMA NatOrder == IsWellFoundedOn({p \in Nat \X Nat : p[1] < p[2]}, Nat)
  BY NatLessThanWellFounded DEF OpToRel

\* Some message of a set of messages is the newest one.
LEMMA NewestIn ==
  ASSUME NEW n \in Nat, NEW S \in SUBSET (1 .. n), S # {}
  PROVE  Newest(S) \in S
<1> DEFINE T == {n - k : k \in S}
           R == {p \in Nat \X Nat : p[1] < p[2]}
<1>1. \A k \in S : k \in Int /\ 1 <= k /\ k <= n
  OBVIOUS
<1>2. T \subseteq Nat /\ T # {}
  <2>1. \A k \in S : n - k \in Nat
    BY <1>1
  <2>2. PICK k \in S : TRUE
    OBVIOUS
  <2>3. n - k \in T
    OBVIOUS
  <2> QED BY <2>1, <2>3
<1>3. PICK x \in T : \A y \in T : <<y, x>> \notin R
  <2> HIDE DEF R, T
  <2>1. IsWellFoundedOn(R, Nat)
    BY NatOrder DEF R
  <2> QED BY <2>1, <1>2, WFMin
<1>4. \A y \in T : x <= y
  <2>1. ASSUME NEW y \in T, y < x PROVE FALSE
    <3>1. <<y, x>> \in R
      BY <2>1, <1>2
    <3> QED BY <3>1, <1>3
  <2> QED BY <2>1, <1>2
<1>5. \E m \in S : \A k \in S : k <= m
  <2>1. PICK m \in S : x = n - m
    OBVIOUS
  <2>2. ASSUME NEW k \in S PROVE k <= m
    <3>1. n - k \in T
      OBVIOUS
    <3>2. n - m <= n - k
      BY <3>1, <1>4, <2>1
    <3> HIDE DEF T, R
    <3> QED BY <3>2, <1>1
  <2> QED BY <2>2
<1> QED BY <1>5 DEF Newest

\* What a message may still change is what it asks about.
LEMMA AnswerTargetOK ==
  ASSUME Tables, NEW m \in Message, MessageOK(m), AnswerTarget(m) # NoTarget
  PROVE  /\ AnswerTarget(m) \in Target
         /\ AnswerTarget(m) = Subject(m)
         /\ m.type \in Questions
         /\ TargetOK(AnswerTarget(m))
         /\ AnswerTarget(m).kind \in {"reason", "eta"}
         /\ AnswerTarget(m).kind = "reason" => Unanswered(AnswerTarget(m).id)
  BY DEF AnswerTarget, NoTarget, Target, Subject, TargetOK, Tables, MessageOK, Message,
         Questions, Unanswered, Incidents, Tickets

\* What takes no answer is settled.
LEMMA NoTargetSettled ==
  ASSUME Tables, NEW m \in Message, MessageOK(m), AnswerTarget(m) = NoTarget,
         m.type # "escalation"
  PROVE  Settled(m)
<1>1. CASE m.type = "eta_request"
  <2>1. /\ m.inc \in Incidents /\ m.tkt \in Tickets
        /\ tkt[m.tkt].status # "none" /\ tkt[m.tkt].inc = m.inc
    BY <1>1 DEF MessageOK, Message
  <2>2. tkt[m.tkt].status \in {"none", "open", "closed"} /\ inc[m.inc].answered
    BY <2>1 DEF Tables, TicketRow
  <2>3. tkt[m.tkt].status # "open"
    BY <1>1 DEF AnswerTarget, NoTarget
  <2> QED BY <1>1, <2>1, <2>2, <2>3 DEF Settled
<1>2. CASE m.type = "reason_prompt"
  <2>1. m.inc \in Incidents /\ inc[m.inc].status \in {"live", "resolved"}
    BY DEF MessageOK, Message, Tables, IncidentRow
  <2>2. ~Unanswered(m.inc)
    BY <1>2 DEF AnswerTarget, NoTarget
  <2> QED BY <1>2, <2>1, <2>2 DEF Settled, Unanswered, Live
<1> QED BY <1>1, <1>2 DEF Message

LEMMA SubjectIsTarget ==
  ASSUME NEW m
  PROVE  Subject(m) # NoTarget /\ Subject(m).kind \in {"reason", "eta"}
  BY DEF Subject, NoTarget

LEMMA LastQuestionOK ==
  ASSUME Tables, NEW s \in Sender, LastQuestionTo(s) # NoTarget
  PROVE  \E m \in Sent(s, Questions) :
           /\ LastQuestionTo(s) = AnswerTarget(chat[s][m])
           /\ chat[s][m] \in Message /\ MessageOK(chat[s][m])
<1> DEFINE open == {m \in Recent(s, Questions) : AnswerTarget(chat[s][m]) # NoTarget}
<1>1. open # {} /\ LastQuestionTo(s) = AnswerTarget(chat[s][Newest(open)])
  BY DEF LastQuestionTo, Questions
<1>2. open \subseteq Sent(s, Questions)
  BY DEF Recent
<1>3. Sent(s, Questions) \subseteq 1 .. Len(chat[s]) /\ Len(chat[s]) \in Nat
  BY DEF Sent, Tables
<1>4. Newest(open) \in open
  <2> HIDE DEF open
  <2> QED BY <1>1, <1>2, <1>3, NewestIn
<1>5. Newest(open) \in Sent(s, Questions)
  BY <1>4, <1>2
<1>6. Newest(open) \in DOMAIN chat[s]
  BY <1>5 DEF Sent
<1>7. chat[s][Newest(open)] \in Message /\ MessageOK(chat[s][Newest(open)])
  BY <1>6 DEF Tables
<1> QED BY <1>1, <1>5, <1>7

\* The incident that is found takes an answer, and unless a loom is known its
\* question had been put to the sender.
LEMMA FindIncidentOK ==
  ASSUME Tables, NEW s \in Sender, NEW quoted \in Nat, NEW loom \in Nat,
         quoted # Nothing => quoted \in DOMAIN chat[s] /\ chat[s][quoted].type # "escalation",
         FindIncident(s, quoted, loom) # Nothing
  PROVE  /\ FindIncident(s, quoted, loom) \in Incidents
         /\ Unanswered(FindIncident(s, quoted, loom))
         /\ loom = NoLoom =>
              AskedAbout(s, [kind |-> "reason", id |-> FindIncident(s, quoted, loom)])
<1> DEFINE live == {i \in Incidents : Live(i) /\ inc[i].loom = loom}
           open == {m \in Recent(s, {"reason_prompt"}) : Unanswered(chat[s][m].inc)}
           found == FindIncident(s, quoted, loom)
<1>1. \/ /\ quoted # Nothing /\ Unanswered(chat[s][quoted].inc)
         /\ found = chat[s][quoted].inc
      \/ live # {} /\ Unanswered(Newest(live)) /\ found = Newest(live)
      \/ open # {} /\ found = chat[s][Newest(open)].inc
  BY DEF FindIncident
<1>2. CASE quoted # Nothing /\ Unanswered(chat[s][quoted].inc) /\ found = chat[s][quoted].inc
  <2>1. chat[s][quoted] \in Message /\ MessageOK(chat[s][quoted])
    BY <1>2 DEF Tables
  <2>2. chat[s][quoted].type = "reason_prompt"
    BY <1>2, <2>1 DEF Tables, Message, MessageOK, Unanswered
  <2>3. AskedAbout(s, [kind |-> "reason", id |-> chat[s][quoted].inc])
    BY <1>2, <2>2 DEF AskedAbout, Sent, Questions, Subject
  <2> QED BY <1>2, <2>1, <2>3 DEF Message
<1>3. CASE live # {} /\ Unanswered(Newest(live)) /\ found = Newest(live)
  <2>1. Newest(live) \in live
    <3>1. live \in SUBSET (1 .. MaxIncidents) /\ MaxIncidents \in Nat
      BY RepliesAssumption DEF Incidents
    <3> HIDE DEF live
    <3> QED BY <1>3, <3>1, NewestIn
  <2>2. loom # NoLoom
    BY <2>1, RepliesAssumption DEF Tables, Live
  <2> QED BY <1>3, <2>1, <2>2
<1>4. CASE open # {} /\ found = chat[s][Newest(open)].inc
  <2>1. open \subseteq Sent(s, {"reason_prompt"})
    BY DEF Recent
  <2>2. Sent(s, {"reason_prompt"}) \subseteq 1 .. Len(chat[s]) /\ Len(chat[s]) \in Nat
    BY DEF Sent, Tables
  <2>3. Newest(open) \in open
    <3> HIDE DEF open
    <3> QED BY <1>4, <2>1, <2>2, NewestIn
  <2>4. /\ Newest(open) \in DOMAIN chat[s] /\ chat[s][Newest(open)].type = "reason_prompt"
        /\ Unanswered(chat[s][Newest(open)].inc)
    BY <2>3, <2>1 DEF Sent
  <2>5. chat[s][Newest(open)] \in Message
    BY <2>4 DEF Tables
  <2>6. AskedAbout(s, [kind |-> "reason", id |-> chat[s][Newest(open)].inc])
    BY <2>4 DEF AskedAbout, Sent, Questions, Subject
  <2> QED BY <1>4, <2>4, <2>5, <2>6 DEF Message
<1> QED BY <1>1, <1>2, <1>3, <1>4
-----------------------------------------------------------------------------
(* What other steps leave a request with. *)

\* Rows are never taken back: what happened stays so.
Later ==
  /\ \A i \in Incidents :
       /\ inc[i].status # "none" => inc'[i].status # "none"
       /\ inc[i].status = "resolved" => inc'[i].status = "resolved"
       /\ inc[i].answered => inc'[i].answered
  /\ \A t \in Tickets :
       /\ tkt[t].status # "none" => tkt'[t].status # "none"
       /\ tkt[t].status = "closed" => tkt'[t].status = "closed"
  /\ \A s \in Sender : \A m \in DOMAIN chat[s] :
       m \in DOMAIN chat'[s] /\ chat'[s][m] = chat[s][m]

LEMMA TargetStays ==
  ASSUME NEW r \in RequestState, NEW target \in Target, Later, FoundOK(r, target)
  PROVE  FoundOK(r, target)'
<1>1. TargetOK(target)'
  BY DEF FoundOK, TargetOK, Later
<1>2. r.from \in Sender
  BY DEF RequestState
<1>3. AskedAbout(r.from, target) => AskedAbout(r.from, target)'
  BY <1>2 DEF AskedAbout, Sent, Later, Subject
<1> QED BY <1>1, <1>3 DEF FoundOK

\* A quoted message stays what it was, and once settled it is settled for good.
LEMMA QuotedStays ==
  ASSUME Tables, NEW r \in RequestState, r.quotes \in DOMAIN chat[r.from], Later
  PROVE  /\ (r.quotes \in DOMAIN chat[r.from])'
         /\ QuotedBy(r)' = QuotedBy(r)
         /\ EtaOver(r) /\ QuotedBy(r).type = "eta_request" => EtaOver(r)'
         /\ QuotedBy(r).type # "escalation" /\ Settled(QuotedBy(r)) => Settled(QuotedBy(r))'
         /\ \A ack : Meant(ack, QuotedBy(r)) => Meant(ack, QuotedBy(r))'
<1>1. r.from \in Sender
  BY DEF RequestState
<1>2. QuotedBy(r) \in Message /\ MessageOK(QuotedBy(r))
  BY <1>1 DEF Tables, QuotedBy
<1>3. (r.quotes \in DOMAIN chat[r.from])' /\ QuotedBy(r)' = QuotedBy(r)
  BY <1>1 DEF Later, QuotedBy
<1>4. EtaOver(r) /\ QuotedBy(r).type = "eta_request" => EtaOver(r)'
  BY <1>2, <1>3 DEF EtaOver, MessageOK, Later
<1>5. ASSUME NEW m \in Message, MessageOK(m)
      PROVE  /\ m.type # "escalation" /\ Settled(m) => Settled(m)'
             /\ \A ack : Meant(ack, m) => Meant(ack, m)'
  <2>1. m.inc \in Incidents /\ (m.type = "eta_request" => m.tkt \in Tickets)
    BY <1>5 DEF MessageOK, Message
  <2>2. /\ inc[m.inc].status = "resolved" => inc'[m.inc].status = "resolved"
        /\ inc[m.inc].answered => inc'[m.inc].answered
        /\ m.type = "eta_request" /\ tkt[m.tkt].status = "closed" => tkt'[m.tkt].status = "closed"
    BY <2>1 DEF Later
  <2> QED BY <2>2 DEF Settled, Meant
<1>6. /\ QuotedBy(r).type # "escalation" /\ Settled(QuotedBy(r)) => Settled(QuotedBy(r))'
      /\ \A ack : Meant(ack, QuotedBy(r)) => Meant(ack, QuotedBy(r))'
  <2>1. PICK m \in Message : m = QuotedBy(r)
    BY <1>2
  <2>2. QuotedBy(r)' = m
    BY <1>3, <2>1
  <2>3. /\ m.type # "escalation" /\ Settled(m) => Settled(m)'
        /\ \A ack : Meant(ack, m) => Meant(ack, m)'
    BY <1>2, <1>5, <2>1
  <2> QED BY <2>1, <2>2, <2>3 DEF Settled, Meant
<1> QED BY <1>3, <1>4, <1>6

LEMMA RequestStays ==
  ASSUME Tables, NEW r \in RequestState, RequestOK(r), Later
  PROVE  RequestOK(r)'
<1>1. r.found \in Target /\ r.did \in Target /\ r.settled \subseteq Incidents
  BY DEF RequestState
<1>2. FoundOK(r, r.found)' /\ FoundOK(r, r.did)'
  BY <1>1, TargetStays DEF RequestOK
<1>3. \A i \in r.settled : inc'[i].status = "resolved" \/ inc'[i].answered
  BY <1>1 DEF RequestOK, Later
<1>4. QuoteOK(r)'
  <2>1. CASE r.quotes = Nothing
    BY <2>1 DEF QuoteOK
  <2>2. CASE r.quotes # Nothing
    <3>1. r.quotes \in DOMAIN chat[r.from]
      BY <2>2 DEF RequestOK, QuoteOK
    <3>2. /\ (r.quotes \in DOMAIN chat[r.from])'
          /\ QuotedBy(r)' = QuotedBy(r)
          /\ EtaOver(r) /\ QuotedBy(r).type = "eta_request" => EtaOver(r)'
      BY <3>1, QuotedStays
    <3> QED BY <3>2, <2>2 DEF RequestOK, QuoteOK, Obeys, AsksFor, Subject
  <2> QED BY <2>1, <2>2
<1>5. RefusalOK(r)'
  <2>1. CASE r.pc = "refuse" \/ r.ack \in {"already_answered", "already_running"}
    <3>1. r.quotes # Nothing /\ r.quotes \in DOMAIN chat[r.from]
      BY <2>1 DEF RequestOK, QuoteOK, RefusalOK
    <3>2. /\ QuotedBy(r)' = QuotedBy(r)
          /\ QuotedBy(r).type # "escalation" /\ Settled(QuotedBy(r)) => Settled(QuotedBy(r))'
          /\ Meant(r.ack, QuotedBy(r)) => Meant(r.ack, QuotedBy(r))'
      BY <3>1, QuotedStays
    <3> QED BY <3>1, <3>2, <2>1 DEF RequestOK, RefusalOK
  <2>2. CASE ~(r.pc = "refuse" \/ r.ack \in {"already_answered", "already_running"})
    BY <2>2 DEF RefusalOK
  <2> QED BY <2>1, <2>2
<1> QED BY <1>2, <1>3, <1>4, <1>5 DEF RequestOK

\* The tables move on and no request does.
LEMMA OthersMove ==
  ASSUME IInv, Tables', Later, UNCHANGED req
  PROVE  IInv'
<1>1. ASSUME NEW q \in Request PROVE RequestOK(req[q])'
  <2>1. req[q] \in RequestState /\ RequestOK(req[q])
    BY DEF IInv
  <2>2. req'[q] = req[q]
    OBVIOUS
  <2> QED BY <2>1, <2>2, RequestStays DEF IInv
<1> QED BY <1>1 DEF IInv

\* One request moves on, and perhaps the tables.
LEMMA RequestMoves ==
  ASSUME IInv, Tables', Later, NEW q \in Request, NEW r \in RequestState,
         RequestOK(r)', req' = [req EXCEPT ![q] = r]
  PROVE  IInv'
<1>1. ASSUME NEW k \in Request PROVE RequestOK(req[k])'
  <2>1. req[k] \in RequestState /\ RequestOK(req[k])
    BY DEF IInv
  <2>2. CASE k = q
    <3>1. req'[k] = r
      BY <2>2 DEF IInv
    <3> QED BY <3>1
  <2>3. CASE k # q
    <3>1. req'[k] = req[k]
      BY <2>3 DEF IInv
    <3> QED BY <3>1, <2>1, RequestStays DEF IInv
  <2> QED BY <2>2, <2>3
<1> QED BY <1>1 DEF IInv

\* One request goes on and nothing else changes.
LEMMA RequestGoes ==
  ASSUME IInv, NEW q \in Request, NEW r \in RequestState, RequestOK(r), Goes(q, r)
  PROVE  Later /\ IInv'
<1>1. Later
  BY DEF Goes, Later
<1>2. Tables'
  BY DEF Goes, IInv, Tables, MessageOK
<1>3. RequestOK(r)'
  BY <1>1, RequestStays DEF IInv
<1> QED BY <1>1, <1>2, <1>3, RequestMoves DEF Goes

-----------------------------------------------------------------------------
(* The steps of others. *)

LEMMA StopsOK ==
  ASSUME IInv, NEW i \in Incidents, NEW loom \in Looms, Stops(i, loom)
  PROVE  Later /\ IInv'
<1>1. loom \in Looms \cup {NoLoom} /\ inc[i].status = "none"
  BY DEF Stops
<1>2. /\ inc' = [inc EXCEPT ![i] = [loom |-> loom, status |-> "live", answered |-> FALSE]]
      /\ UNCHANGED <<tkt, chat, req>>
  BY DEF Stops
<1>3. inc' \in [Incidents -> IncidentRow]
  BY <1>1, <1>2 DEF IInv, Tables, IncidentRow
<1>4. \A j \in Incidents :
        inc'[j] = IF j = i THEN [loom |-> loom, status |-> "live", answered |-> FALSE] ELSE inc[j]
  BY <1>2 DEF IInv, Tables
<1>5. ~inc[i].answered
  BY <1>1 DEF IInv, Tables
<1>6. \A t \in Tickets : tkt[t].status # "none" => tkt[t].inc # i
  BY <1>5 DEF IInv, Tables
<1>7. Later
  BY <1>1, <1>2, <1>4, <1>5 DEF Later
<1>8. Tables'
  <2>1. \A s \in Sender : \A m \in DOMAIN chat[s] : MessageOK(chat[s][m])'
    <3>1. ASSUME NEW s \in Sender, NEW m \in DOMAIN chat[s] PROVE MessageOK(chat[s][m])'
      <4>1. chat[s][m] \in Message /\ MessageOK(chat[s][m])
        BY DEF IInv, Tables
      <4> QED BY <4>1, <1>2, <1>4 DEF MessageOK, Message
    <3> QED BY <3>1
  <2> QED BY <2>1, <1>2, <1>3, <1>4, <1>6 DEF IInv, Tables
<1> QED BY <1>2, <1>7, <1>8, OthersMove

LEMMA ResolvesOK ==
  ASSUME IInv, NEW i \in Incidents, Resolves(i)
  PROVE  Later /\ IInv'
<1>1. /\ inc[i].status = "live"
      /\ inc' = [inc EXCEPT ![i].status = "resolved"]
      /\ tkt' = [t \in Tickets |-> IF t \in OpenTickets(i)
                    THEN [tkt[t] EXCEPT !.status = "closed"] ELSE tkt[t]]
      /\ UNCHANGED <<chat, req>>
  BY DEF Resolves, Live
<1>2. inc' \in [Incidents -> IncidentRow] /\ tkt' \in [Tickets -> TicketRow]
  BY <1>1 DEF IInv, Tables, IncidentRow, TicketRow
<1>3. \A j \in Incidents :
        /\ inc'[j].loom = inc[j].loom /\ inc'[j].answered = inc[j].answered
        /\ inc'[j].status = IF j = i THEN "resolved" ELSE inc[j].status
  BY <1>1 DEF IInv, Tables, IncidentRow
<1>4. \A t \in Tickets :
        /\ tkt'[t].inc = tkt[t].inc
        /\ \/ tkt'[t].status = tkt[t].status
           \/ tkt[t].status = "open" /\ tkt'[t].status = "closed"
  BY <1>1 DEF IInv, Tables, TicketRow, OpenTickets
<1>5. Later
  BY <1>1, <1>3, <1>4 DEF Later
<1>6. Tables'
  <2>1. \A s \in Sender : \A m \in DOMAIN chat[s] : MessageOK(chat[s][m])'
    <3>1. ASSUME NEW s \in Sender, NEW m \in DOMAIN chat[s] PROVE MessageOK(chat[s][m])'
      <4>1. chat[s][m] \in Message /\ MessageOK(chat[s][m])
        BY DEF IInv, Tables
      <4> QED BY <4>1, <1>1, <1>3, <1>4 DEF MessageOK, Message
    <3> QED BY <3>1
  <2> QED BY <2>1, <1>1, <1>2, <1>3, <1>4 DEF IInv, Tables
<1> QED BY <1>1, <1>5, <1>6, OthersMove

LEMMA SetReasonOK ==
  ASSUME Tables, NEW i \in Incidents, NEW code, inc[i].status # "none",
         SetReason(i, code), UNCHANGED chat
  PROVE  Tables' /\ Later
<1>1. inc' = [inc EXCEPT ![i].answered = TRUE]
  BY DEF SetReason
<1>2. \/ UNCHANGED tkt
      \/ \E t \in Tickets : /\ tkt[t].status = "none"
                            /\ tkt' = [tkt EXCEPT ![t] = [inc |-> i, status |-> "open"]]
  BY DEF SetReason
<1>3. inc' \in [Incidents -> IncidentRow]
  <2>1. inc[i] \in IncidentRow
    BY DEF Tables
  <2>2. [inc[i] EXCEPT !.answered = TRUE] \in IncidentRow
    BY <2>1 DEF IncidentRow
  <2> QED BY <1>1, <2>2 DEF Tables
<1>4. \A j \in Incidents :
        /\ inc'[j].loom = inc[j].loom /\ inc'[j].status = inc[j].status
        /\ inc'[j].answered = (j = i \/ inc[j].answered)
  <2>1. \A j \in Incidents : inc'[j] = IF j = i THEN [inc[i] EXCEPT !.answered = TRUE] ELSE inc[j]
    BY <1>1 DEF Tables
  <2>2. inc[i] \in IncidentRow
    BY DEF Tables
  <2>3. \A j \in Incidents : inc[j].answered \in BOOLEAN
    BY DEF Tables, IncidentRow
  <2>4. /\ [inc[i] EXCEPT !.answered = TRUE].loom = inc[i].loom
        /\ [inc[i] EXCEPT !.answered = TRUE].status = inc[i].status
        /\ [inc[i] EXCEPT !.answered = TRUE].answered = TRUE
    BY <2>2 DEF IncidentRow
  <2> QED BY <2>1, <2>3, <2>4
<1> DEFINE OneOpened ==
      /\ tkt' \in [Tickets -> TicketRow]
      /\ \A t \in Tickets :
           \/ tkt'[t] = tkt[t]
           \/ tkt[t].status = "none" /\ tkt'[t] = [inc |-> i, status |-> "open"]
<1>5. OneOpened
  <2>1. CASE UNCHANGED tkt
    BY <2>1 DEF Tables
  <2>2. ASSUME NEW t \in Tickets, tkt[t].status = "none",
               tkt' = [tkt EXCEPT ![t] = [inc |-> i, status |-> "open"]]
        PROVE  OneOpened
    <3>1. [inc |-> i, status |-> "open"] \in TicketRow
      BY DEF TicketRow
    <3> QED BY <2>2, <3>1 DEF Tables
  <2> QED BY <2>1, <2>2, <1>2
<1>6. Later
  BY <1>4, <1>5 DEF Later
<1>7. \A t \in Tickets : tkt'[t].status # "none" =>
        tkt'[t].inc \in Incidents /\ inc'[tkt'[t].inc].answered
  <2>1. ASSUME NEW t \in Tickets, tkt'[t].status # "none"
        PROVE  tkt'[t].inc \in Incidents /\ inc'[tkt'[t].inc].answered
    <3>1. CASE tkt'[t] = tkt[t]
      BY <3>1, <2>1, <1>4 DEF Tables
    <3>2. CASE tkt'[t] = [inc |-> i, status |-> "open"]
      <4>1. tkt'[t].inc = i
        BY <3>2
      <4>2. inc'[i].answered = TRUE
        BY <1>4
      <4> QED BY <4>1, <4>2
    <3> QED BY <3>1, <3>2, <1>5
  <2> QED BY <2>1
<1>8. \A s \in Sender : \A m \in DOMAIN chat[s] : MessageOK(chat[s][m])'
  <2>1. ASSUME NEW s \in Sender, NEW m \in DOMAIN chat[s] PROVE MessageOK(chat[s][m])'
    <3>1. chat[s][m] \in Message /\ MessageOK(chat[s][m])
      BY DEF Tables
    <3> QED BY <3>1, <1>4, <1>5 DEF MessageOK, Message
  <2> QED BY <2>1
<1>9. \A j \in Incidents : inc'[j].answered => inc'[j].status # "none"
  BY <1>4 DEF Tables
<1>10. Tables'
  BY <1>3, <1>4, <1>5, <1>7, <1>8, <1>9 DEF Tables
<1> QED BY <1>6, <1>10

LEMMA CodedElsewhereOK ==
  ASSUME IInv, NEW i \in Incidents, NEW code, CodedElsewhere(i, code)
  PROVE  Later /\ IInv'
<1>1. inc[i].status # "none"
  BY DEF CodedElsewhere, Unanswered, Live
<1>2. Tables' /\ Later
  BY <1>1, SetReasonOK DEF CodedElsewhere, IInv
<1> QED BY <1>2, OthersMove DEF CodedElsewhere

\* A message is queued.
LEMMA QueueOK ==
  ASSUME IInv, NEW s \in Sender, NEW m \in Message, MessageOK(m), Queue(s, m)
  PROVE  Later /\ IInv'
<1>1. chat' = [chat EXCEPT ![s] = Append(@, m)] /\ UNCHANGED <<inc, tkt, req>>
  BY DEF Queue
<1>2. chat[s] \in Seq(Message)
  BY DEF IInv, Tables
<1>3. chat' \in [Sender -> Seq(Message)]
  BY <1>1, <1>2 DEF IInv, Tables
<1>4. \A x \in Sender :
        /\ x # s => chat'[x] = chat[x]
        /\ x = s => chat'[x] = Append(chat[s], m)
  BY <1>1 DEF IInv, Tables
<1>5. ASSUME NEW x \in Sender, NEW k \in DOMAIN chat[x]
      PROVE  k \in DOMAIN chat'[x] /\ chat'[x][k] = chat[x][k]
  BY <1>2, <1>4, <1>5
<1>6. ASSUME NEW x \in Sender, NEW k \in DOMAIN chat'[x]
      PROVE  \/ chat'[x][k] = m
             \/ k \in DOMAIN chat[x] /\ chat'[x][k] = chat[x][k]
  BY <1>2, <1>4, <1>6
<1>7. Later
  BY <1>1, <1>5 DEF Later
<1>8. \A x \in Sender : \A k \in DOMAIN chat'[x] : MessageOK(chat'[x][k])
  BY <1>6 DEF IInv, Tables
<1>9. Tables'
  BY <1>1, <1>3, <1>8 DEF IInv, Tables, MessageOK
<1> QED BY <1>1, <1>7, <1>9, OthersMove

LEMMA AsksOK ==
  ASSUME IInv, NEW s \in Sender, NEW i \in Incidents, Asks(s, i)
  PROVE  Later /\ IInv'
<1>1. CASE /\ Unanswered(i)
           /\ Queue(s, [type |-> "reason_prompt", inc |-> i, tkt |-> Nothing])
  <2> DEFINE m == [type |-> "reason_prompt", inc |-> i, tkt |-> Nothing]
  <2>1. m \in Message /\ MessageOK(m)
    BY <1>1 DEF Message, MessageOK, Unanswered, Live
  <2> QED BY <1>1, <2>1, QueueOK
<1>2. ASSUME NEW t \in OpenTickets(i), Live(i),
             Queue(s, [type |-> "eta_request", inc |-> i, tkt |-> t])
      PROVE  Later /\ IInv'
  <2> DEFINE m == [type |-> "eta_request", inc |-> i, tkt |-> t]
  <2>1. m \in Message /\ MessageOK(m)
    BY <1>2 DEF Message, MessageOK, OpenTickets, Live
  <2> QED BY <1>2, <2>1, QueueOK
<1> QED BY <1>1, <1>2 DEF Asks

LEMMA RemindsOK ==
  ASSUME IInv, NEW s \in Sender, NEW i \in Incidents, Reminds(s, i)
  PROVE  Later /\ IInv'
<1>1. PICK x \in Sender : \E m \in DOMAIN chat[x] :
        Queue(s, [chat[x][m] EXCEPT !.type = "escalation"])
  BY DEF Reminds, Sent
<1>2. PICK m \in DOMAIN chat[x] : Queue(s, [chat[x][m] EXCEPT !.type = "escalation"])
  BY <1>1
<1> DEFINE reminder == [chat[x][m] EXCEPT !.type = "escalation"]
<1>3. chat[x][m] \in Message /\ MessageOK(chat[x][m])
  BY DEF IInv, Tables
<1>4. reminder \in Message /\ reminder.inc = chat[x][m].inc /\ reminder.type = "escalation"
  BY <1>3 DEF Message
<1>5. MessageOK(reminder)
  <2> HIDE DEF reminder
  <2> QED BY <1>3, <1>4 DEF MessageOK
<1> QED BY <1>2, <1>4, <1>5, QueueOK

-----------------------------------------------------------------------------
(* The handler. *)

LEMMA IdleOK == Tables => Idle \in RequestState /\ RequestOK(Idle)
<1> SUFFICES ASSUME Tables PROVE Idle \in RequestState /\ RequestOK(Idle)
  OBVIOUS
<1>1. (CHOOSE s \in Sender : TRUE) \in Sender
  BY RepliesAssumption
<1>2. NoTarget \in Target
  BY DEF NoTarget, Target, Nothing
<1>3. [numbers |-> << >>, word |-> "none"] \in Text
  BY DEF Text
<1>4. Idle \in RequestState
  BY <1>1, <1>2, <1>3 DEF Idle, RequestState, Acks, NoLoom, Nothing
<1>5. RequestOK(Idle)
  BY DEF Idle, RequestOK, FoundOK, TargetOK, QuoteOK, RefusalOK, NoTarget, Nothing
<1> QED BY <1>4, <1>5

LEMMA SplitOK ==
  ASSUME NEW text \in Text
  PROVE  /\ split_asset(text) \in Text
         /\ NamesLoom(text) => Head(text.numbers) \in Nat
<1>1. text.numbers \in Seq(Nat)
  BY DEF Text
<1>2. text.numbers # << >> => Head(text.numbers) \in Nat /\ Tail(text.numbers) \in Seq(Nat)
  BY <1>1
<1> QED BY <1>2 DEF split_asset, NamesLoom, Text

\* Where a reply goes is decided by what was found.
LEMMA VerbOK ==
  ASSUME NEW text, NEW found
  PROVE  /\ Verb(text, found) \in {"handover", "eta", "reason", "find"}
         /\ Verb(text, found) = "eta" => found.kind = "eta"
         /\ Verb(text, found) = "reason" => found.kind = "reason"
         /\ Verb(text, found) = "find" /\ found.kind \in {"reason", "eta"} =>
              found.kind = "eta" /\ parse_eta(text) = NoHours
  BY DEF Verb

LEMMA ReceiveOK ==
  ASSUME IInv, NEW q \in Request, NEW s \in Sender, NEW card \in Cards \cup {NoLoom},
         NEW text \in Texts, NEW quotes \in {Nothing} \cup DOMAIN chat[s],
         Receive(q, s, quotes, card, text)
  PROVE  Later /\ IInv'
<1> DEFINE rest  == split_asset(text)
           found == Asked(s, quotes)
           loom  == IF NamesLoom(text) THEN Head(text.numbers) ELSE card
           pc    == IF quotes # Nothing /\ found = NoTarget THEN "refuse"
                    ELSE IF NamesLoom(text) THEN "name" ELSE Verb(rest, found)
           settled == {i \in Incidents : inc[i].status = "resolved" \/ inc[i].answered}
           r == [Idle EXCEPT !.from = s, !.quotes = quotes, !.text = rest, !.found = found,
                             !.named = NamesLoom(text), !.loom = loom, !.pc = pc,
                             !.settled = settled, !.upto = Len(chat[s])]
<1>1. Goes(q, r)
  BY DEF Receive
<1>2. Tables /\ chat[s] \in Seq(Message)
  BY DEF IInv, Tables
<1>3. quotes \in Nat /\ Len(chat[s]) \in Nat
  BY <1>2 DEF Nothing
<1>4. text \in Text /\ card \in Nat
  BY RepliesAssumption DEF NoLoom
<1>5. rest \in Text /\ loom \in Nat /\ NamesLoom(text) \in BOOLEAN
  BY <1>4, SplitOK DEF NamesLoom
<1>6. \/ found = NoTarget
      \/ \E m \in Sent(s, Questions) :
           /\ found = AnswerTarget(chat[s][m]) /\ found # NoTarget
           /\ chat[s][m] \in Message /\ MessageOK(chat[s][m])
           /\ quotes # Nothing => m = quotes
  <2>1. CASE quotes = Nothing
    BY <2>1, <1>2, LastQuestionOK DEF Asked
  <2>2. CASE quotes # Nothing /\ found # NoTarget
    <3>1. quotes \in DOMAIN chat[s] /\ chat[s][quotes] \in Message /\ MessageOK(chat[s][quotes])
      BY <2>2, <1>2 DEF Tables
    <3>2. found = AnswerTarget(chat[s][quotes])
      BY <2>2 DEF Asked
    <3>3. chat[s][quotes].type \in Questions
      BY <3>1, <3>2, <2>2, <1>2, AnswerTargetOK
    <3> QED BY <3>1, <3>2, <3>3, <2>2 DEF Sent
  <2> QED BY <2>1, <2>2
<1> DEFINE FoundFacts ==
             /\ found \in Target /\ TargetOK(found)
             /\ found.kind = "reason" => found.id \notin settled
             /\ found # NoTarget => AskedAbout(s, found) /\ found.kind \in {"reason", "eta"}
             /\ found # NoTarget /\ quotes # Nothing =>
                  found = Subject(chat[s][quotes]) /\ chat[s][quotes].type \in Questions
<1>7. FoundFacts
  <2> HIDE DEF found
  <2>1. CASE found = NoTarget
    BY <2>1 DEF NoTarget, Target, TargetOK, Nothing
  <2>2. ASSUME NEW m \in Sent(s, Questions),
               found = AnswerTarget(chat[s][m]), found # NoTarget,
               chat[s][m] \in Message, MessageOK(chat[s][m]),
               quotes # Nothing => m = quotes
        PROVE  FoundFacts
    <3>1. /\ found \in Target /\ TargetOK(found) /\ found.kind \in {"reason", "eta"}
          /\ found = Subject(chat[s][m]) /\ chat[s][m].type \in Questions
          /\ found.kind = "reason" => Unanswered(found.id)
      BY <2>2, <1>2, AnswerTargetOK
    <3>2. AskedAbout(s, found)
      BY <3>1 DEF AskedAbout
    <3>3. found.kind = "reason" => found.id \notin settled
      BY <3>1 DEF Unanswered, Live
    <3> QED BY <3>1, <3>2, <3>3, <2>2
  <2> QED BY <2>1, <2>2, <1>6
<1>8. pc \in {"refuse", "name", "handover", "eta", "reason", "find"}
  <2> HIDE DEF rest, found
  <2> QED BY VerbOK
<1> HIDE DEF rest, found, loom, pc, settled
<1>9. /\ r.from = s /\ r.quotes = quotes /\ r.text = rest /\ r.found = found
      /\ r.named = NamesLoom(text) /\ r.loom = loom /\ r.pc = pc /\ r.settled = settled
      /\ r.did = NoTarget /\ r.ack = "none"
  BY DEF Idle
<1>10. r \in RequestState
  <2>1. Idle \in RequestState
    BY <1>2, IdleOK
  <2>2. settled \in SUBSET Incidents
    BY DEF settled
  <2> QED BY <2>1, <2>2, <1>3, <1>5, <1>7, <1>8 DEF RequestState
<1> HIDE DEF r
<1>11. FoundOK(r, r.found) /\ FoundOK(r, r.did)
  BY <1>9, <1>7 DEF FoundOK, TargetOK, NoTarget
<1>12. \A i \in r.settled : inc[i].status = "resolved" \/ inc[i].answered
  BY <1>9 DEF settled
<1>13. /\ r.pc = "name" => r.named
       /\ r.pc = "eta" => r.found.kind = "eta"
       /\ r.pc = "reason" => r.found.kind = "reason"
  BY <1>9, VerbOK DEF pc
<1>14. QuoteOK(r)
  <2> SUFFICES ASSUME quotes # Nothing PROVE QuoteOK(r)
    BY <1>9 DEF QuoteOK
  <2>1. quotes \in DOMAIN chat[s] /\ QuotedBy(r) = chat[s][quotes]
    BY <1>9 DEF QuotedBy
  <2>2. pc # "refuse" => found # NoTarget
    BY DEF pc
  <2>3. pc # "refuse" => QuotedBy(r).type # "escalation" /\ AsksFor(r, found)
    BY <2>1, <2>2, <1>7 DEF AsksFor, Questions
  <2>4. pc = "find" => /\ found.kind = "eta" /\ parse_eta(rest) = NoHours
    <3>1. pc = "find" => Verb(rest, found) = "find"
      BY DEF pc
    <3> QED BY <3>1, <2>2, <1>7, VerbOK
  <2>5. pc = "find" => QuotedBy(r).type = "eta_request" /\ EtaOver(r)
    BY <2>3, <2>4, <1>9 DEF AsksFor, Subject, EtaOver
  <2> QED BY <2>1, <2>2, <2>3, <2>5, <1>8, <1>9 DEF QuoteOK, Obeys
<1>15. RefusalOK(r)
  <2>1. CASE quotes # Nothing /\ found = NoTarget
    <3>1. chat[s][quotes] \in Message /\ MessageOK(chat[s][quotes])
      BY <2>1, <1>2 DEF Tables
    <3>2. AnswerTarget(chat[s][quotes]) = NoTarget
      BY <2>1 DEF found, Asked
    <3>3. PICK m \in Message : m = chat[s][quotes] /\ MessageOK(m) /\ AnswerTarget(m) = NoTarget
      BY <3>1, <3>2
    <3>4. m.type # "escalation" => Settled(m)
      BY <3>3, <1>2, NoTargetSettled
    <3>5. m.type # "escalation" => m.inc \in settled
      BY <3>4 DEF Settled, Message, settled
    <3> QED BY <3>3, <3>4, <3>5, <2>1, <1>9 DEF RefusalOK, QuotedBy, Meant
  <2>2. CASE ~(quotes # Nothing /\ found = NoTarget)
    <3>1. pc # "refuse"
      BY <2>2, VerbOK DEF pc
    <3> QED BY <3>1, <1>9 DEF RefusalOK
  <2> QED BY <2>1, <2>2
<1>16. RequestOK(r)
  BY <1>11, <1>12, <1>13, <1>14, <1>15 DEF RequestOK
<1> QED BY <1>1, <1>10, <1>16, RequestGoes

LEMMA SameFound ==
  ASSUME NEW a, NEW b, NEW target, FoundOK(a, target),
         b.from = a.from, b.loom = a.loom, b.settled = a.settled
  PROVE  FoundOK(b, target)
  BY DEF FoundOK

\* What a look-up finds was not settled when the reply arrived: what is settled stays so.
LEMMA FindOK ==
  ASSUME Tables, NEW r \in RequestState, RequestOK(r), NEW quoted \in {Nothing, r.quotes},
         quoted # Nothing => QuotedBy(r).type # "escalation",
         FindIncident(r.from, quoted, r.loom) # Nothing
  PROVE  LET target == [kind |-> "reason", id |-> FindIncident(r.from, quoted, r.loom)]
         IN  target \in Target /\ target # NoTarget /\ FoundOK(r, target)
<1> DEFINE i == FindIncident(r.from, quoted, r.loom)
           target == [kind |-> "reason", id |-> i]
<1>1. r.from \in Sender /\ quoted \in Nat /\ r.loom \in Nat /\ r.settled \subseteq Incidents
  BY DEF RequestState, Nothing
<1>2. quoted # Nothing =>
        quoted \in DOMAIN chat[r.from] /\ chat[r.from][quoted].type # "escalation"
  BY DEF RequestOK, QuoteOK, QuotedBy
<1>3. i \in Incidents /\ Unanswered(i) /\ (r.loom = NoLoom => AskedAbout(r.from, target))
  BY <1>1, <1>2, FindIncidentOK
<1> HIDE DEF i
<1>4. i \notin r.settled
  BY <1>3 DEF RequestOK, Unanswered, Live
<1>5. TargetOK(target)
  BY <1>3 DEF TargetOK, Unanswered, Live
<1>6. target \in Target /\ target # NoTarget
  BY <1>3, RepliesAssumption DEF Target, NoTarget, Incidents
<1>7. FoundOK(r, target)
  BY <1>3, <1>4, <1>5 DEF FoundOK
<1> QED BY <1>6, <1>7 DEF i

LEMMA NameOK ==
  ASSUME IInv, NEW q \in Request, Name(q)
  PROVE  Later /\ IInv'
<1> DEFINE r == req[q]
           i == FindIncident(r.from, Nothing, r.loom)
           found == ByName(r.found, i)
           next == [r EXCEPT !.found = found, !.pc = Verb(r.text, found)]
<1>1. r.pc = "name" /\ Goes(q, next)
  BY DEF Name
<1>2. Tables /\ r \in RequestState /\ RequestOK(r)
  BY DEF IInv
<1> HIDE DEF r
<1>3. found \in Target /\ FoundOK(r, found)
  <2>1. CASE found = r.found
    BY <2>1, <1>2 DEF RequestState, RequestOK
  <2>2. CASE found = [kind |-> "reason", id |-> i] /\ i # Nothing
    BY <2>2, <1>2, FindOK
  <2>3. found = r.found \/ (found = [kind |-> "reason", id |-> i] /\ i # Nothing)
    BY DEF ByName
  <2> QED BY <2>1, <2>2, <2>3
<1> HIDE DEF found
<1>4. /\ Verb(r.text, found) \in {"handover", "eta", "reason", "find"}
      /\ Verb(r.text, found) = "eta" => found.kind = "eta"
      /\ Verb(r.text, found) = "reason" => found.kind = "reason"
  BY VerbOK
<1>5. /\ next.found = found /\ next.pc = Verb(r.text, found)
      /\ next.from = r.from /\ next.loom = r.loom /\ next.settled = r.settled
      /\ next.did = r.did /\ next.quotes = r.quotes /\ next.named = r.named
      /\ next.ack = r.ack
  BY <1>2 DEF RequestState
<1>6. next \in RequestState
  BY <1>2, <1>3, <1>4 DEF RequestState
<1> HIDE DEF next
<1>7. FoundOK(next, next.found) /\ FoundOK(next, next.did)
  BY <1>2, <1>3, <1>5, SameFound DEF RequestOK
<1>8. QuoteOK(next) /\ RefusalOK(next)
  BY <1>1, <1>2, <1>4, <1>5 DEF RequestOK, QuoteOK, RefusalOK, QuotedBy
<1>9. RequestOK(next)
  BY <1>2, <1>4, <1>5, <1>7, <1>8 DEF RequestOK
<1> QED BY <1>1, <1>6, <1>9, RequestGoes

LEMMA RefuseOK ==
  ASSUME IInv, NEW q \in Request, Refuse(q)
  PROVE  Later /\ IInv'
<1> DEFINE r == req[q]
           ack == Refusal(chat[r.from][r.quotes])
           next == [r EXCEPT !.pc = "say", !.ack = ack]
<1>1. r.pc = "refuse" /\ Goes(q, next)
  BY DEF Refuse
<1>2. Tables /\ r \in RequestState /\ RequestOK(r)
  BY DEF IInv
<1>3. ack \in {"already_running", "already_answered"}
  BY DEF Refusal
<1>9. Meant(ack, QuotedBy(r))
  <2>1. RefusalOK(r) /\ \A i \in r.settled : inc[i].status = "resolved" \/ inc[i].answered
    BY <1>2 DEF RequestOK
  <2>2. QuotedBy(r).type # "escalation" => QuotedBy(r).inc \in r.settled
    BY <1>1, <2>1 DEF RefusalOK
  <2>3. ack = Refusal(QuotedBy(r))
    BY DEF QuotedBy
  <2> HIDE DEF r, ack
  <2> QED BY <2>1, <2>2, <2>3 DEF Meant, Refusal
<1> HIDE DEF r, ack
<1>4. /\ next.pc = "say" /\ next.found = r.found /\ next.did = r.did
      /\ next.from = r.from /\ next.loom = r.loom /\ next.settled = r.settled
      /\ next.quotes = r.quotes /\ next.named = r.named /\ next.text = r.text
      /\ next.ack = ack
  BY <1>2 DEF RequestState
<1>5. next \in RequestState
  BY <1>2, <1>3 DEF RequestState, Acks
<1> HIDE DEF next
<1>6. FoundOK(next, next.found) /\ FoundOK(next, next.did)
  BY <1>2, <1>4, SameFound DEF RequestOK
<1>7. QuoteOK(next) /\ RefusalOK(next)
  <2>1. QuoteOK(next)
    BY <1>1, <1>2, <1>4 DEF RequestOK, QuoteOK, QuotedBy, Obeys, AsksFor, EtaOver
  <2>2. QuotedBy(next) = QuotedBy(r)
    BY <1>4 DEF QuotedBy
  <2>3. RefusalOK(next)
    BY <1>1, <1>2, <1>4, <1>9, <2>2 DEF RequestOK, RefusalOK
  <2> QED BY <2>1, <2>3
<1>8. RequestOK(next)
  BY <1>2, <1>4, <1>6, <1>7 DEF RequestOK
<1> QED BY <1>1, <1>5, <1>8, RequestGoes

LEMMA HandOverOK ==
  ASSUME IInv, NEW q \in Request, HandOver(q)
  PROVE  Later /\ IInv'
<1> DEFINE r == req[q]
           i == IF r.found = NoTarget /\ r.loom # NoLoom
                  THEN FindIncident(r.from, Nothing, r.loom) ELSE Nothing
           found == IF i # Nothing THEN [kind |-> "reason", id |-> i] ELSE r.found
           ack == IF found = NoTarget THEN "nothing_pending" ELSE "passed"
           next == [r EXCEPT !.pc = "say", !.did = found, !.passed = found # NoTarget, !.ack = ack]
<1>1. r.pc = "handover" /\ Goes(q, next)
  BY DEF HandOver
<1>2. Tables /\ r \in RequestState /\ RequestOK(r)
  BY DEF IInv
<1> HIDE DEF r
<1>3. found \in Target /\ FoundOK(r, found)
  <2>1. CASE i = Nothing
    BY <2>1, <1>2 DEF RequestState, RequestOK
  <2>2. CASE i # Nothing
    <3>1. i = FindIncident(r.from, Nothing, r.loom)
      BY <2>2
    <3> QED BY <2>2, <3>1, <1>2, FindOK
  <2> QED BY <2>1, <2>2
<1>4. r.found # NoTarget => found = r.found
  OBVIOUS
<1>5. ack \in {"nothing_pending", "passed"}
  OBVIOUS
<1> HIDE DEF found, ack
<1>6. /\ next.pc = "say" /\ next.found = r.found /\ next.did = found /\ next.ack = ack
      /\ next.from = r.from /\ next.loom = r.loom /\ next.settled = r.settled
      /\ next.quotes = r.quotes /\ next.named = r.named /\ next.text = r.text
  BY <1>2 DEF RequestState
<1>7. next \in RequestState
  BY <1>2, <1>3, <1>5 DEF RequestState, Acks
<1> HIDE DEF next
<1>8. FoundOK(next, next.found) /\ FoundOK(next, next.did)
  BY <1>2, <1>3, <1>6, SameFound DEF RequestOK
<1>9. QuoteOK(next)
  <2>1. ASSUME r.quotes # Nothing, ~r.named PROVE Obeys(next, found)
    <3>1. AsksFor(r, r.found)
      BY <2>1, <1>1, <1>2 DEF RequestOK, QuoteOK
    <3>2. found = r.found
      BY <3>1, <1>4, SubjectIsTarget DEF AsksFor
    <3> QED BY <3>1, <3>2, <1>6 DEF Obeys, AsksFor, QuotedBy
  <2> QED BY <2>1, <1>1, <1>2, <1>6 DEF RequestOK, QuoteOK, QuotedBy
<1>10. RefusalOK(next)
  BY <1>5, <1>6 DEF RefusalOK
<1>11. RequestOK(next)
  BY <1>2, <1>6, <1>8, <1>9, <1>10 DEF RequestOK
<1> QED BY <1>1, <1>7, <1>11, RequestGoes

LEMMA EtaOK ==
  ASSUME IInv, NEW q \in Request, Eta(q)
  PROVE  Later /\ IInv'
<1> DEFINE r == req[q]
           done == [r EXCEPT !.pc = "say", !.did = r.found, !.ack = "eta"]
           late == [r EXCEPT !.pc = "find"]
<1>1. /\ r.pc = "eta"
      /\ \/ Goes(q, done)
         \/ tkt[r.found.id].status = "closed" /\ Goes(q, late)
  BY DEF Eta
<1>2. Tables /\ r \in RequestState /\ RequestOK(r)
  BY DEF IInv
<1> HIDE DEF r
<1>3. CASE Goes(q, done)
  <2>1. /\ done.pc = "say" /\ done.found = r.found /\ done.did = r.found /\ done.ack = "eta"
        /\ done.from = r.from /\ done.loom = r.loom /\ done.settled = r.settled
        /\ done.quotes = r.quotes /\ done.named = r.named /\ done.text = r.text
    BY <1>2 DEF RequestState
  <2>2. done \in RequestState
    BY <1>2 DEF RequestState, Acks
  <2> HIDE DEF done
  <2>3. FoundOK(done, done.found) /\ FoundOK(done, done.did)
    BY <1>2, <2>1, SameFound DEF RequestOK
  <2>4. QuoteOK(done) /\ RefusalOK(done)
    BY <1>1, <1>2, <2>1 DEF RequestOK, QuoteOK, RefusalOK, QuotedBy, Obeys, AsksFor
  <2>5. RequestOK(done)
    BY <1>2, <2>1, <2>3, <2>4 DEF RequestOK
  <2> QED BY <1>3, <2>2, <2>5, RequestGoes
<1>4. CASE tkt[r.found.id].status = "closed" /\ Goes(q, late)
  <2>1. /\ late.pc = "find" /\ late.found = r.found /\ late.did = r.did /\ late.ack = r.ack
        /\ late.from = r.from /\ late.loom = r.loom /\ late.settled = r.settled
        /\ late.quotes = r.quotes /\ late.named = r.named /\ late.text = r.text
    BY <1>2 DEF RequestState
  <2>2. late \in RequestState
    BY <1>2 DEF RequestState
  <2> HIDE DEF late
  <2>3. FoundOK(late, late.found) /\ FoundOK(late, late.did)
    BY <1>2, <2>1, SameFound DEF RequestOK
  <2>4. QuoteOK(late)
    <3>1. ASSUME r.quotes # Nothing, ~r.named
          PROVE  QuotedBy(late).type = "eta_request" /\ EtaOver(late)
      <4>1. r.found = Subject(QuotedBy(r)) /\ r.found.kind = "eta"
        BY <3>1, <1>1, <1>2 DEF RequestOK, QuoteOK, AsksFor
      <4>2. QuotedBy(late) = QuotedBy(r)
        BY <2>1 DEF QuotedBy
      <4>3. QuotedBy(r).type = "eta_request" /\ r.found.id = QuotedBy(r).tkt
        BY <4>1 DEF Subject
      <4> QED BY <4>2, <4>3, <1>4 DEF EtaOver
    <3> QED BY <3>1, <1>1, <1>2, <2>1 DEF RequestOK, QuoteOK, QuotedBy, Obeys, AsksFor, EtaOver
  <2>5. RefusalOK(late)
    BY <1>1, <1>2, <2>1 DEF RequestOK, RefusalOK, QuotedBy
  <2>6. RequestOK(late)
    BY <1>2, <2>1, <2>3, <2>4, <2>5 DEF RequestOK
  <2> QED BY <1>4, <2>2, <2>6, RequestGoes
<1> QED BY <1>1, <1>3, <1>4

LEMMA FindsOK ==
  ASSUME IInv, NEW q \in Request, Find(q)
  PROVE  Later /\ IInv'
<1> DEFINE r == req[q]
           i == FindIncident(r.from, r.quotes, r.loom)
           found == IF i = Nothing THEN NoTarget ELSE [kind |-> "reason", id |-> i]
           next == [r EXCEPT !.pc = "reason", !.found = found]
<1>1. r.pc = "find" /\ Goes(q, next)
  BY DEF Find
<1>2. Tables /\ r \in RequestState /\ RequestOK(r)
  BY DEF IInv
<1> HIDE DEF r
<1>3. found \in Target /\ FoundOK(r, found)
  <2>1. CASE i = Nothing
    BY <2>1 DEF NoTarget, Target, Nothing, FoundOK, TargetOK
  <2>2. CASE i # Nothing
    <3>1. r.quotes # Nothing => QuotedBy(r).type # "escalation"
      BY <1>1, <1>2 DEF RequestOK, QuoteOK
    <3> QED BY <2>2, <3>1, <1>2, FindOK
  <2> QED BY <2>1, <2>2
<1>4. found = NoTarget \/ found.kind = "reason"
  OBVIOUS
<1> HIDE DEF found
<1>5. /\ next.pc = "reason" /\ next.found = found /\ next.did = r.did /\ next.ack = r.ack
      /\ next.from = r.from /\ next.loom = r.loom /\ next.settled = r.settled
      /\ next.quotes = r.quotes /\ next.named = r.named /\ next.text = r.text
  BY <1>2 DEF RequestState
<1>6. next \in RequestState
  BY <1>2, <1>3 DEF RequestState
<1> HIDE DEF next
<1>7. FoundOK(next, next.found) /\ FoundOK(next, next.did)
  BY <1>2, <1>3, <1>5, SameFound DEF RequestOK
<1>8. QuoteOK(next)
  BY <1>1, <1>2, <1>4, <1>5 DEF RequestOK, QuoteOK, QuotedBy, Obeys, AsksFor, EtaOver
<1>9. RefusalOK(next)
  BY <1>1, <1>2, <1>5 DEF RequestOK, RefusalOK, QuotedBy
<1>10. RequestOK(next)
  BY <1>2, <1>4, <1>5, <1>7, <1>8, <1>9 DEF RequestOK
<1> QED BY <1>1, <1>6, <1>10, RequestGoes

LEMMA ReasonOK ==
  ASSUME IInv, NEW q \in Request, Reason(q)
  PROVE  Later /\ IInv'
<1> DEFINE r == req[q]
           code == parse(r.text)
           ack == IF code = NoCode /\ Length(r.text) > 0 THEN "unparsed" ELSE "none"
           said == [r EXCEPT !.pc = "say", !.ack = ack]
           done == [r EXCEPT !.pc = "say", !.did = r.found, !.ack = "reason"]
<1>1. /\ r.pc = "reason"
      /\ \/ /\ r.found # NoTarget /\ SetReason(r.found.id, code) /\ UNCHANGED chat
            /\ req' = [req EXCEPT ![q].pc = "say", ![q].did = r.found, ![q].ack = "reason"]
         \/ Goes(q, said)
  BY DEF Reason
<1>2. Tables /\ r \in RequestState /\ RequestOK(r) /\ req \in [Request -> RequestState]
  BY DEF IInv
<1>3. ASSUME req' = [req EXCEPT ![q].pc = "say", ![q].did = r.found, ![q].ack = "reason"]
      PROVE  req' = [req EXCEPT ![q] = done]
  BY <1>3, <1>2
<1>4. ack \in {"unparsed", "none"}
  OBVIOUS
<1> HIDE DEF r, ack, code
<1>5. CASE /\ r.found # NoTarget /\ SetReason(r.found.id, code) /\ UNCHANGED chat
           /\ req' = [req EXCEPT ![q] = done]
  <2>1. /\ done.pc = "say" /\ done.found = r.found /\ done.did = r.found /\ done.ack = "reason"
        /\ done.from = r.from /\ done.loom = r.loom /\ done.settled = r.settled
        /\ done.quotes = r.quotes /\ done.named = r.named /\ done.text = r.text
    BY <1>2 DEF RequestState
  <2>2. done \in RequestState
    BY <1>2 DEF RequestState, Acks
  <2>3. r.found.id \in Incidents /\ inc[r.found.id].status # "none"
    BY <1>1, <1>2, <1>5 DEF RequestOK, FoundOK, TargetOK
  <2>4. Tables' /\ Later
    BY <1>2, <1>5, <2>3, SetReasonOK
  <2> HIDE DEF done
  <2>5. FoundOK(done, done.found) /\ FoundOK(done, done.did)
    BY <1>2, <2>1, SameFound DEF RequestOK
  <2>6. QuoteOK(done) /\ RefusalOK(done)
    BY <1>1, <1>2, <1>5, <2>1
    DEF RequestOK, QuoteOK, RefusalOK, QuotedBy, Obeys, AsksFor, EtaOver
  <2>7. RequestOK(done)
    BY <1>2, <2>1, <2>5, <2>6 DEF RequestOK
  <2>8. PICK d \in RequestState : d = done /\ RequestOK(d)
    BY <2>2, <2>7
  <2>9. RequestOK(d)'
    BY <1>2, <2>4, <2>8, RequestStays
  <2>10. req' = [req EXCEPT ![q] = d]
    BY <1>5, <2>8
  <2> QED BY <2>4, <2>9, <2>10, RequestMoves
<1>6. CASE Goes(q, said)
  <2>1. /\ said.pc = "say" /\ said.found = r.found /\ said.did = r.did /\ said.ack = ack
        /\ said.from = r.from /\ said.loom = r.loom /\ said.settled = r.settled
        /\ said.quotes = r.quotes /\ said.named = r.named /\ said.text = r.text
    BY <1>2 DEF RequestState
  <2>2. said \in RequestState
    BY <1>2, <1>4 DEF RequestState, Acks
  <2> HIDE DEF said
  <2>3. FoundOK(said, said.found) /\ FoundOK(said, said.did)
    BY <1>2, <2>1, SameFound DEF RequestOK
  <2>4. QuoteOK(said) /\ RefusalOK(said)
    BY <1>1, <1>2, <1>4, <2>1
    DEF RequestOK, QuoteOK, RefusalOK, QuotedBy, Obeys, AsksFor, EtaOver
  <2>5. RequestOK(said)
    BY <1>2, <2>1, <2>3, <2>4 DEF RequestOK
  <2> QED BY <1>6, <2>2, <2>5, RequestGoes
<1> QED BY <1>1, <1>3, <1>5, <1>6

LEMMA EndsOK ==
  ASSUME IInv, NEW q \in Request, Goes(q, Idle)
  PROVE  Later /\ IInv'
  BY IdleOK, RequestGoes DEF IInv

-----------------------------------------------------------------------------
(* The invariant, and what follows from it. *)

LEMMA Start == Init => IInv
<1> SUFFICES ASSUME Init PROVE IInv
  OBVIOUS
<1>1. Tables
  BY DEF Init, Tables, IncidentRow, TicketRow, NoLoom, Nothing
<1>2. \A q \in Request : req[q] = Idle
  BY DEF Init
<1>3. req \in [Request -> RequestState]
  BY <1>1, IdleOK DEF Init
<1>4. \A q \in Request : RequestOK(req[q])
  BY <1>1, <1>2, IdleOK
<1> QED BY <1>1, <1>3, <1>4 DEF IInv

LEMMA Steps == IInv /\ [Next]_vars => Later /\ IInv'
<1> SUFFICES ASSUME IInv, [Next]_vars PROVE Later /\ IInv'
  OBVIOUS
<1>1. CASE Lifecycle
  BY <1>1, StopsOK, ResolvesOK, CodedElsewhereOK, AsksOK, RemindsOK DEF Lifecycle
<1>2. ASSUME NEW q \in Request, Arrives(q) PROVE Later /\ IInv'
  BY <1>2, ReceiveOK DEF Arrives
<1>3. ASSUME NEW q \in Request, Handle(q) PROVE Later /\ IInv'
  <2>1. CASE Say(q)
    BY <2>1, EndsOK DEF Say
  <2> QED BY <1>3, <2>1, NameOK, RefuseOK, HandOverOK, EtaOK, FindsOK, ReasonOK DEF Handle
<1>4. ASSUME NEW q \in Request, Fails(q) PROVE Later /\ IInv'
  BY <1>4, EndsOK DEF Fails
<1>5. CASE UNCHANGED vars
  <2>1. Later
    BY <1>5 DEF vars, Later
  <2>2. Tables'
    BY <1>5 DEF vars, IInv, Tables, MessageOK
  <2> QED BY <1>5, <2>1, <2>2, OthersMove DEF vars
<1> QED BY <1>1, <1>2, <1>3, <1>4, <1>5 DEF Next

\* Whatever is said by whom, and in whatever order requests, answers from
\* elsewhere and resolutions meet, the invariant holds.
THEOREM RepliesIInv == Spec => []IInv
  BY Start, Steps, PTL DEF Spec

\* Tables and handlers hold what they may hold.
THEOREM RepliesTyped == Spec => []TypeOK
<1>1. IInv => TypeOK
  BY DEF IInv, TypeOK, Tables, RequestOK, FoundOK, TargetOK
<1> QED BY <1>1, RepliesIInv, PTL

\* Only the first answer counts: a reply that arrives once an incident is answered
\* or over gives it no other reason, whatever it quotes or names and whatever
\* happens while it is handled.
THEOREM TheFirstAnswerStands == Spec => []FirstAnswerStands
<1>1. IInv => FirstAnswerStands
  BY DEF IInv, FirstAnswerStands, RequestOK, FoundOK
<1> QED BY <1>1, RepliesIInv, PTL

\* A reply that quotes a message and names no loom does what the message asks, or nothing.
THEOREM TheQuoteDecides == Spec => []QuoteDecides
<1>1. IInv => QuoteDecides
  BY DEF IInv, QuoteDecides, Did, Quoted, QuotedBy, RequestOK, QuoteOK, Obeys, AsksFor, EtaOver
<1> QED BY <1>1, RepliesIInv, PTL

\* Unless it names a loom, a reply only changes what its sender was asked about.
THEOREM OnlyTheAskedAnswer == Spec => []OnlyTheAsked
<1>1. IInv => OnlyTheAsked
  BY DEF IInv, OnlyTheAsked, Did, AskedAbout, Questions, RequestOK, FoundOK
<1> QED BY <1>1, RepliesIInv, PTL

\* Why a reply is refused is true: the incident is over, or answered, and it was one of
\* the two, and the ticket closed, when the reply arrived.
THEOREM RefusalsAreTrue == Spec => []RefusalIsTrue
<1>1. IInv => RefusalIsTrue
  BY DEF IInv, RefusalIsTrue, Quoted, QuotedBy, RequestOK, RefusalOK, Settled, Meant
<1> QED BY <1>1, RepliesIInv, PTL

-----------------------------------------------------------------------------
(* Nothing that can be read is lost. *)

\* Whoever wrote was asked nothing that is still open, as far as a look-up reaches.
NothingOpen(r) ==
  \A m \in Sent(r.from, {"reason_prompt"}) :
    /\ m <= r.upto
    /\ Cardinality({k \in Sent(r.from, {"reason_prompt"}) : k > m}) < Window
    => ~Unanswered(chat[r.from][m].inc)

GivesUp(r) ==
  \/ r.pc = "reason" /\ r.found = NoTarget
  \/ r.pc = "say" /\ r.did = NoTarget /\ parse(r.text) # NoCode

\* A handler that gives up an answer has looked for its question.
HeardOK(r) ==
  /\ r.upto <= Len(chat[r.from])
  /\ r.pc = "handover" => is_pass(r.text)
  /\ GivesUp(r) /\ r.quotes = Nothing => NothingOpen(r)

HeardInv == \A q \in Request : HeardOK(req[q])

\* New messages push old ones out of the window and bring none into it.
LEMMA WindowShrinks ==
  ASSUME Tables, Tables', Later, NEW s \in Sender, NEW m \in Nat
  PROVE  LET later == {k \in Sent(s, {"reason_prompt"}) : k > m} IN
         Cardinality(later)' < Window => Cardinality(later) < Window
<1> DEFINE later == {k \in Sent(s, {"reason_prompt"}) : k > m}
<1>1. chat[s] \in Seq(Message) /\ chat'[s] \in Seq(Message)
  BY DEF Tables
<1>2. later \subseteq later'
  BY DEF Later, Sent
<1>3. later' \subseteq 1 .. Len(chat'[s]) /\ Len(chat'[s]) \in Nat
  BY <1>1 DEF Sent
<1>4. IsFiniteSet(later')
  <2>1. IsFiniteSet(1 .. Len(chat'[s]))
    BY <1>3, FS_Interval
  <2> HIDE DEF later
  <2> QED BY <1>3, <2>1, FS_Subset
<1>5. Cardinality(later) <= Cardinality(later') /\ IsFiniteSet(later)
  <2> HIDE DEF later
  <2> QED BY <1>2, <1>4, FS_Subset
<1>6. Cardinality(later) \in Nat /\ Cardinality(later') \in Nat
  BY <1>4, <1>5, FS_CardinalityType
<1>7. Window \in Nat
  BY RepliesAssumption
<1> HIDE DEF later
<1>8. Cardinality(later') < Window => Cardinality(later) < Window
  BY <1>5, <1>6, <1>7
<1> QED BY <1>8 DEF later

\* What is no longer open is not opened again.
LEMMA AnsweredStays ==
  ASSUME Tables, Tables', Later, NEW i \in Incidents, inc[i].status # "none", ~Unanswered(i)
  PROVE  ~Unanswered(i)'
<1>1. inc[i].status = "resolved" \/ inc[i].answered
  BY DEF Tables, IncidentRow, Unanswered, Live
<1> QED BY <1>1 DEF Later, Unanswered, Live

\* So what a handler has found remains true while others go on.
LEMMA NothingOpens ==
  ASSUME Tables, Tables', Later, NEW r \in RequestState,
         r.upto <= Len(chat[r.from]), NothingOpen(r)
  PROVE  NothingOpen(r)'
<1>1. r.from \in Sender /\ r.upto \in Nat
  BY DEF RequestState
<1>2. chat[r.from] \in Seq(Message) /\ chat'[r.from] \in Seq(Message)
  BY <1>1 DEF Tables
<1> SUFFICES ASSUME NEW m \in DOMAIN chat'[r.from],
                    chat'[r.from][m].type = "reason_prompt", m <= r.upto,
                    (Cardinality({k \in Sent(r.from, {"reason_prompt"}) : k > m}) < Window)'
             PROVE  ~Unanswered(chat[r.from][m].inc)'
  BY DEF NothingOpen, Sent
<1>3. m \in Nat /\ m \in DOMAIN chat[r.from]
  BY <1>1, <1>2
<1>4. chat'[r.from][m] = chat[r.from][m]
  BY <1>1, <1>3 DEF Later
<1>5. Cardinality({k \in Sent(r.from, {"reason_prompt"}) : k > m}) < Window
  BY <1>1, <1>3, WindowShrinks
<1>6. ~Unanswered(chat[r.from][m].inc)
  BY <1>3, <1>4, <1>5 DEF NothingOpen, Sent
<1>7. PICK i \in Incidents : i = chat[r.from][m].inc /\ inc[i].status # "none"
  <2>1. chat[r.from][m] \in Message
    BY <1>2, <1>3
  <2>2. MessageOK(chat[r.from][m])
    BY <1>1, <1>3 DEF Tables
  <2> QED BY <2>1, <2>2 DEF MessageOK, Message
<1>8. ~Unanswered(i)'
  BY <1>6, <1>7, AnsweredStays
<1> QED BY <1>4, <1>7, <1>8

LEMMA HeardStays ==
  ASSUME Tables, Tables', Later, NEW r \in RequestState, HeardOK(r)
  PROVE  HeardOK(r)'
<1>1. r.from \in Sender /\ r.upto \in Nat
  BY DEF RequestState
<1>2. chat[r.from] \in Seq(Message) /\ chat'[r.from] \in Seq(Message)
  BY <1>1 DEF Tables
<1>3. Len(chat[r.from]) <= Len(chat'[r.from])
  <2>1. CASE Len(chat[r.from]) = 0
    BY <1>2, <2>1
  <2>2. CASE Len(chat[r.from]) # 0
    <3>1. Len(chat[r.from]) \in DOMAIN chat[r.from]
      BY <1>2, <2>2
    <3>2. Len(chat[r.from]) \in DOMAIN chat'[r.from]
      BY <1>1, <3>1 DEF Later
    <3> QED BY <1>2, <3>2
  <2> QED BY <2>1, <2>2
<1>4. r.upto <= Len(chat[r.from])
  BY DEF HeardOK, GivesUp
<1>5. r.upto <= Len(chat'[r.from])
  BY <1>1, <1>2, <1>3, <1>4
<1>6. NothingOpen(r) => NothingOpen(r)'
  BY <1>4, NothingOpens
<1> QED BY <1>5, <1>6 DEF HeardOK, GivesUp

\* A look-up that finds nothing has gone through the whole window.
LEMMA FoundNothing ==
  ASSUME Tables, NEW r \in RequestState, FindIncident(r.from, Nothing, r.loom) = Nothing
  PROVE  NothingOpen(r)
<1> DEFINE live == {i \in Incidents : Live(i) /\ inc[i].loom = r.loom}
           open == {m \in Recent(r.from, {"reason_prompt"}) : Unanswered(chat[r.from][m].inc)}
<1>1. r.from \in Sender
  BY DEF RequestState
<1>2. chat[r.from] \in Seq(Message)
  BY <1>1 DEF Tables
<1>3. live # {} => Newest(live) # Nothing
  <2>1. live \subseteq 1 .. MaxIncidents /\ MaxIncidents \in Nat
    BY RepliesAssumption DEF Incidents
  <2> HIDE DEF live
  <2>2. live # {} => Newest(live) \in live
    BY <2>1, NewestIn
  <2> QED BY <2>1, <2>2 DEF Nothing
<1>4. open # {} => chat[r.from][Newest(open)].inc # Nothing
  <2>1. open \subseteq 1 .. Len(chat[r.from]) /\ Len(chat[r.from]) \in Nat
    BY <1>2 DEF Recent, Sent
  <2> HIDE DEF open
  <2>2. open # {} => Newest(open) \in open
    BY <2>1, NewestIn
  <2>3. \A m \in 1 .. Len(chat[r.from]) : chat[r.from][m] \in Message
    BY <1>2
  <2>4. open # {} => chat[r.from][Newest(open)] \in Message
    BY <2>1, <2>2, <2>3
  <2> QED BY <2>4 DEF Message, Incidents, Nothing
<1>5. open = {}
  BY <1>3, <1>4 DEF FindIncident, Nothing
<1> QED BY <1>5 DEF NothingOpen, Recent

\* One request moves on.
LEMMA HeardMoves ==
  ASSUME IInv, IInv', HeardInv, Later, NEW q \in Request, NEW r \in RequestState,
         req' = [req EXCEPT ![q] = r], HeardOK(r)
  PROVE  HeardInv'
<1>1. ASSUME NEW k \in Request PROVE HeardOK(req[k])'
  <2>1. PICK d \in RequestState : d = req'[k] /\ HeardOK(d)
    BY DEF IInv, HeardInv
  <2>2. HeardOK(d)'
    BY <2>1, HeardStays DEF IInv
  <2> QED BY <2>1, <2>2
<1> QED BY <1>1 DEF HeardInv

LEMMA HeardOthers ==
  ASSUME IInv, IInv', HeardInv, Later, UNCHANGED req
  PROVE  HeardInv'
<1>1. ASSUME NEW k \in Request PROVE HeardOK(req[k])'
  <2>1. PICK d \in RequestState : d = req[k] /\ HeardOK(d)
    BY DEF IInv, HeardInv
  <2>2. HeardOK(d)'
    BY <2>1, HeardStays DEF IInv
  <2> QED BY <2>1, <2>2
<1> QED BY <1>1 DEF HeardInv

LEMMA HeardReceive ==
  ASSUME IInv, IInv', HeardInv, Later, NEW q \in Request, NEW s \in Sender, NEW card,
         NEW text, NEW quotes, Receive(q, s, quotes, card, text)
  PROVE  HeardInv'
<1> DEFINE rest  == split_asset(text)
           found == Asked(s, quotes)
           loom  == IF NamesLoom(text) THEN Head(text.numbers) ELSE card
           pc    == IF quotes # Nothing /\ found = NoTarget THEN "refuse"
                    ELSE IF NamesLoom(text) THEN "name" ELSE Verb(rest, found)
           settled == {i \in Incidents : inc[i].status = "resolved" \/ inc[i].answered}
           next == [Idle EXCEPT !.from = s, !.quotes = quotes, !.text = rest, !.found = found,
                                !.named = NamesLoom(text), !.loom = loom, !.pc = pc,
                                !.settled = settled, !.upto = Len(chat[s])]
<1>1. Goes(q, next)
  BY DEF Receive
<1>2. /\ next.from = s /\ next.text = rest /\ next.found = found /\ next.pc = pc
      /\ next.upto = Len(chat[s])
  BY DEF Idle
<1>3. req'[q] = next /\ req' = [req EXCEPT ![q] = next]
  BY <1>1 DEF Goes, IInv
<1>4. /\ pc = "handover" => is_pass(rest)
      /\ pc = "reason" => found # NoTarget
      /\ pc # "say"
  BY DEF Verb, NoTarget
<1>5. chat[s] \in Seq(Message)
  BY DEF IInv, Tables
<1> HIDE DEF next, pc, found, rest
<1>6. HeardOK(next)
  BY <1>2, <1>4, <1>5 DEF HeardOK, GivesUp
<1>7. PICK d \in RequestState : d = next
  BY <1>3 DEF IInv
<1> QED BY <1>3, <1>6, <1>7, HeardMoves

LEMMA HeardName ==
  ASSUME IInv, IInv', HeardInv, Later, NEW q \in Request, Name(q)
  PROVE  HeardInv'
<1> DEFINE r == req[q]
           found == ByName(r.found, FindIncident(r.from, Nothing, r.loom))
           next == [r EXCEPT !.found = found, !.pc = Verb(r.text, found)]
<1>1. Goes(q, next)
  BY DEF Name
<1>2. r \in RequestState /\ HeardOK(r)
  BY DEF IInv, HeardInv
<1>3. req'[q] = next /\ req' = [req EXCEPT ![q] = next]
  BY <1>1 DEF Goes, IInv
<1> HIDE DEF r, found
<1>4. /\ next.from = r.from /\ next.text = r.text /\ next.found = found
      /\ next.pc = Verb(r.text, found) /\ next.upto = r.upto
  BY <1>2 DEF RequestState
<1>5. /\ Verb(r.text, found) = "handover" => is_pass(r.text)
      /\ Verb(r.text, found) = "reason" => found # NoTarget
      /\ Verb(r.text, found) # "say"
  BY DEF Verb, NoTarget
<1> HIDE DEF next
<1>6. HeardOK(next)
  BY <1>2, <1>4, <1>5 DEF HeardOK, GivesUp
<1>7. PICK d \in RequestState : d = next
  BY <1>3 DEF IInv
<1> QED BY <1>3, <1>6, <1>7, HeardMoves

\* Only who quoted a message is refused.
LEMMA HeardRefuse ==
  ASSUME IInv, IInv', HeardInv, Later, NEW q \in Request, Refuse(q)
  PROVE  HeardInv'
<1> DEFINE r == req[q]
           ack == Refusal(chat[r.from][r.quotes])
           next == [r EXCEPT !.pc = "say", !.ack = ack]
<1>1. r.pc = "refuse" /\ Goes(q, next)
  BY DEF Refuse
<1>2. r \in RequestState /\ HeardOK(r) /\ r.quotes # Nothing
  BY <1>1 DEF IInv, HeardInv, RequestOK, RefusalOK
<1>3. req'[q] = next /\ req' = [req EXCEPT ![q] = next]
  BY <1>1 DEF Goes, IInv
<1> HIDE DEF r, ack
<1>4. next.from = r.from /\ next.pc = "say" /\ next.quotes = r.quotes /\ next.upto = r.upto
  BY <1>2 DEF RequestState
<1> HIDE DEF next
<1>5. HeardOK(next)
  BY <1>2, <1>4 DEF HeardOK, GivesUp
<1>6. PICK d \in RequestState : d = next
  BY <1>3 DEF IInv
<1> QED BY <1>3, <1>5, <1>6, HeardMoves

\* What hands a job over is no answer.
LEMMA HeardHandOver ==
  ASSUME IInv, IInv', HeardInv, Later, NEW q \in Request, HandOver(q)
  PROVE  HeardInv'
<1> DEFINE r == req[q]
           i == IF r.found = NoTarget /\ r.loom # NoLoom
                  THEN FindIncident(r.from, Nothing, r.loom) ELSE Nothing
           found == IF i # Nothing THEN [kind |-> "reason", id |-> i] ELSE r.found
           next == [r EXCEPT !.pc = "say", !.did = found, !.passed = found # NoTarget,
                             !.ack = IF found = NoTarget THEN "nothing_pending" ELSE "passed"]
<1>1. r.pc = "handover" /\ Goes(q, next)
  BY DEF HandOver
<1>2. r \in RequestState /\ HeardOK(r) /\ is_pass(r.text)
  BY <1>1 DEF IInv, HeardInv, HeardOK
<1>3. req'[q] = next /\ req' = [req EXCEPT ![q] = next]
  BY <1>1 DEF Goes, IInv
<1> HIDE DEF r, found
<1>4. next.from = r.from /\ next.pc = "say" /\ next.text = r.text /\ next.upto = r.upto
  BY <1>2 DEF RequestState
<1>5. parse(r.text) = NoCode
  BY <1>2 DEF is_pass, parse
<1> HIDE DEF next
<1>6. HeardOK(next)
  BY <1>2, <1>4, <1>5 DEF HeardOK, GivesUp
<1>7. PICK d \in RequestState : d = next
  BY <1>3 DEF IInv
<1> QED BY <1>3, <1>6, <1>7, HeardMoves

LEMMA HeardEta ==
  ASSUME IInv, IInv', HeardInv, Later, NEW q \in Request, Eta(q)
  PROVE  HeardInv'
<1> DEFINE r == req[q]
           done == [r EXCEPT !.pc = "say", !.did = r.found, !.ack = "eta"]
           late == [r EXCEPT !.pc = "find"]
<1>1. r.pc = "eta" /\ (Goes(q, done) \/ Goes(q, late))
  BY DEF Eta
<1>2. r \in RequestState /\ HeardOK(r) /\ r.found # NoTarget
  BY <1>1 DEF IInv, HeardInv, RequestOK, NoTarget
<1> HIDE DEF r
<1>3. /\ done.from = r.from /\ done.pc = "say" /\ done.did = r.found /\ done.upto = r.upto
      /\ late.from = r.from /\ late.pc = "find" /\ late.upto = r.upto
  BY <1>2 DEF RequestState
<1> HIDE DEF done, late
<1>4. HeardOK(done) /\ HeardOK(late)
  BY <1>2, <1>3 DEF HeardOK, GivesUp
<1>5. PICK d \in RequestState : d = req'[q] /\ d \in {done, late} /\ req' = [req EXCEPT ![q] = d]
  BY <1>1 DEF Goes, IInv
<1>6. HeardOK(d)
  BY <1>4, <1>5
<1> QED BY <1>5, <1>6, HeardMoves

LEMMA HeardFind ==
  ASSUME IInv, IInv', HeardInv, Later, NEW q \in Request, Find(q)
  PROVE  HeardInv'
<1> DEFINE r == req[q]
           i == FindIncident(r.from, r.quotes, r.loom)
           found == IF i = Nothing THEN NoTarget ELSE [kind |-> "reason", id |-> i]
           next == [r EXCEPT !.pc = "reason", !.found = found]
<1>1. Goes(q, next)
  BY DEF Find
<1>2. Tables /\ r \in RequestState /\ HeardOK(r)
  BY DEF IInv, HeardInv
<1>3. req'[q] = next /\ req' = [req EXCEPT ![q] = next]
  BY <1>1 DEF Goes, IInv
<1>4. found = NoTarget /\ r.quotes = Nothing => FindIncident(r.from, Nothing, r.loom) = Nothing
  BY DEF NoTarget
<1> HIDE DEF r, found
<1>5. /\ next.from = r.from /\ next.pc = "reason" /\ next.found = found
      /\ next.quotes = r.quotes /\ next.upto = r.upto
  BY <1>2 DEF RequestState
<1>6. found = NoTarget /\ r.quotes = Nothing => NothingOpen(r)
  BY <1>2, <1>4, FoundNothing
<1> HIDE DEF next
<1>7. HeardOK(next)
  BY <1>2, <1>5, <1>6 DEF HeardOK, GivesUp, NothingOpen
<1>8. PICK d \in RequestState : d = next
  BY <1>3 DEF IInv
<1> QED BY <1>3, <1>7, <1>8, HeardMoves

LEMMA HeardReason ==
  ASSUME IInv, IInv', HeardInv, Later, NEW q \in Request, Reason(q)
  PROVE  HeardInv'
<1> DEFINE r == req[q]
           code == parse(r.text)
           ack == IF code = NoCode /\ Length(r.text) > 0 THEN "unparsed" ELSE "none"
           said == [r EXCEPT !.pc = "say", !.ack = ack]
           done == [r EXCEPT !.pc = "say", !.did = r.found, !.ack = "reason"]
<1>1. /\ r.pc = "reason"
      /\ \/ /\ r.found # NoTarget
            /\ req' = [req EXCEPT ![q].pc = "say", ![q].did = r.found, ![q].ack = "reason"]
         \/ (code = NoCode \/ r.found = NoTarget) /\ Goes(q, said)
  BY DEF Reason
<1>2. r \in RequestState /\ HeardOK(r) /\ req \in [Request -> RequestState]
  BY DEF IInv, HeardInv
<1>3. ASSUME req' = [req EXCEPT ![q].pc = "say", ![q].did = r.found, ![q].ack = "reason"]
      PROVE  req' = [req EXCEPT ![q] = done]
  BY <1>3, <1>2
<1> HIDE DEF r, ack
<1>4. /\ done.from = r.from /\ done.pc = "say" /\ done.did = r.found /\ done.upto = r.upto
      /\ said.from = r.from /\ said.pc = "say" /\ said.text = r.text /\ said.upto = r.upto
      /\ said.quotes = r.quotes
  BY <1>2 DEF RequestState
<1> HIDE DEF done, said
<1>5. CASE r.found # NoTarget /\ req' = [req EXCEPT ![q] = done]
  <2>1. HeardOK(done)
    BY <1>2, <1>4, <1>5 DEF HeardOK, GivesUp
  <2>2. PICK d \in RequestState : d = done
    BY <1>2, <1>5 DEF IInv
  <2> QED BY <1>5, <2>1, <2>2, HeardMoves
<1>6. CASE (code = NoCode \/ r.found = NoTarget) /\ Goes(q, said)
  <2>1. HeardOK(said)
    BY <1>1, <1>2, <1>4, <1>6 DEF HeardOK, GivesUp, NothingOpen
  <2>2. req' = [req EXCEPT ![q] = said]
    BY <1>6 DEF Goes
  <2>3. PICK d \in RequestState : d = said
    BY <1>2, <2>2 DEF IInv
  <2> QED BY <2>1, <2>2, <2>3, HeardMoves
<1> QED BY <1>1, <1>3, <1>5, <1>6

LEMMA HeardEnds ==
  ASSUME IInv, IInv', HeardInv, Later, NEW q \in Request, Goes(q, Idle)
  PROVE  HeardInv'
<1>1. req' = [req EXCEPT ![q] = Idle]
  BY DEF Goes
<1>2. Idle \in RequestState
  BY IdleOK DEF IInv
<1>3. Idle.upto = 0 /\ Idle.pc = "idle"
  BY DEF Idle
<1>4. chat[Idle.from] \in Seq(Message)
  BY <1>2 DEF IInv, Tables, RequestState
<1>5. HeardOK(Idle)
  BY <1>3, <1>4 DEF HeardOK, GivesUp
<1> QED BY <1>1, <1>2, <1>5, HeardMoves

LEMMA HeardSteps == IInv /\ HeardInv /\ [Next]_vars => HeardInv'
<1> SUFFICES ASSUME IInv, HeardInv, [Next]_vars PROVE HeardInv'
  OBVIOUS
<1>1. Later /\ IInv'
  BY Steps
<1>2. CASE Lifecycle
  BY <1>1, <1>2, HeardOthers DEF Lifecycle, Stops, CodedElsewhere, Resolves, Asks, Reminds, Queue
<1>3. ASSUME NEW q \in Request, Arrives(q) PROVE HeardInv'
  BY <1>1, <1>3, HeardReceive DEF Arrives
<1>4. ASSUME NEW q \in Request, Handle(q) PROVE HeardInv'
  <2>1. CASE Say(q)
    BY <1>1, <2>1, HeardEnds DEF Say
  <2> QED BY <1>1, <1>4, <2>1, HeardName, HeardRefuse, HeardHandOver, HeardEta, HeardFind,
             HeardReason DEF Handle
<1>5. ASSUME NEW q \in Request, Fails(q) PROVE HeardInv'
  BY <1>1, <1>5, HeardEnds DEF Fails
<1>6. CASE UNCHANGED vars
  BY <1>1, <1>6, HeardOthers DEF vars
<1> QED BY <1>2, <1>3, <1>4, <1>5, <1>6 DEF Next

\* An answer that can be read is not dropped while the question it may be for is within
\* the reach of the look-up, whatever others answer, ask or resolve in between: for any
\* limit of the look-up and any number of messages.
THEOREM AnswersAreHeard == Spec => []AnswerIsHeard
<1>1. Init => HeardInv
  BY DEF Init, HeardInv, HeardOK, GivesUp, Idle
<1>2. HeardInv => AnswerIsHeard
  BY DEF HeardInv, HeardOK, GivesUp, NothingOpen, AnswerIsHeard, Did
<1> QED BY <1>1, <1>2, HeardSteps, RepliesIInv, PTL DEF Spec

=============================================================================
