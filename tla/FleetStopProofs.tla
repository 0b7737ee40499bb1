--------------------------- MODULE FleetStopProofs ---------------------------
(***************************************************************************)
(* The properties of FleetStop, for any number of looms, any rules, any    *)
(* fractions and any edits.                                                *)
(*                                                                         *)
(* A code is worked out from the times of the live incidents, the fleet,   *)
(* its fraction and the calendar.  As long as nobody touches those, it is  *)
(* the same whenever it is worked out, once all stops of a batch are       *)
(* raised: so the invariant says what every code of a batch must be, and   *)
(* the properties follow from the rules alone.                             *)
(***************************************************************************)
EXTENDS FleetStop, TLAPS, FiniteSetTheorems, WellFoundedInduction

-----------------------------------------------------------------------------
(* The calendar: one that the panel accepts is a calendar, for days of any    *)
(* length and any three spans.                                             *)

\* Three spans that run back to back and make up one day.
Round(a, b, c) ==
  /\ a.start < b.start /\ b.start < c.start
  /\ a.end = b.start /\ b.end = c.start /\ c.end = a.start

LEMMA AcceptedIsRound ==
  ASSUME NEW cal \in Calendar, Accepted(cal)
  PROVE  \E s, t, u \in Shift :
           /\ Shift = {s, t, u} /\ s # t /\ t # u /\ u # s
           /\ Round(cal[s], cal[t], cal[u])
<1>1. PICK s, t, u \in Shift :
        /\ s # t /\ t # u /\ u # s
        /\ Before(cal, s, t) /\ Before(cal, t, u)
        /\ cal[s].end = cal[t].start
        /\ cal[t].end = cal[u].start
        /\ cal[u].end = cal[s].start
  BY DEF Accepted, BackToBack
<1>2. Shift = {s, t, u}
  BY <1>1 DEF Shift
<1>3. \A x \in Shift : cal[x].start \in Minute /\ cal[x].end \in Minute
  BY DEF Calendar, Span
<1>4. \A x \in Shift : Covered(cal[x]) \in Nat \ {0}
  BY <1>3, DayAssumption DEF Covered, Minutes, Minute
<1>5. Covered(cal[s]) + Covered(cal[t]) + Covered(cal[u]) = DAY
  BY <1>1, <1>4, DayAssumption DEF Accepted, TotalIsOneDay, Shift
<1>6. cal[s].start <= cal[t].start /\ cal[t].start <= cal[u].start
  BY <1>1, <1>3 DEF Before, Minute
<1>7. \A x \in Shift : cal[x].start = cal[x].end => Covered(cal[x]) = DAY
  BY DEF Covered
<1>8. cal[s].start # cal[t].start /\ cal[t].start # cal[u].start
  BY <1>1, <1>4, <1>5, <1>7, DayAssumption
<1>9. Round(cal[s], cal[t], cal[u])
  BY <1>1, <1>3, <1>6, <1>8 DEF Round, Minute
<1> QED BY <1>1, <1>2, <1>9

\* Of three such spans one is on at a time: the last one runs across midnight.
LEMMA RoundIsOn ==
  ASSUME NEW a \in Span, NEW b \in Span, NEW c \in Span, Round(a, b, c), NEW m \in Minute
  PROVE  /\ On(a, m) <=> a.start <= m /\ m < b.start
         /\ On(b, m) <=> b.start <= m /\ m < c.start
         /\ On(c, m) <=> m < a.start \/ c.start <= m
  BY DayAssumption DEF Round, Span, On, Minute

\* What set_shifts accepts has neither gaps nor overlaps: at every minute one shift is
\* on, and the look-up returns it.
THEOREM AcceptedTiles ==
  ASSUME NEW cal \in Calendar, Accepted(cal)
  PROVE  OneShiftOn(cal)
<1>1. PICK s, t, u \in Shift :
        /\ Shift = {s, t, u} /\ s # t /\ t # u /\ u # s
        /\ Round(cal[s], cal[t], cal[u])
  BY AcceptedIsRound
<1>2. \A x \in Shift : cal[x] \in Span
  BY DEF Calendar
<1>3. ASSUME NEW m \in Minute
      PROVE  \E x \in Shift : /\ On(cal[x], m)
                              /\ resolve_shift(cal, m) = x
                              /\ \A y \in Shift \ {x} : ~On(cal[y], m)
  <2>1. /\ On(cal[s], m) <=> cal[s].start <= m /\ m < cal[t].start
        /\ On(cal[t], m) <=> cal[t].start <= m /\ m < cal[u].start
        /\ On(cal[u], m) <=> m < cal[s].start \/ cal[u].start <= m
    BY <1>1, <1>2, RoundIsOn
  <2>2. /\ cal[s].start \in Int /\ cal[t].start \in Int /\ cal[u].start \in Int
        /\ m \in Int
        /\ cal[s].start < cal[t].start /\ cal[t].start < cal[u].start
    BY <1>1, <1>2 DEF Round, Span, Minute
  <2>3. \E x \in {s, t, u} : On(cal[x], m) /\ \A y \in {s, t, u} \ {x} : ~On(cal[y], m)
    BY <2>1, <2>2
  <2>4. PICK x \in Shift : On(cal[x], m) /\ \A y \in Shift \ {x} : ~On(cal[y], m)
    BY <2>3, <1>1
  <2>5. resolve_shift(cal, m) = x
    BY <2>4 DEF resolve_shift, Shift
  <2> QED BY <2>4, <2>5
<1> QED BY <1>3 DEF OneShiftOn

\* The minutes the classifier takes for a changeover are those at which the shift on
\* duty changes: the two readings of the calendar cannot drift apart.
THEOREM AcceptedBoundaries ==
  ASSUME NEW cal \in Calendar, Accepted(cal)
  PROVE  BoundaryIsChange(cal)
<1>1. PICK s, t, u \in Shift :
        /\ Shift = {s, t, u} /\ s # t /\ t # u /\ u # s
        /\ Round(cal[s], cal[t], cal[u])
  BY AcceptedIsRound
<1> DEFINE a == cal[s].start
           b == cal[t].start
           c == cal[u].start
           on(m) == IF a <= m /\ m < b THEN s ELSE IF b <= m /\ m < c THEN t ELSE u
<1>2. cal[s] \in Span /\ cal[t] \in Span /\ cal[u] \in Span
  BY DEF Calendar
<1>3. /\ a \in Int /\ b \in Int /\ c \in Int /\ DAY \in Int
      /\ 0 <= a /\ a < b /\ b < c /\ c < DAY
  BY <1>1, <1>2, DayAssumption DEF Round, Span, Minute
<1>4. ASSUME NEW m \in Minute PROVE resolve_shift(cal, m) = on(m)
  <2>1. On(cal[on(m)], m)
    <3>1. /\ On(cal[s], m) <=> a <= m /\ m < b
          /\ On(cal[t], m) <=> b <= m /\ m < c
          /\ On(cal[u], m) <=> m < a \/ c <= m
      BY <1>1, <1>2, RoundIsOn
    <3>2. m \in Int
      BY <1>3 DEF Minute
    <3> QED BY <3>1, <3>2, <1>3
  <2>2. \E x \in Shift : resolve_shift(cal, m) = x /\ \A y \in Shift \ {x} : ~On(cal[y], m)
    BY AcceptedTiles DEF OneShiftOn
  <2>3. on(m) \in Shift
    OBVIOUS
  <2> QED BY <2>1, <2>2, <2>3
<1>5. ASSUME NEW m \in Minute
      PROVE  within_shift_boundary(cal, m, 1) <=> m \in {a, b, c}
  <2>1. \A x \in Minute : Minutes(x, m) < 1 <=> x = m
    BY <1>3 DEF Minutes, Minute
  <2>2. \A x \in Shift : cal[x].start \in Minute
    BY DEF Calendar, Span
  <2> QED BY <2>1, <2>2, <1>1 DEF within_shift_boundary
<1>6. ASSUME NEW m \in Minute
      PROVE  /\ Previous(m) \in Minute
             /\ m \in {a, b, c} <=> on(m) # on(Previous(m))
  <2>1. m \in Int /\ 0 <= m /\ m < DAY
    BY <1>3 DEF Minute
  <2>2. Previous(m) \in Minute
    BY <2>1, <1>3 DEF Previous, Minute
  <2>3. CASE m = 0
    <3>1. Previous(m) = DAY - 1 /\ on(Previous(m)) = u
      BY <2>3, <1>3 DEF Previous
    <3>2. on(m) = s <=> m = a
      BY <2>3, <1>1, <1>3
    <3>3. on(m) \in {s, u}
      BY <2>3, <1>3
    <3> QED BY <3>1, <3>2, <3>3, <2>2, <2>3, <1>1, <1>3
  <2>4. CASE m # 0
    <3>1. Previous(m) = m - 1
      BY <2>4 DEF Previous
    <3>2. m \in {a, b, c} <=> on(m) # on(m - 1)
      BY <2>1, <2>4, <1>1, <1>3
    <3> QED BY <3>1, <3>2, <2>2
  <2> QED BY <2>3, <2>4
<1> QED BY <1>4, <1>5, <1>6 DEF BoundaryIsChange

-----------------------------------------------------------------------------
(* The classifier.                                                         *)

\* The stops of a batch: seen by its poll, classified once all of them are raised.
BatchOK ==
  /\ poller.batch \subseteq standing /\ poller.batch \cap poller.events = {}
  /\ poller.events # {} => poller.new = poller.batch
  /\ ~poller.touched => \A l \in poller.batch : Live(l)

\* No incident is newer than the poll, and those it raised are of looms that stood.
TimesOK ==
  \A l \in Looms :
    /\ inc[l].status # "none" => inc[l].opened <= now
    /\ Live(l) /\ inc[l].opened = now => l \in standing \ poller.events

\* Every code of the batch is the one that would be given now.
CodesOK ==
  ~poller.touched /\ poller.events = {} =>
    \A l \in poller.batch \ poller.new : inc[l].code = classify_at_open(now)

IInv == TypeOK /\ Accepted(calendar) /\ BatchOK /\ TimesOK /\ CodesOK

-----------------------------------------------------------------------------
(* The rules. *)

LEMMA NatOrder == IsWellFoundedOn({p \in Nat \X Nat : p[1] < p[2]}, Nat)
  BY NatLessThanWellFounded DEF OpToRel

\* Some rule of those that apply is the first one.
LEMMA FirstOf ==
  ASSUME NEW S \in SUBSET Nat, S # {}
  PROVE  (CHOOSE k \in S : \A j \in S : k <= j) \in S
<1> DEFINE R == {p \in Nat \X Nat : p[1] < p[2]}
<1>1. PICK x \in S : \A y \in S : <<y, x>> \notin R
  <2> HIDE DEF R
  <2>1. IsWellFoundedOn(R, Nat)
    BY NatOrder DEF R
  <2> QED BY <2>1, WFMin
<1>2. \A y \in S : x <= y
  <2>1. ASSUME NEW y \in S, y < x PROVE FALSE
    <3>1. <<y, x>> \in R
      BY <2>1
    <3> QED BY <3>1, <1>1
  <2> QED BY <2>1
<1> QED BY <1>2

LEMMA CodeIsCode ==
  ASSUME NEW time \in Nat
  PROVE  classify_at_open(time) \in Codes \cup {NoCode}
<1> DEFINE fits == {k \in DOMAIN Rules : Applies(Rules[k], time)}
<1>1. fits \in SUBSET Nat
  BY FleetAssumption
<1>2. CASE fits = {}
  BY <1>2 DEF classify_at_open
<1>3. CASE fits # {}
  <2>1. (CHOOSE k \in fits : \A j \in fits : k <= j) \in fits
    <3> HIDE DEF fits
    <3> QED BY <1>1, <1>3, FirstOf
  <2> QED BY <2>1, <1>3 DEF classify_at_open, Codes
<1> QED BY <1>2, <1>3

LEMMA ThresholdIsInt ==
  ASSUME NEW n \in Nat, NEW f \in Nat \X (Nat \ {0})
  PROVE  Threshold(n, f) \in Int
<1>1. PICK p \in Nat, q \in Nat \ {0} : f = <<p, q>>
  OBVIOUS
<1> DEFINE one == IF n = 0 THEN 1 ELSE n
           k == one * p
<1>2. k \in Nat
  BY <1>1
<1>3. (k + q - 1) \div q \in Int
  BY <1>1, <1>2
<1> QED BY <1>1, <1>3 DEF Threshold

\* The threshold of a fleet is no larger than the fleet, unless that is one loom.
LEMMA ThresholdFits ==
  ASSUME NEW n \in Nat, n > 1, NEW f \in Fractions
  PROVE  Threshold(n, f) \in Nat /\ Threshold(n, f) <= n
<1>1. PICK p \in Nat, q \in Nat \ {0} : f = <<p, q>> /\ 0 < p /\ p <= q
  BY FleetAssumption
<1>2. n * p <= n * q /\ n * p \in Nat /\ n * q \in Nat
  BY <1>1
<1> DEFINE k == n * p
           m == n * q
           share == (k + q - 1) \div q
<1>3. share \in Nat /\ share <= n
  BY <1>1, <1>2
<1> QED BY <1>1, <1>3 DEF Threshold

-----------------------------------------------------------------------------
(* A step that leaves what the rules look at leaves the code. *)

LEMMA SameCode ==
  ASSUME \A l \in Looms : (Live(l)' <=> Live(l)) /\ (Live(l) => inc[l].opened' = inc[l].opened),
         UNCHANGED <<asset, calendar, fraction, now>>
  PROVE  classify_at_open(now)' = classify_at_open(now)
<1>1. \A window : _stopped_within(now, window)' = _stopped_within(now, window)
  <2> TAKE window
  <2>1. {l \in Looms : Live(l)' /\ now' - window <= inc[l].opened' /\ inc[l].opened' <= now'}
          = {l \in Looms : Live(l) /\ now - window <= inc[l].opened /\ inc[l].opened <= now}
    OBVIOUS
  <2> QED BY <2>1 DEF _stopped_within
<1>2. _fleet_threshold' = _fleet_threshold
  BY DEF _fleet_threshold, Active
<1>3. \A rule : Applies(rule, now)' <=> Applies(rule, now)
  BY <1>1, <1>2 DEF Applies
<1> DEFINE fits == {k \in DOMAIN Rules : Applies(Rules[k], now)}
           code(S) == IF S = {} THEN NoCode
                      ELSE Rules[CHOOSE k \in S : \A j \in S : k <= j].code
<1>4. fits' = fits
  BY <1>3
<1>5. classify_at_open(now) = code(fits) /\ classify_at_open(now)' = code(fits')
  BY DEF classify_at_open
<1> HIDE DEF fits
<1> QED BY <1>4, <1>5

-----------------------------------------------------------------------------
(* The steps. *)

LEMMA Start == Init => IInv
<1> SUFFICES ASSUME Init PROVE IInv
  OBVIOUS
<1>1. TypeOK
  BY FleetAssumption DEF Init, TypeOK, Incident, Poller, Time, NoCode
<1>2. TimesOK
  BY DEF Init, TimesOK, Live
<1> QED BY <1>1, <1>2 DEF Init, IInv, BatchOK, CodesOK

\* A poll begins a batch, later than every incident.
LEMMA PollOK ==
  ASSUME IInv, NEW seen \in SUBSET Looms, Poll(seen)
  PROVE  IInv'
<1>1. now \in Int /\ now' \in Int /\ now < now' /\ now' \in Time
  BY FleetAssumption DEF IInv, TypeOK, Time, Poll
<1>2. TypeOK'
  BY <1>1 DEF IInv, TypeOK, Poll, Poller, Incident
<1>3. \A l \in Looms : inc[l].opened \in Int
  BY FleetAssumption DEF IInv, TypeOK, Incident, Time
<1>4. TimesOK'
  BY <1>1, <1>3 DEF IInv, TimesOK, Poll, Live
<1> QED BY <1>2, <1>4 DEF IInv, Poll, BatchOK, CodesOK

\* What a change by anybody else has to leave alone.
LEMMA TouchOK ==
  ASSUME IInv, Touch, TypeOK', Accepted(calendar)',
         \A l \in Looms : /\ inc'[l].opened = inc[l].opened
                          /\ Live(l)' => Live(l)
                          /\ inc'[l].status # "none" => inc[l].status # "none"
  PROVE  IInv'
<1>1. /\ poller'.touched /\ poller'.batch = poller.batch
      /\ poller'.new = poller.new /\ poller'.events = poller.events
  BY DEF IInv, TypeOK, Poller, Touch
<1>2. TimesOK'
  BY <1>1 DEF IInv, TimesOK, Touch
<1> QED BY <1>1, <1>2 DEF IInv, BatchOK, CodesOK, Touch

LEMMA ClosedOK ==
  ASSUME TypeOK, NEW l \in Looms, inc' = [inc EXCEPT ![l].status = "resolved"], Live(l)
  PROVE  /\ inc' \in [Looms -> Incident]
         /\ \A m \in Looms : /\ inc'[m].opened = inc[m].opened
                             /\ Live(m)' => Live(m)
                             /\ inc'[m].status # "none" <=> inc[m].status # "none"
<1>1. inc \in [Looms -> Incident]
  BY DEF TypeOK
<1>2. [inc[l] EXCEPT !.status = "resolved"] \in Incident
  BY <1>1 DEF Incident
<1>3. inc' = [inc EXCEPT ![l] = [inc[l] EXCEPT !.status = "resolved"]]
  BY <1>1
<1>4. inc' \in [Looms -> Incident]
  BY <1>1, <1>2, <1>3
<1>5. \A m \in Looms : inc'[m] = IF m = l THEN [inc[m] EXCEPT !.status = "resolved"] ELSE inc[m]
  BY <1>1
<1>6. \A m \in Looms : inc[m] \in Incident
  BY <1>1
<1> QED BY <1>4, <1>5, <1>6 DEF Incident, Live

\* The poller is typed after Touch, and so is a counter of edits.
LEMMA TouchTyped ==
  ASSUME TypeOK, Touch, Edits \/ UNCHANGED edits,
         \A l \in Looms : inc'[l].opened = inc[l].opened
                          /\ (inc'[l].status # "none" <=> inc[l].status # "none"),
         inc' \in [Looms -> Incident], offplan' \subseteq Looms,
         asset' \in [Looms -> {"unknown", "active", "retired"}],
         calendar' \in Calendar, fraction' \in Fractions
  PROVE  TypeOK'
<1>1. poller' \in Poller /\ poller'.batch = poller.batch /\ poller'.new = poller.new
  BY DEF TypeOK, Poller, Touch
<1>2. edits' \in 0 .. MaxEdits
  BY FleetAssumption DEF TypeOK, Edits
<1>3. \A l \in poller.batch : l \in Looms
  BY DEF TypeOK, Poller
<1> QED BY <1>1, <1>2, <1>3 DEF TypeOK, Touch

LEMMA EndsOK ==
  ASSUME IInv, NEW l \in Looms, Commit(l) \/ Decommission(l) \/ SetOffplan(l)
  PROVE  IInv'
<1>1. Touch /\ UNCHANGED <<calendar, fraction>> /\ (Edits \/ UNCHANGED edits)
  BY DEF Commit, Decommission, SetOffplan
<1>2. \/ Live(l) /\ inc' = [inc EXCEPT ![l].status = "resolved"]
      \/ UNCHANGED inc
  BY DEF Commit, Decommission, SetOffplan, Closed, Live
<1>3. /\ inc' \in [Looms -> Incident]
      /\ \A m \in Looms : inc'[m].opened = inc[m].opened
      /\ \A m \in Looms : Live(m)' => Live(m)
      /\ \A m \in Looms : inc'[m].status # "none" <=> inc[m].status # "none"
  <2>1. CASE UNCHANGED inc
    BY <2>1 DEF IInv, TypeOK, Live
  <2> QED BY <1>2, <2>1, ClosedOK DEF IInv
<1>4. asset' \in [Looms -> {"unknown", "active", "retired"}] /\ offplan' \subseteq Looms
  BY DEF IInv, TypeOK, Commit, Decommission, SetOffplan
<1>5. TypeOK'
  BY <1>1, <1>3, <1>4, TouchTyped DEF IInv, TypeOK
<1> QED BY <1>1, <1>3, <1>5, TouchOK DEF IInv

LEMMA EditsOK ==
  ASSUME IInv,
         \/ \E l \in Looms : Recommission(l) \/ OffplanEnds(l)
         \/ \E f \in Fractions, acknowledged \in BOOLEAN : set_detection(f, acknowledged)
         \/ \E c \in Calendars : set_shifts(c)
  PROVE  IInv'
<1>1. Touch /\ UNCHANGED inc /\ (Edits \/ UNCHANGED edits)
  BY DEF Recommission, OffplanEnds, set_detection, set_shifts
<1>2. asset' \in [Looms -> {"unknown", "active", "retired"}] /\ offplan' \subseteq Looms
  BY DEF IInv, TypeOK, Recommission, OffplanEnds, set_detection, set_shifts
<1>3. fraction' \in Fractions /\ calendar' \in Calendar /\ Accepted(calendar')
  BY FleetAssumption DEF IInv, TypeOK, Recommission, OffplanEnds, set_detection, set_shifts
<1>4. TypeOK'
  BY <1>1, <1>2, <1>3, TouchTyped DEF IInv, TypeOK
<1> QED BY <1>1, <1>3, <1>4, TouchOK DEF Live

\* A batch that fails is forgotten.
LEMMA FailsOK ==
  ASSUME IInv, Fails
  PROVE  IInv'
<1>1. /\ poller' \in Poller /\ poller'.batch = {} /\ poller'.new = {} /\ poller'.events = {}
      /\ UNCHANGED <<now, standing, asset, offplan, inc, calendar, fraction, edits>>
  BY DEF IInv, TypeOK, Poller, Fails
<1> QED BY <1>1 DEF IInv, TypeOK, BatchOK, TimesOK, CodesOK, Live

\* A loom that runs again is not of those the batch raised.
LEMMA ResumedOK ==
  ASSUME IInv, NEW l \in Looms, Resumed(l)
  PROVE  IInv'
<1> USE DEF IInv
<1>1. /\ poller' \in Poller /\ poller'.batch = poller.batch /\ poller'.new = poller.new
      /\ poller'.events = poller.events \ {l} /\ poller'.touched = poller.touched
      /\ l \in poller.events /\ l \notin standing
      /\ UNCHANGED <<now, standing, asset, offplan, calendar, fraction, edits>>
  BY DEF TypeOK, Poller, Resumed, Applied
<1>2. inc' \in [Looms -> Incident]
      /\ \A m \in Looms : /\ inc'[m].opened = inc[m].opened /\ inc'[m].code = inc[m].code
                          /\ (Live(m)' <=> Live(m))
                          /\ inc'[m].status # "none" <=> inc[m].status # "none"
  <2>1. CASE UNCHANGED inc
    BY <2>1 DEF TypeOK, Live
  <2>2. CASE Live(l) /\ inc' = [inc EXCEPT ![l].status = "resolving"]
    <3>1. inc \in [Looms -> Incident]
      BY DEF TypeOK
    <3>2. [inc[l] EXCEPT !.status = "resolving"] \in Incident
      BY <3>1 DEF Incident
    <3>3. \A m \in Looms : inc[m] \in Incident
      BY <3>1
    <3> QED BY <2>2, <3>1, <3>2, <3>3 DEF Incident, Live
  <2> QED BY <2>1, <2>2 DEF Resumed
<1>3. TypeOK'
  BY <1>1, <1>2 DEF TypeOK, Poller
<1>4. BatchOK'
  BY <1>1, <1>2 DEF BatchOK, TypeOK, Poller
<1>5. TimesOK'
  BY <1>1, <1>2 DEF TimesOK
<1>6. CodesOK'
  <2>1. poller.new = poller.batch
    BY <1>1 DEF BatchOK
  <2> QED BY <1>1, <2>1 DEF CodesOK
<1> QED BY <1>1, <1>3, <1>4, <1>5, <1>6

LEMMA StoppedOK ==
  ASSUME IInv, NEW l \in Looms, Stopped(l)
  PROVE  IInv'
<1> USE DEF IInv
<1>1. /\ l \in poller.events /\ l \in standing /\ poller.new = poller.batch
      /\ UNCHANGED <<now, standing, offplan, calendar, fraction, edits>>
  BY DEF Stopped, BatchOK
<1>2. poller \in Poller /\ inc \in [Looms -> Incident] /\ \A m \in Looms : inc[m] \in Incident
  BY DEF TypeOK
<1>3. CASE /\ poller' = Applied(l) /\ UNCHANGED asset
           /\ \/ UNCHANGED inc
              \/ Live(l) /\ inc' = [inc EXCEPT ![l].status = "open"]
  <2>1. /\ poller' \in Poller /\ poller'.batch = poller.batch /\ poller'.new = poller.new
        /\ poller'.events = poller.events \ {l} /\ poller'.touched = poller.touched
    BY <1>2, <1>3 DEF Poller, Applied
  <2>2. inc' \in [Looms -> Incident]
        /\ \A m \in Looms : /\ inc'[m].opened = inc[m].opened
                            /\ (Live(m)' <=> Live(m))
                            /\ inc'[m].status # "none" <=> inc[m].status # "none"
    <3>1. CASE UNCHANGED inc
      BY <1>2, <3>1 DEF Live
    <3>2. CASE Live(l) /\ inc' = [inc EXCEPT ![l].status = "open"]
      <4>1. [inc[l] EXCEPT !.status = "open"] \in Incident
        BY <1>2 DEF Incident
      <4> QED BY <1>2, <3>2, <4>1 DEF Incident, Live
    <3> QED BY <1>3, <3>1, <3>2
  <2>3. TypeOK'
    BY <1>1, <1>3, <2>1, <2>2 DEF TypeOK, Poller
  <2>4. BatchOK'
    BY <1>1, <2>1, <2>2 DEF BatchOK, TypeOK, Poller
  <2>5. TimesOK'
    BY <1>1, <2>1, <2>2 DEF TimesOK
  <2> QED BY <1>1, <2>1, <2>3, <2>4, <2>5 DEF CodesOK
<1>4. CASE /\ ~Live(l) /\ inc' = Raised(l)
           /\ asset' = [asset EXCEPT ![l] = IF @ = "retired" THEN @ ELSE "active"]
           /\ poller' = [Applied(l) EXCEPT !.new = @ \cup {l}, !.batch = @ \cup {l}]
  <2>1. /\ poller' \in Poller
        /\ poller'.batch = poller.batch \cup {l} /\ poller'.new = poller.new \cup {l}
        /\ poller'.events = poller.events \ {l} /\ poller'.touched = poller.touched
    BY <1>2, <1>4 DEF Poller, Applied
  <2>2. now \in Time /\ NoCode \in Codes \cup {NoCode}
    BY DEF TypeOK
  <2>3. /\ inc' \in [Looms -> Incident]
        /\ Live(l)' /\ inc'[l].opened = now /\ inc'[l].status # "none"
        /\ \A m \in Looms : m # l => inc'[m] = inc[m]
    BY <1>2, <1>4, <2>2 DEF Raised, Incident, Live
  <2>4. asset' \in [Looms -> {"unknown", "active", "retired"}]
    BY <1>4 DEF TypeOK
  <2>5. TypeOK'
    BY <1>1, <2>1, <2>3, <2>4 DEF TypeOK, Poller
  <2>6. BatchOK'
    BY <1>1, <2>1, <2>3 DEF BatchOK, TypeOK, Poller, Live
  <2>7. TimesOK'
    <3>1. now \in Int
      BY <2>2, FleetAssumption DEF Time
    <3> QED BY <1>1, <2>1, <2>3, <3>1 DEF TimesOK, Live
  <2> QED BY <1>1, <2>1, <2>5, <2>6, <2>7 DEF CodesOK
<1> QED BY <1>3, <1>4 DEF Stopped

\* A code that is given changes nothing that the rules look at.
LEMMA ClassifyOK ==
  ASSUME IInv, NEW l \in Looms, Classify(l)
  PROVE  IInv'
<1> USE DEF IInv
<1>1. /\ poller \in Poller /\ inc \in [Looms -> Incident] /\ \A m \in Looms : inc[m] \in Incident
      /\ l \in poller.batch /\ inc[l].opened = now /\ now \in Nat
  BY FleetAssumption DEF Classify, TypeOK, Time
<1>2. /\ poller' \in Poller /\ poller'.batch = poller.batch /\ poller'.new = poller.new \ {l}
      /\ poller'.events = {} /\ poller.events = {} /\ poller'.touched = poller.touched
      /\ UNCHANGED <<now, standing, asset, offplan, calendar, fraction, edits>>
  BY <1>1 DEF Classify, Poller
<1>3. /\ inc' \in [Looms -> Incident]
      /\ inc'[l].code = classify_at_open(now)
      /\ \A m \in Looms : m # l => inc'[m] = inc[m]
      /\ \A m \in Looms : inc'[m].opened = inc[m].opened /\ inc'[m].status = inc[m].status
  <2> DEFINE row == [inc[l] EXCEPT !.code = classify_at_open(now)]
  <2>1. row \in Incident
    BY <1>1, CodeIsCode DEF Incident
  <2>2. inc' = [inc EXCEPT ![l] = row]
    BY <1>1 DEF Classify
  <2>3. row.code = classify_at_open(now) /\ row.opened = inc[l].opened /\ row.status = inc[l].status
    BY <1>1 DEF Incident
  <2> HIDE DEF row
  <2> QED BY <1>1, <2>1, <2>2, <2>3
<1>4. \A m \in Looms : Live(m)' <=> Live(m)
  BY <1>3 DEF Live
<1>5. classify_at_open(now)' = classify_at_open(now)
  BY <1>2, <1>3, <1>4, SameCode
<1>6. TypeOK'
  BY <1>2, <1>3 DEF TypeOK, Poller
<1>7. BatchOK'
  BY <1>2, <1>4 DEF BatchOK, TypeOK, Poller
<1>8. TimesOK'
  BY <1>2, <1>3, <1>4 DEF TimesOK
<1>9. CodesOK'
  <2>1. \A m \in poller.batch : m \in Looms
    BY <1>1 DEF Poller
  <2> QED BY <1>2, <1>3, <1>5, <2>1 DEF CodesOK
<1> QED BY <1>2, <1>6, <1>7, <1>8, <1>9

LEMMA Steps == IInv /\ [Next]_vars => IInv'
<1> SUFFICES ASSUME IInv, [Next]_vars PROVE IInv'
  OBVIOUS
<1>1. CASE UNCHANGED vars
  <2>1. UNCHANGED <<now, standing, asset, offplan, inc, calendar, fraction, poller, edits>>
    BY <1>1 DEF vars
  <2>2. \A l \in Looms : Live(l)' <=> Live(l)
    BY <2>1 DEF Live
  <2>3. classify_at_open(now)' = classify_at_open(now)
    BY <2>1, <2>2, SameCode
  <2>4. \A l \in poller.batch : l \in Looms
    BY DEF IInv, TypeOK, Poller
  <2> QED BY <2>1, <2>2, <2>3, <2>4 DEF IInv, TypeOK, BatchOK, TimesOK, CodesOK
<1>2. CASE Next
  BY <1>2, PollOK, StoppedOK, ResumedOK, ClassifyOK, FailsOK, EndsOK, EditsOK DEF Next
<1> QED BY <1>1, <1>2

-----------------------------------------------------------------------------
(* The theorems. *)

\* Whatever looms do, people edit and batches fail, the invariant holds.
THEOREM FleetIInv == Spec => []IInv
  BY Start, Steps, PTL DEF Spec

\* Tables and poller hold what they may hold.
THEOREM FleetTyped == Spec => []TypeOK
<1>1. IInv => TypeOK
  BY DEF IInv
<1> QED BY <1>1, FleetIInv, PTL

\* However often the calendar is edited, at every minute one shift is on duty and the
\* look-up finds it: no fault is raised on no shift.
THEOREM TheCalendarTiles == Spec => []CalendarTiles
<1>1. IInv => CalendarTiles
  BY AcceptedTiles DEF IInv, TypeOK, CalendarTiles
<1> QED BY <1>1, FleetIInv, PTL

\* However often the calendar is edited, the classifier takes a minute for a changeover
\* if and only if the shift on duty changes at it.
THEOREM TheChangeoverIsChange == Spec => []ChangeoverIsChange
<1>1. IInv => ChangeoverIsChange
  BY AcceptedBoundaries DEF IInv, TypeOK, ChangeoverIsChange
<1> QED BY <1>1, FleetIInv, PTL

\* The stops of a batch get one code, in whatever order they are raised and classified,
\* if no edit, end of a plan or commit of a resolution comes in between.
THEOREM BatchesAreCodedAlike == Spec => []BatchCodedAlike
<1>1. IInv => BatchCodedAlike
  BY DEF IInv, CodesOK, BatchCodedAlike
<1> QED BY <1>1, FleetIInv, PTL

\* The incidents of a batch that nobody touched, counted by any window.
LEMMA BatchCounts ==
  ASSUME IInv, ~poller.touched, NEW window \in Nat
  PROVE  /\ _stopped_within(now, window) \in Nat
         /\ Cardinality(poller.batch) \in Nat
         /\ Cardinality(poller.batch) <= _stopped_within(now, window)
<1> DEFINE S == {l \in Looms : Live(l) /\ now - window <= inc[l].opened /\ inc[l].opened <= now}
<1>1. now \in Nat
  BY FleetAssumption DEF IInv, TypeOK, Time
<1>2. \A l \in poller.batch : l \in Looms /\ Live(l) /\ inc[l].opened = now
  BY DEF IInv, TypeOK, BatchOK, Poller
<1>3. poller.batch \in SUBSET S
  BY <1>1, <1>2
<1>4. IsFiniteSet(S)
  BY FleetAssumption, FS_Subset
<1> QED BY <1>3, <1>4, FS_Subset, FS_CardinalityType DEF _stopped_within

\* When all of a fleet in service stops in one poll and the first rule is that of a
\* power failure, each of these stops is coded by it and none is asked about.
THEOREM TheWholeFleetIsSeen == Spec => []WholeFleetIsSeen
<1>1. ASSUME IInv PROVE WholeFleetIsSeen
  <2> SUFFICES ASSUME ~poller.touched, poller.events = {}, poller.batch = Active,
                      Cardinality(Active) > 1,
                      1 \in DOMAIN Rules, Rules[1].rule = "fleet_stop",
                      NEW l \in poller.batch \ poller.new
               PROVE  inc[l].code = Rules[1].code
    BY DEF WholeFleetIsSeen
  <2> DEFINE fits == {k \in DOMAIN Rules : Applies(Rules[k], now)}
  <2>1. 1 \in DOMAIN Rules /\ Rules[1].window \in Nat
    <3>1. Rules[1] \in Rule
      BY FleetAssumption
    <3> QED BY <3>1 DEF Rule
  <2>2. Applies(Rules[1], now)
    <3>1. _fleet_threshold \in Nat /\ _fleet_threshold <= Cardinality(Active)
      BY <1>1, BatchCounts, ThresholdFits DEF IInv, TypeOK, _fleet_threshold
    <3>2. /\ _stopped_within(now, Rules[1].window) \in Nat
          /\ Cardinality(Active) \in Nat
          /\ Cardinality(Active) <= _stopped_within(now, Rules[1].window)
      BY <1>1, <2>1, BatchCounts
    <3> QED BY <3>1, <3>2 DEF Applies
  <2>3. (CHOOSE k \in fits : \A j \in fits : k <= j) = 1
    <3>1. fits \in SUBSET (Nat \ {0}) /\ 1 \in fits
      BY <2>1, <2>2, FleetAssumption
    <3> HIDE DEF fits
    <3>2. \A j \in fits : 1 <= j
      BY <3>1
    <3>3. \A k \in fits : (\A j \in fits : k <= j) => k = 1
      BY <3>1
    <3> QED BY <3>1, <3>2, <3>3
  <2>4. classify_at_open(now) = Rules[1].code
    BY <2>1, <2>2, <2>3 DEF classify_at_open
  <2> QED BY <1>1, <2>4 DEF IInv, CodesOK
<1> QED BY <1>1, FleetIInv, PTL

\* Where only stops of one poll make a power failure, what is coded one is one: as many
\* looms stood at that poll as the threshold asks for.
THEOREM PowerCutsAreReal ==
  ASSUME \A k \in DOMAIN Rules :
           Rules[k].code = "power_failure" => Rules[k].rule = "fleet_stop" /\ Rules[k].window = 0
  PROVE  Spec => []PowerCutIsReal
<1>1. ASSUME IInv PROVE PowerCutIsReal
  <2> SUFFICES ASSUME ~poller.touched,
                      NEW l \in poller.batch \ poller.new, inc[l].code = "power_failure"
               PROVE  Cardinality(standing) >= _fleet_threshold
    BY DEF PowerCutIsReal
  <2> DEFINE fits == {k \in DOMAIN Rules : Applies(Rules[k], now)}
             first == CHOOSE k \in fits : \A j \in fits : k <= j
             S == {m \in Looms : Live(m) /\ now - 0 <= inc[m].opened /\ inc[m].opened <= now}
  <2>1. classify_at_open(now) = "power_failure"
    BY <1>1 DEF IInv, CodesOK, BatchOK
  <2>2. fits # {} /\ Rules[first].code = "power_failure"
    BY <2>1 DEF classify_at_open, NoCode
  <2>3. first \in fits
    <3>1. fits \in SUBSET Nat
      BY FleetAssumption
    <3> HIDE DEF fits
    <3> QED BY <3>1, <2>2, FirstOf
  <2>4. _stopped_within(now, 0) >= _fleet_threshold
    BY <2>2, <2>3 DEF Applies
  <2>5. S \in SUBSET standing
    <3>1. now \in Int /\ \A m \in Looms : inc[m].opened \in Int
      BY <1>1, FleetAssumption DEF IInv, TypeOK, Incident, Time
    <3> QED BY <1>1, <3>1 DEF IInv, TimesOK
  <2>6. IsFiniteSet(standing) /\ IsFiniteSet(Active)
    BY <1>1, FleetAssumption, FS_Subset DEF IInv, TypeOK, Active
  <2>7. Cardinality(S) <= Cardinality(standing)
    BY <2>5, <2>6, FS_Subset
  <2>8. Cardinality(S) \in Int /\ Cardinality(standing) \in Int
    BY <2>5, <2>6, FS_Subset, FS_CardinalityType
  <2>9. _fleet_threshold \in Int
    <3>1. Cardinality(Active) \in Nat /\ fraction \in Nat \X (Nat \ {0})
      BY <1>1, <2>6, FS_CardinalityType, FleetAssumption DEF IInv, TypeOK
    <3> QED BY <3>1, ThresholdIsInt DEF _fleet_threshold
  <2> QED BY <2>4, <2>7, <2>8, <2>9 DEF _stopped_within
<1> QED BY <1>1, FleetIInv, PTL
=============================================================================
