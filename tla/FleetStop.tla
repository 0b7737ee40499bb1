------------------------------ MODULE FleetStop ------------------------------
(***************************************************************************)
(* When a stop is taken for one of the whole fleet: the rules of           *)
(* app/core/classify.py, the batches of the poller they are applied to,    *)
(* and what people may change under their hands (the calendar of shifts,   *)
(* the fleet fraction, retired looms and looms that are off plan).         *)
(*                                                                         *)
(* An event is stamped with the time of the poll that saw it, so the looms *)
(* may do what they like between two polls: a poll sees which ones stand.  *)
(* Ladders and tickets are left to OpsCore, and so are answers.            *)
(***************************************************************************)
EXTENDS ShiftCalendar, Sequences, FiniteSets

CONSTANTS
  Looms,
  Rules,       \* auto_classify without duration_under, in order
  BOUNDARY_SIMULTANEITY,
  Fractions,   \* the fleet fractions that are tried, as <<numerator, denominator>>
  Calendars,   \* the calendars that are tried
  \* bounds of the model, none of them in the code
  MaxTime, MaxEdits

NoCode == "none"
Rule   == [rule : {"fleet_stop", "fleet_stop_at_boundary"}, window : Nat, code : STRING]
Codes  == {Rules[k].code : k \in DOMAIN Rules}

ASSUME FleetAssumption ==
  /\ Rules \in Seq(Rule) /\ NoCode \notin Codes
  /\ IsFiniteSet(Looms) /\ BOUNDARY_SIMULTANEITY \in Nat
  /\ Calendars \subseteq Calendar /\ \E c \in Calendars : Accepted(c)
  /\ Fractions # {}
  /\ \A f \in Fractions : f \in Nat \X (Nat \ {0}) /\ 0 < f[1] /\ f[1] <= f[2]
  /\ MaxTime \in Nat /\ MaxEdits \in Nat

Time == 0 .. MaxTime

VARIABLES
  now,        \* the time of the last poll
  standing,   \* the looms that stood at the last poll (the source's _last)
  asset,      \* table assets: unknown, active or retired
  offplan,    \* table asset_offplan
  inc,        \* the newest incident of each loom
  calendar, fraction,   \* the live configuration
  poller,     \* apply_events
  edits

vars == <<now, standing, asset, offplan, inc, calendar, fraction, poller, edits>>

Incident == [status : {"none", "open", "resolving", "resolved"}, opened : Time,
             code : Codes \cup {NoCode}]

\* events: the edges not yet applied.  silent: the looms that were retired or off
\* plan when the batch began.  new: the incidents not yet classified.  batch, fleet
\* and touched remember, for the properties, what the batch raised, which looms
\* stood when it was polled, and whether anybody else has changed anything since.
Poller == [events : SUBSET Looms, silent : SUBSET Looms, new : SUBSET Looms,
           batch : SUBSET Looms, touched : BOOLEAN]

Live(l) == inc[l].status \in {"open", "resolving"}
Active  == {l \in Looms : asset[l] = "active"}
InBatch == poller.events # {} \/ poller.new # {}

-----------------------------------------------------------------------------
(* The rules: classify.py. *)

\* max(2, ceil(active * fraction)), of a fleet of at least one.
Threshold(active, f) ==
  LET n == IF active = 0 THEN 1 ELSE active
      share == (n * f[1] + f[2] - 1) \div f[2]
  IN  IF share < 2 THEN 2 ELSE share

\* Mutant of _fleet_threshold: more than the share.
FleetThresholdExceeded == Threshold(Cardinality(Active), fraction) + 1

_fleet_threshold == Threshold(Cardinality(Active), fraction)

\* Mutant of _stopped_within: whatever is live has just stopped.
StoppedAtAll(time, window) == Cardinality({l \in Looms : Live(l)})

_stopped_within(time, window) ==
  Cardinality({l \in Looms : Live(l) /\ time - window <= inc[l].opened /\ inc[l].opened <= time})

\* The first rule that applies to a stop of this time.
Applies(rule, time) ==
  \/ /\ rule.rule = "fleet_stop"
     /\ _stopped_within(time, rule.window) >= _fleet_threshold
  \/ /\ rule.rule = "fleet_stop_at_boundary"
     /\ within_shift_boundary(calendar, time % DAY, rule.window)
     /\ _stopped_within(time, BOUNDARY_SIMULTANEITY) >= _fleet_threshold

classify_at_open(time) ==
  LET fits == {k \in DOMAIN Rules : Applies(Rules[k], time)}
  IN  IF fits = {} THEN NoCode
      ELSE Rules[CHOOSE k \in fits : \A j \in fits : k <= j].code

-----------------------------------------------------------------------------
(* The poller. *)

\* A poll: some looms have stopped since the last one and some run again.  The
\* off-plan and the retired looms are read once for the batch.
Poll(seen) ==
  /\ ~InBatch /\ now < MaxTime
  /\ \E later \in now + 1 .. MaxTime : now' = later
  /\ standing' = seen
  /\ poller' = [events |-> {l \in Looms : (l \in seen) # (l \in standing)},
                silent |-> {l \in Looms : asset[l] = "retired"} \cup offplan,
                new |-> {}, batch |-> {}, touched |-> FALSE]
  /\ UNCHANGED <<asset, offplan, inc, calendar, fraction, edits>>

Applied(l) == [poller EXCEPT !.events = @ \ {l}]

\* The row of an incident that is raised.
Raised(l) == [inc EXCEPT ![l] = [status |-> "open", opened |-> now, code |-> NoCode]]

\* A stop raises an incident; of a live one the grace ends.  Registering a
\* loom makes it active, unless it is retired.
Stopped(l) ==
  /\ l \in poller.events \cap standing
  /\ \/ l \in poller.silent /\ poller' = Applied(l) /\ UNCHANGED <<inc, asset>>
     \/ /\ l \notin poller.silent /\ Live(l)
        /\ inc' = [inc EXCEPT ![l].status = "open"]
        /\ poller' = Applied(l) /\ UNCHANGED asset
     \/ /\ l \notin poller.silent /\ ~Live(l)
        /\ inc' = Raised(l)
        /\ asset' = [asset EXCEPT ![l] = IF @ = "retired" THEN @ ELSE "active"]
        /\ poller' = [Applied(l) EXCEPT !.new = @ \cup {l}, !.batch = @ \cup {l}]
  /\ UNCHANGED <<now, standing, offplan, calendar, fraction, edits>>

\* A loom that runs again: its incident is in its grace from now on.
Resumed(l) ==
  /\ l \in poller.events \ standing
  /\ poller' = Applied(l)
  /\ inc' = IF Live(l) THEN [inc EXCEPT ![l].status = "resolving"] ELSE inc
  /\ UNCHANGED <<now, standing, asset, offplan, calendar, fraction, edits>>

\* Mutant of Classify: each incident is classified as soon as it is raised.
ClassifyAtOnce(l) ==
  /\ l \in poller.new
  /\ poller' = [poller EXCEPT !.new = @ \ {l}]
  /\ inc' = [inc EXCEPT ![l].code = classify_at_open(inc[l].opened)]
  /\ UNCHANGED <<now, standing, asset, offplan, calendar, fraction, edits>>

\* on_open, once the whole batch is raised.  Without a code the ladder starts.
Classify(l) ==
  /\ poller.events = {} /\ l \in poller.new
  /\ poller' = [poller EXCEPT !.new = @ \ {l}]
  /\ inc' = [inc EXCEPT ![l].code = classify_at_open(inc[l].opened)]
  /\ UNCHANGED <<now, standing, asset, offplan, calendar, fraction, edits>>

\* The batch raises an exception, or the process dies: nobody takes it up again.
Fails ==
  /\ InBatch
  /\ poller' = [poller EXCEPT !.events = {}, !.new = {}, !.batch = {}]
  /\ UNCHANGED <<now, standing, asset, offplan, inc, calendar, fraction, edits>>

-----------------------------------------------------------------------------
(* Everybody else. *)

\* Something is changed that the rules look at.
Touch ==
  /\ poller' = [poller EXCEPT !.touched = TRUE]
  /\ UNCHANGED <<now, standing>>
Edits == edits < MaxEdits /\ edits' = edits + 1

\* commit_resolve, when the grace is over; the gate of short stops is in OpsCore.
Commit(l) ==
  /\ inc[l].status = "resolving"
  /\ inc' = [inc EXCEPT ![l].status = "resolved"]
  /\ Touch /\ UNCHANGED <<asset, offplan, calendar, fraction, edits>>

\* Both endpoints resolve the incident of the loom, if it is live.
Closed(l) == IF Live(l) THEN [inc EXCEPT ![l].status = "resolved"] ELSE inc

Decommission(l) ==
  /\ asset[l] # "unknown"
  /\ asset' = [asset EXCEPT ![l] = "retired"] /\ inc' = Closed(l)
  /\ Edits /\ Touch /\ UNCHANGED <<offplan, calendar, fraction>>

Recommission(l) ==
  /\ asset[l] = "retired"
  /\ asset' = [asset EXCEPT ![l] = "active"]
  /\ Touch /\ UNCHANGED <<offplan, inc, calendar, fraction, edits>>

\* Off plan a loom is still active, and counts.
SetOffplan(l) ==
  /\ asset[l] # "unknown"
  /\ offplan' = offplan \cup {l} /\ inc' = Closed(l)
  /\ Edits /\ Touch /\ UNCHANGED <<asset, calendar, fraction>>

OffplanEnds(l) ==
  /\ l \in offplan /\ offplan' = offplan \ {l}
  /\ Touch /\ UNCHANGED <<asset, inc, calendar, fraction, edits>>

\* A fraction for which any two of more looms are a fleet wants an acknowledgement.
set_detection(f, acknowledged) ==
  /\ Threshold(Cardinality(Active), f) <= 2 /\ Cardinality(Active) > 2 => acknowledged
  /\ fraction' = f
  /\ Edits /\ Touch /\ UNCHANGED <<asset, offplan, inc, calendar>>

set_shifts(c) ==
  /\ Accepted(c) /\ calendar' = c
  /\ Edits /\ Touch /\ UNCHANGED <<asset, offplan, inc, fraction>>

-----------------------------------------------------------------------------
Init ==
  /\ now = 0 /\ standing = {} /\ offplan = {} /\ edits = 0
  /\ asset \in [Looms -> {"unknown", "active"}]
  /\ inc = [l \in Looms |-> [status |-> "none", opened |-> 0, code |-> NoCode]]
  /\ calendar \in {c \in Calendars : Accepted(c)} /\ fraction \in Fractions
  /\ poller = [events |-> {}, silent |-> {}, new |-> {}, batch |-> {}, touched |-> FALSE]

Next ==
  \/ \E seen \in SUBSET Looms : Poll(seen)
  \/ \E l \in Looms : Stopped(l) \/ Resumed(l) \/ Classify(l)
  \/ Fails
  \/ \E l \in Looms :
       Commit(l) \/ Decommission(l) \/ Recommission(l) \/ SetOffplan(l) \/ OffplanEnds(l)
  \/ \E f \in Fractions, acknowledged \in BOOLEAN : set_detection(f, acknowledged)
  \/ \E c \in Calendars : set_shifts(c)

Spec == Init /\ [][Next]_vars

-----------------------------------------------------------------------------
(* Properties. *)

TypeOK ==
  /\ now \in Time /\ standing \subseteq Looms /\ offplan \subseteq Looms
  /\ asset \in [Looms -> {"unknown", "active", "retired"}]
  /\ inc \in [Looms -> Incident]
  /\ calendar \in Calendar /\ fraction \in Fractions
  /\ poller \in Poller /\ edits \in 0 .. MaxEdits
  /\ poller.new \subseteq poller.batch
  /\ \A l \in poller.batch : inc[l].status # "none" /\ inc[l].opened = now

\* Whatever calendars the panel accepted, at every minute one shift is on duty and
\* it is the one the look-up finds: no fault is raised on no shift.
CalendarTiles == OneShiftOn(calendar)

\* The changeover of the classifier is that of the roster, after any edit.
ChangeoverIsChange == BoundaryIsChange(calendar)

\* "Opening the whole batch before classifying makes fleet detection independent
\* of processing order": the stops of a batch get one code, unless something
\* the rules look at changes while they are classified (`touched`): an edit of the
\* panel, the end of a plan, or a resolution that the ticker commits.
BatchCodedAlike ==
  ~poller.touched =>
    \A l, m \in poller.batch \ poller.new : poller.events = {} => inc[l].code = inc[m].code

\* A real power cut takes the whole shed: when every loom in service stops in one
\* poll and the first rule is that of a power failure, none of them is asked about.
WholeFleetIsSeen ==
  /\ ~poller.touched /\ poller.events = {} /\ poller.batch = Active
  /\ Cardinality(Active) > 1
  /\ 1 \in DOMAIN Rules /\ Rules[1].rule = "fleet_stop"
  => \A l \in poller.batch \ poller.new : inc[l].code = Rules[1].code

\* What is coded a power failure, and so pages nobody, is one: as many looms stood
\* at that poll as the threshold asks for, and not merely that many incidents were live.
PowerCutIsReal ==
  ~poller.touched =>
    \A l \in poller.batch \ poller.new :
      inc[l].code = "power_failure" => Cardinality(standing) >= _fleet_threshold
=============================================================================
