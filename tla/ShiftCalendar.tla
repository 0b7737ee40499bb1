---------------------------- MODULE ShiftCalendar ----------------------------
(***************************************************************************)
(* The calendar of shifts: which shift is on duty (clock.py), and which    *)
(* calendars the panel accepts (set_shifts in admin_api.py).               *)
(*                                                                         *)
(* A calendar gives each shift the minute of the day at which it starts    *)
(* and the one at which it ends; a shift may run across midnight.          *)
(***************************************************************************)
EXTENDS Integers

CONSTANT DAY   \* minutes of a day: 24 * 60

ASSUME DayAssumption == DAY \in Nat \ {0}

Shift    == {"A", "B", "C"}   \* SHIFT_KEYS
NoShift  == "none"
Minute   == 0 .. DAY - 1
Span     == [start : Minute, end : Minute]
Calendar == [Shift -> Span]

\* (to - from) % DAY, for two minutes of the day.
Minutes(from, to) == IF from <= to THEN to - from ELSE to + DAY - from

\* A span that ends where it starts is on at no time.
On(span, minute) ==
  IF span.start <= span.end THEN span.start <= minute /\ minute < span.end
  ELSE minute >= span.start \/ minute < span.end

\* The first shift that is on, in the order of the calendar.
resolve_shift(calendar, minute) ==
  IF On(calendar["A"], minute) THEN "A"
  ELSE IF On(calendar["B"], minute) THEN "B"
  ELSE IF On(calendar["C"], minute) THEN "C"
  ELSE NoShift

\* Mutant of within_shift_boundary: the window is closed.
WithinClosed(calendar, minute, window) ==
  \E s \in Shift : Minutes(calendar[s].start, minute) <= window

within_shift_boundary(calendar, minute, window) ==
  \E s \in Shift : Minutes(calendar[s].start, minute) < window

-----------------------------------------------------------------------------
(* What set_shifts accepts. *)

\* A shift that ends where it starts counts as a whole day.
Covered(span) ==
  IF span.start = span.end THEN DAY ELSE Minutes(span.start, span.end)

TotalIsOneDay(calendar) ==
  Covered(calendar["A"]) + Covered(calendar["B"]) + Covered(calendar["C"]) = DAY

\* sorted() by the start keeps the order of SHIFT_KEYS among equals.
Before(calendar, s, t) ==
  \/ calendar[s].start < calendar[t].start
  \/ calendar[s].start = calendar[t].start /\ <<s, t>> \in {<<"A", "B">>, <<"A", "C">>, <<"B", "C">>}

\* In the order of their starts, each shift ends where the next one starts.
BackToBack(calendar) ==
  \E s, t, u \in Shift :
    /\ s # t /\ t # u /\ u # s
    /\ Before(calendar, s, t) /\ Before(calendar, t, u)
    /\ calendar[s].end = calendar[t].start
    /\ calendar[t].end = calendar[u].start
    /\ calendar[u].end = calendar[s].start

\* Mutant of Accepted: "two overlapping shifts and a matching gap sum to 24h too".
AcceptedByTotal(calendar) == TotalIsOneDay(calendar)

Accepted(calendar) == TotalIsOneDay(calendar) /\ BackToBack(calendar)

-----------------------------------------------------------------------------
(* What a calendar ought to be, said without the arithmetic of the code. *)

\* At every minute one shift is on, and it is the one that is looked up.
OneShiftOn(calendar) ==
  \A m \in Minute : \E s \in Shift :
    On(calendar[s], m) /\ resolve_shift(calendar, m) = s /\ \A t \in Shift \ {s} : ~On(calendar[t], m)

Previous(m) == IF m = 0 THEN DAY - 1 ELSE m - 1

\* The minutes that the classifier takes for a changeover are those at which
\* the shift on duty changes.
BoundaryIsChange(calendar) ==
  \A m \in Minute :
    within_shift_boundary(calendar, m, 1)
      <=> resolve_shift(calendar, m) # resolve_shift(calendar, Previous(m))
=============================================================================
