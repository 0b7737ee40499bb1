-------------------------- MODULE EscalationLadder --------------------------
(***************************************************************************)
(* The ladders of departments/*/escalation.yaml and the rows of the        *)
(* `escalations` table, as pure operators: which row starts a ladder, and  *)
(* which row follows one that has just fired (app/core/escalation.py).     *)
(*                                                                         *)
(* Time.  A timer of the code is a row holding an absolute due_at.  Here a *)
(* row holds the time LEFT until it is due, 0 meaning due_at <= now, and   *)
(* an incident or ticket holds its age, which stops growing at AgeCap: the *)
(* code only ever compares such times with now, so nothing else about them *)
(* can be told apart, and the state stays finite while a machine is down   *)
(* for ever.                                                               *)
(***************************************************************************)
EXTENDS Naturals, Sequences

CONSTANTS
  AgeCap,          \* ages saturate here; no ladder waits longer than this
  UnknownLadder,   \* the ladder of an incident that has no reason yet
  Ticketable,      \* reason codes that open a ticket
  LadderFor,       \* reason code -> the ladder of its tickets
  RecurThreshold,  \* recurrence.threshold
  RecurRung        \* recurrence.rung (action skip_to_rung)

RungAction == {"none", "ask_reason", "ask_eta"}

\* One line of a ladder: after_minutes, action, repeat_every_minutes (0: absent).
Rung == [after : 0 .. AgeCap, act : RungAction, every : 0 .. AgeCap]

ASSUME LadderAssumption ==
  /\ AgeCap \in Nat \ {0}
  /\ UnknownLadder \in Seq(Rung)
  /\ LadderFor \in [Ticketable -> Seq(Rung)]
  /\ RecurThreshold \in Nat \ {0}
  /\ RecurRung \in Nat

-----------------------------------------------------------------------------
\* No ticket, no incident: SQL NULL.  Ids start at 1.
NULL == 0

Action  == RungAction \cup {"eta_check"}
Trigger == {"timer", "recurrence", "repeat", "eta"}

\* A pending row of `escalations`; exactly one of tkt and inc is not NULL.
Pending(Incidents, Tickets) ==
  [inc : Incidents \cup {NULL}, tkt : Tickets \cup {NULL}, rung : Nat,
   act : Action, due : Nat, trig : Trigger]

\* What is left of a row once it is fired, cancelled or wedged: no worker
\* reads such a row again.
NoRow == [inc |-> NULL, tkt |-> NULL, rung |-> 0, act |-> "none",
          due |-> 0, trig |-> "timer"]

\* Time left until `after` units past a base that is `age` units old.
Remaining(after, age) == IF after > age THEN after - age ELSE 0

Lower(a, b) == IF a <= b THEN a ELSE b

\* The rung (numbered from 0, as in the code) of a ladder.
Step(ladder, rung) == ladder[rung + 1]

\* Mutant of FirstPrompt: the question goes out as soon as the loom stops.
FirstPromptAtOnce(i, age) ==
  [inc |-> i, tkt |-> NULL, rung |-> 0, act |-> UnknownLadder[1].act,
   due |-> 0, trig |-> "timer"]

\* schedule_unknown: the first reason prompt of incident i.
FirstPrompt(i, age) ==
  [inc |-> i, tkt |-> NULL, rung |-> 0, act |-> UnknownLadder[1].act,
   due |-> Remaining(UnknownLadder[1].after, age), trig |-> "timer"]

\* compute_start: `prior` counts the tickets of this asset and code inside the
\* window, the one just inserted included.
SkipsAhead(prior) == prior >= RecurThreshold

\* start_ladder: the first page of ticket t, opened `age` units ago.
FirstPage(t, code, age, prior) ==
  LET ladder == LadderFor[code]
      start  == IF SkipsAhead(prior) THEN Lower(RecurRung, Len(ladder) - 1) ELSE 0
  IN  [inc |-> NULL, tkt |-> t, rung |-> start, act |-> Step(ladder, start).act,
       due  |-> IF SkipsAhead(prior) THEN 0
                ELSE Remaining(Step(ladder, start).after, age),
       trig |-> IF SkipsAhead(prior) THEN "recurrence" ELSE "timer"]

\* set_eta: the one row that is left while a promise runs.
EtaCheck(t, hours) ==
  [inc |-> NULL, tkt |-> t, rung |-> 0, act |-> "eta_check",
   due |-> hours, trig |-> "eta"]

\* Mutants of Successor: a ladder that does not repeat; a repeat that is counted
\* from the start of the fault and not from now.
SuccessorOnce(row, ladder, age) ==
  IF row.rung + 1 < Len(ladder)
    THEN [row EXCEPT !.rung = @ + 1, !.act = Step(ladder, row.rung + 1).act,
                     !.due = Remaining(Step(ladder, row.rung + 1).after, age),
                     !.trig = "timer"]
  ELSE NoRow

SuccessorFromStart(row, ladder, age) ==
  IF row.rung + 1 < Len(ladder) THEN SuccessorOnce(row, ladder, age)
  ELSE [row EXCEPT !.act = ladder[Len(ladder)].act, !.trig = "repeat",
                   !.due = Remaining(ladder[Len(ladder)].every, age)]

\* _schedule_next: the row that follows `row` once it has fired.  Past the last
\* rung a repeating ladder starts over from now, a finite one ends.
Successor(row, ladder, age) ==
  LET nxt  == row.rung + 1
      last == ladder[Len(ladder)]
  IN  IF nxt < Len(ladder)
        THEN [row EXCEPT !.rung = nxt, !.act = Step(ladder, nxt).act,
                         !.due = Remaining(Step(ladder, nxt).after, age),
                         !.trig = "timer"]
      ELSE IF ladder # << >> /\ last.every > 0
        THEN [row EXCEPT !.act = last.act, !.due = last.every, !.trig = "repeat"]
      ELSE NoRow

\* Every question and reminder a ladder can still produce.
Repeats(ladder) == ladder # << >> /\ ladder[Len(ladder)].every > 0

=============================================================================
