----------------------------- MODULE MCFleetStop -----------------------------
(* Small instances of FleetStop for TLC. *)
EXTENDS FleetStop, TLC

\* One loom is like another, and no liveness is checked.
MCSymmetry == Permutations(Looms)

\* The rules of reasons.yaml; a poll is longer than the five seconds of the first.
MCRules ==
  <<[rule |-> "fleet_stop", window |-> 0, code |-> "power_failure"],
    [rule |-> "fleet_stop_at_boundary", window |-> 1, code |-> "shift_change"],
    [rule |-> "fleet_stop_at_boundary", window |-> 2, code |-> "punch_queue"]>>

MCFractions == {<<1, 1>>, <<1, 2>>}

Of(a, b, c) ==
  [s \in Shift |-> CASE s = "A" -> [start |-> a[1], end |-> a[2]]
                     [] s = "B" -> [start |-> b[1], end |-> b[2]]
                     [] s = "C" -> [start |-> c[1], end |-> c[2]]]

\* In a day of four: two that tile it, one across midnight; two overlapping
\* shifts and a matching gap; and one with a gap.
MCCalendars ==
  {Of(<<1, 2>>, <<2, 3>>, <<3, 1>>), Of(<<2, 0>>, <<0, 1>>, <<1, 2>>),
   Of(<<0, 2>>, <<0, 1>>, <<2, 3>>), Of(<<0, 1>>, <<1, 2>>, <<2, 3>>)}
=============================================================================
