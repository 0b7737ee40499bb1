--------------------------- MODULE LoomSourceProofs ---------------------------
(***************************************************************************)
(* Proofs about LoomSource, for any fleet and any thresholds.              *)
(*                                                                         *)
(* The adapter ages rows by a clock that new rows may set back, and reads  *)
(* the newest row of a silent loom again and again.  Such a row can only   *)
(* be read again when it is the newest the adapter has ever seen: then it  *)
(* was this row that set the clock, and the clock has gone on since.       *)
(***************************************************************************)
EXTENDS LoomSource, WellFoundedInduction, NaturalsInduction, TLAPS

\* The constants, one by one.
LEMMA Constants == OfflineAfter \in Nat \ {0} /\ Window \in Nat
BY SourceAssumption

\* Of times that lie in the past there is a newest.
LEMMA MaxIs ==
  ASSUME NEW n \in Nat, NEW S \in SUBSET (0 .. n), S # {}
  PROVE  Max(S) \in S /\ \A t \in S : t <= Max(S)
<1> DEFINE R == {p \in Nat \X Nat : p[1] < p[2]}
           T == {n - t : t \in S}
<1>1. T \in SUBSET Nat /\ T # {}
  <2>1. \A t \in S : n - t \in Nat
    OBVIOUS
  <2>2. PICK t \in S : TRUE
    OBVIOUS
  <2>3. n - t \in T
    OBVIOUS
  <2> QED
    BY <2>1, <2>3
<1>2. PICK x \in T : \A y \in T : <<y, x>> \notin R
  <2>1. IsWellFoundedOn(R, Nat)
    BY NatLessThanWellFounded DEF OpToRel
  <2> HIDE DEF R, T
  <2> QED
    BY <1>1, <2>1, WFMin
<1>3. PICK m \in S : x = n - m
  OBVIOUS
<1>4. \A t \in S : t <= m
  <2> SUFFICES ASSUME NEW t \in S PROVE t <= m
    OBVIOUS
  <2>1. n - t \in T /\ n - t \in Nat /\ x \in Nat /\ t \in Int /\ m \in Int
    BY <1>1
  <2>2. ~(n - t < x)
    BY <1>2, <2>1
  <2> HIDE DEF T, R
  <2> QED
    BY <1>3, <2>1, <2>2
<1>5. \E u \in S : \A y \in S : u >= y
  BY <1>4
<1> QED
  BY <1>5 DEF Max

\* What was long ago is longer ago later.
LEMMA LaterStill ==
  ASSUME NEW a \in Nat, NEW b \in Nat, NEW c \in Nat, NEW d \in Nat, a <= b, a - c >= d
  PROVE  b - c >= d
OBVIOUS

-----------------------------------------------------------------------------
(* The inductive invariant. *)

Belief == {"UNSET", "RUNNING", "STOPPED", "OFFLINE", "DARK"}

\* The tables, and that nothing the adapter knows is of the future.
ClockOK ==
  /\ now \in Nat /\ machine \in [Loom -> {"stop", "run"}]
  /\ feed \in [Loom -> Row] /\ \A m \in Loom : feed[m].ts <= now
  /\ last \in [Loom -> Belief]
  /\ seen \in [Loom -> Nat] /\ \A m \in Loom : seen[m] <= serverNow
  /\ serverNow \in Nat /\ syncWall \in Nat
  /\ serverNow <= syncWall /\ syncWall <= now

\* The adapter reads on from the newest row it has seen, which set its clock.
CursorIsClock == cursor = serverNow

\* The clock stands wrong by the threshold: it was set by a row that was old.
ClockWrong == syncWall - serverNow >= OfflineAfter

\* A loom taken for silent whose last row set the clock: that was long ago.
SilentIsOld ==
  \A m \in Loom : last[m] \in {"OFFLINE", "DARK"} /\ seen[m] = serverNow =>
    now - syncWall >= OfflineAfter \/ ClockWrong

SInv == ClockOK /\ CursorIsClock /\ SilentIsOld /\ StopIsTold

-----------------------------------------------------------------------------
(* The looms and the clock. *)

LEMMA PlantKeeps ==
  ASSUME SInv, \/ \E m \in Loom : LoomChanges(m)
               \/ Tick
  PROVE  SInv'
<1>1. /\ UNCHANGED <<last, seen, cursor, serverNow, syncWall, told>>
      /\ machine' \in [Loom -> {"stop", "run"}]
      /\ now' \in Nat /\ now <= now'
  BY DEF SInv, ClockOK, LoomChanges, Tick, adapter
<1>2. PICK who : feed' = [m \in Loom |-> IF m \in who THEN [ts |-> now', cond |-> machine'[m]]
                                         ELSE feed[m]]
  <2>1. CASE \E m \in Loom : LoomChanges(m)
    <3>1. feed' = Rows(now, machine', sending') /\ now' = now
      BY <2>1 DEF LoomChanges
    <3> QED
      BY <3>1 DEF Rows
  <2>2. CASE Tick
    <3>1. feed' = Rows(now', machine', sending)
      BY <2>2 DEF Tick
    <3> QED
      BY <3>1 DEF Rows
  <2> QED
    BY <2>1, <2>2
<1>3. feed' \in [Loom -> Row] /\ \A m \in Loom : feed'[m].ts <= now'
  <2>1. \A m \in Loom : feed[m] \in Row /\ feed[m].ts <= now /\ machine'[m] \in {"stop", "run"}
    BY <1>1 DEF SInv, ClockOK
  <2>2. \A m \in Loom : feed[m].ts \in Nat
    BY <2>1 DEF Row
  <2>3. now \in Nat
    BY DEF SInv, ClockOK
  <2>4. \A m \in Loom : feed'[m] \in Row /\ feed'[m].ts <= now'
    BY <1>1, <1>2, <2>1, <2>2, <2>3 DEF Row
  <2> QED
    BY <1>2, <2>4
<1>4. ClockOK'
  BY <1>1, <1>3 DEF SInv, ClockOK
<1>5. SilentIsOld'
  <2> SUFFICES ASSUME NEW m \in Loom, last[m] \in {"OFFLINE", "DARK"}, seen[m] = serverNow
               PROVE  now' - syncWall >= OfflineAfter \/ ClockWrong
    BY <1>1 DEF SilentIsOld, ClockWrong
  <2>1. now - syncWall >= OfflineAfter \/ ClockWrong
    BY DEF SInv, SilentIsOld
  <2>2. now \in Nat /\ syncWall \in Nat
    BY DEF SInv, ClockOK
  <2>3. now' \in Nat /\ now <= now'
    BY <1>1
  <2>4. CASE now - syncWall >= OfflineAfter
    <3>1. OfflineAfter \in Nat
      BY Constants
    <3>2. now' - syncWall >= OfflineAfter
      BY <2>2, <2>3, <2>4, <3>1, LaterStill
    <3> QED
      BY <3>2
  <2> QED
    BY <2>1, <2>4
<1> QED
  BY <1>1, <1>4, <1>5 DEF SInv, CursorIsClock, StopIsTold

-----------------------------------------------------------------------------
(* A poll. *)

\* The newest of some rows.
LEMMA NewestIs ==
  ASSUME ClockOK, NEW rows \in SUBSET Loom
  PROVE  /\ Newest(rows) \in 0 .. now
         /\ \A m \in rows : feed[m].ts <= Newest(rows)
         /\ Newest(rows) # Unseen => \E m \in rows : feed[m].ts = Newest(rows)
<1>1. PICK n \in Nat : n = now
  BY DEF ClockOK
<1>2. \A m \in Loom : feed[m].ts \in 0 .. n
  <2>1. \A m \in Loom : feed[m] \in Row /\ feed[m].ts <= n
    BY <1>1 DEF ClockOK
  <2> QED
    BY <2>1 DEF Row
<1>3. PICK S \in SUBSET (0 .. n) : S = {feed[m].ts : m \in rows} \cup {Unseen}
  <2>1. \A t \in {feed[m].ts : m \in rows} \cup {Unseen} : t \in 0 .. n
    BY <1>2 DEF Unseen
  <2>2. {feed[m].ts : m \in rows} \cup {Unseen} \in SUBSET (0 .. n)
    BY <2>1
  <2> QED
    BY <2>2
<1>4. S # {}
  BY <1>3
<1>5. Max(S) \in S /\ \A t \in S : t <= Max(S)
  BY <1>4, MaxIs
<1> QED
  BY <1>1, <1>3, <1>5 DEF Newest

\* The newer of two times that lie in the past.
LEMMA NewerIs ==
  ASSUME NEW n \in Nat, NEW a \in 0 .. n, NEW b \in 0 .. n
  PROVE  Max({a, b}) \in {a, b} /\ a <= Max({a, b}) /\ b <= Max({a, b})
<1>1. PICK S \in SUBSET (0 .. n) : S = {a, b}
  OBVIOUS
<1>2. Max(S) \in S /\ \A t \in S : t <= Max(S)
  BY <1>1, MaxIs
<1> QED
  BY <1>1, <1>2

\* What the adapter knows of the rows and of the clock after a poll.
LEMMA ClockMoves ==
  ASSUME SInv, NEW rows \in SUBSET Loom, PollRows(rows), UNCHANGED now
  PROVE  /\ seen' \in [Loom -> Nat]
         /\ \A m \in Loom : seen'[m] \in {seen[m], feed[m].ts} /\ (m \notin rows => seen'[m] = seen[m])
         /\ \A m \in rows : feed[m].ts <= seen'[m]
         /\ serverNow' \in Nat /\ serverNow <= serverNow'
         /\ \A m \in rows : feed[m].ts <= serverNow'
         /\ \/ serverNow' = serverNow /\ syncWall' = syncWall
            \/ serverNow < serverNow' /\ serverNow' <= now /\ syncWall' = now
         /\ rows # {} => cursor' = Newest(rows)
         /\ rows = {} => cursor' = cursor
         /\ serverNow' = IF Newest(rows) > serverNow THEN Newest(rows) ELSE serverNow
<1>1. /\ seen' = [m \in Loom |-> IF m \in rows THEN Max({seen[m], feed[m].ts}) ELSE seen[m]]
      /\ cursor' = IF rows = {} THEN cursor ELSE Newest(rows)
      /\ IF Newest(rows) > serverNow THEN serverNow' = Newest(rows) /\ syncWall' = now
         ELSE UNCHANGED <<serverNow, syncWall>>
  BY DEF PollRows
<1>2. /\ Newest(rows) \in 0 .. now /\ \A m \in rows : feed[m].ts <= Newest(rows)
  BY NewestIs DEF SInv
<1>3. PICK n \in Nat : n = now
  BY DEF SInv, ClockOK
<1>4. \A m \in Loom : seen[m] \in 0 .. n /\ feed[m].ts \in 0 .. n
  <2>1. \A m \in Loom : feed[m] \in Row
    BY DEF SInv, ClockOK
  <2> QED
    BY <1>3, <2>1 DEF SInv, ClockOK, Row
<1>5. \A m \in Loom : /\ Max({seen[m], feed[m].ts}) \in {seen[m], feed[m].ts}
                      /\ feed[m].ts <= Max({seen[m], feed[m].ts})
  <2> SUFFICES ASSUME NEW m \in Loom
               PROVE  /\ Max({seen[m], feed[m].ts}) \in {seen[m], feed[m].ts}
                      /\ feed[m].ts <= Max({seen[m], feed[m].ts})
    OBVIOUS
  <2>1. PICK a \in 0 .. n, b \in 0 .. n : a = seen[m] /\ b = feed[m].ts
    BY <1>4
  <2> QED
    BY <2>1, NewerIs
<1>6. serverNow \in Nat /\ syncWall \in Nat
  BY DEF SInv, ClockOK
<1>7. /\ seen' \in [Loom -> Nat]
      /\ \A m \in Loom : seen'[m] \in {seen[m], feed[m].ts} /\ (m \notin rows => seen'[m] = seen[m])
      /\ \A m \in rows : feed[m].ts <= seen'[m]
  BY <1>1, <1>4, <1>5
<1>8. PICK head \in 0 .. n : head = Newest(rows)
  BY <1>2, <1>3
<1>9. /\ serverNow' \in Nat /\ serverNow <= serverNow' /\ head <= serverNow'
      /\ \/ serverNow' = serverNow /\ syncWall' = syncWall
         \/ serverNow < serverNow' /\ serverNow' <= now /\ syncWall' = now
      /\ serverNow' = IF head > serverNow THEN head ELSE serverNow
  BY <1>1, <1>3, <1>6, <1>8
<1>10. \A m \in rows : feed[m].ts <= serverNow'
  BY <1>2, <1>4, <1>8, <1>9
<1> QED
  BY <1>1, <1>7, <1>8, <1>9, <1>10

\* What the adapter then believes of a loom, and reports.
LEMMA BeliefMoves ==
  ASSUME SInv, NEW rows \in SUBSET Loom, PollRows(rows), UNCHANGED feed, NEW m \in Loom
  PROVE  /\ last'[m] \in Belief
         /\ \/ /\ last'[m] \in {"OFFLINE", "DARK"}
               /\ NowLive(serverNow', syncWall') - seen'[m] >= OfflineAfter
            \/ /\ m \in rows /\ Fresh(m)
               /\ last'[m] = IF feed[m].cond = "stop" THEN "STOPPED" ELSE "RUNNING"
            \/ ~(m \in rows /\ Fresh(m)) /\ last'[m] = last[m]
         /\ last'[m] \in {"STOPPED", "OFFLINE"} => m \in told'
         /\ \A kind \in {"opened", "resolved"} : <<kind, m>> \in reported' =>
              (m \in rows /\ Fresh(m)) \/ last'[m] = "OFFLINE"
<1> DEFINE fresh    == {k \in rows : Fresh(k)}
           opened   == {k \in fresh : Opens(k)}
           resolved == {k \in fresh : Resolves(k)}
           mid   == [k \in Loom |-> IF k \notin fresh THEN last[k]
                                    ELSE IF feed[k].cond = "stop" THEN "STOPPED" ELSE "RUNNING"]
           live  == NowLive(serverNow', syncWall')
           known == {k \in Loom : seen'[k] # Unseen}
           stale == {k \in known : live - seen'[k] >= OfflineAfter}
           quiet == {k \in stale : Unraised(mid[k])}
<1>1. \/ /\ last' = [k \in Loom |-> IF k \in stale THEN DarkAs(k) ELSE mid[k]]
         /\ Report(opened, resolved, {})
      \/ /\ last' = [k \in Loom |-> IF k \in stale THEN "OFFLINE" ELSE mid[k]]
         /\ Report(opened, resolved, quiet)
  BY DEF PollRows
<1>2. mid[m] = IF m \notin fresh THEN last[m]
               ELSE IF feed[m].cond = "stop" THEN "STOPPED" ELSE "RUNNING"
  OBVIOUS
<1>3. m \in fresh <=> m \in rows /\ Fresh(m)
  OBVIOUS
<1>4. m \in stale => live - seen'[m] >= OfflineAfter
  OBVIOUS
<1>5. /\ m \in opened <=> m \in fresh /\ feed[m].cond = "stop" /\ last[m] \notin {"STOPPED", "OFFLINE"}
      /\ m \in resolved => m \in fresh /\ feed[m].cond = "run"
      /\ m \in quiet <=> m \in stale /\ mid[m] # "OFFLINE"
  BY DEF Opens, Resolves, Unraised
<1> HIDE DEF fresh, opened, resolved, mid, live, known, stale, quiet
<1>6. last[m] \in Belief /\ (last[m] \in {"STOPPED", "OFFLINE"} => m \in told)
  BY DEF SInv, ClockOK, StopIsTold
<1>7. CASE /\ last' = [k \in Loom |-> IF k \in stale THEN DarkAs(k) ELSE mid[k]]
           /\ Report(opened, resolved, {})
  <2>1. last'[m] = IF m \in stale THEN "DARK" ELSE mid[m]
    BY <1>7 DEF DarkAs
  <2>2. /\ m \in told' <=> (m \in told \/ m \in opened) /\ m \notin resolved
        /\ <<"opened", m>> \in reported' => m \in opened
        /\ <<"resolved", m>> \in reported' => m \in resolved
    BY <1>7 DEF Report
  <2> QED
    BY <1>2, <1>3, <1>4, <1>5, <1>6, <2>1, <2>2 DEF Belief, live
<1>8. CASE /\ last' = [k \in Loom |-> IF k \in stale THEN "OFFLINE" ELSE mid[k]]
           /\ Report(opened, resolved, quiet)
  <2>1. last'[m] = IF m \in stale THEN "OFFLINE" ELSE mid[m]
    BY <1>8
  <2>2. /\ m \in told' <=> ((m \in told \/ m \in opened) /\ m \notin resolved) \/ m \in quiet
        /\ <<"opened", m>> \in reported' => m \in opened \/ m \in quiet
        /\ <<"resolved", m>> \in reported' => m \in resolved
    BY <1>8 DEF Report
  <2> QED
    BY <1>2, <1>3, <1>4, <1>5, <1>6, <2>1, <2>2 DEF Belief, live
<1> QED
  BY <1>1, <1>7, <1>8

\* Of what a poll reads, the only rows that were seen before are those that set the
\* clock: `since` is inclusive, but no more than that.
LEMMA RepeatIs ==
  ASSUME SInv, NEW rows \in SUBSET Loom,
         rows = SinceCursor \/ (FarBehind /\ rows = Recent),
         NEW m \in rows, feed[m].ts <= seen[m]
  PROVE  feed[m].ts = serverNow /\ seen[m] = serverNow /\ serverNow # Unseen
<1>1. /\ seen[m] \in Nat /\ seen[m] <= serverNow /\ serverNow \in Nat /\ cursor = serverNow
      /\ now \in Nat
  BY DEF SInv, ClockOK, CursorIsClock
<1>2. \A k \in Loom : feed[k].ts \in Nat /\ feed[k].ts <= now
  <2>1. \A k \in Loom : feed[k] \in Row
    BY DEF SInv, ClockOK
  <2> QED
    BY <2>1 DEF Row, SInv, ClockOK
<1>3. m \in Recent => feed[m].ts # Unseen /\ feed[m].ts + Window >= now
  BY DEF Recent
<1>4. CASE rows = SinceCursor
  <2>1. CASE cursor = Unseen
    BY <1>1, <1>2, <1>3, <1>4, <2>1 DEF SinceCursor, Unseen
  <2>2. CASE cursor # Unseen
    BY <1>1, <1>2, <1>4, <2>2 DEF SinceCursor
  <2> QED
    BY <2>1, <2>2
<1>5. CASE FarBehind /\ rows = Recent
  <2>1. PICK k \in Loom : feed[k].ts > cursor + Window
    BY <1>5 DEF FarBehind
  <2> QED
    BY <1>1, <1>2, <1>3, <1>5, <2>1, Constants
<1> QED
  BY <1>4, <1>5

\* A poll that reads anything reads the newest row there is, as far as it knows.
LEMMA CursorMoves ==
  ASSUME SInv, NEW rows \in SUBSET Loom,
         rows = SinceCursor \/ (FarBehind /\ rows = Recent),
         PollRows(rows), UNCHANGED now
  PROVE  CursorIsClock'
<1>1. /\ rows # {} => cursor' = Newest(rows)
      /\ rows = {} => cursor' = cursor
      /\ serverNow' = IF Newest(rows) > serverNow THEN Newest(rows) ELSE serverNow
  BY ClockMoves
<1>2. /\ Newest(rows) \in 0 .. now /\ \A m \in rows : feed[m].ts <= Newest(rows)
      /\ Newest(rows) # Unseen => \E m \in rows : feed[m].ts = Newest(rows)
  BY NewestIs DEF SInv
<1>3. serverNow \in Nat /\ cursor = serverNow /\ now \in Nat
  BY DEF SInv, ClockOK, CursorIsClock
<1>4. \A k \in Loom : feed[k].ts \in Nat /\ feed[k].ts <= now
  <2>1. \A k \in Loom : feed[k] \in Row
    BY DEF SInv, ClockOK
  <2> QED
    BY <2>1 DEF Row, SInv, ClockOK
<1>5. PICK head \in Nat : head = Newest(rows)
  BY <1>2, <1>3
<1>6. CASE rows = {}
  <2>1. head = Unseen
    BY <1>2, <1>5, <1>6
  <2> QED
    BY <1>1, <1>3, <1>5, <1>6, <2>1 DEF CursorIsClock, Unseen
<1>7. CASE rows # {}
  <2>1. PICK m \in rows : TRUE
    BY <1>7
  <2>2. head >= serverNow
    <3>1. feed[m].ts <= head /\ feed[m].ts \in Nat
      BY <1>2, <1>4, <1>5, <2>1
    <3>2. CASE rows = SinceCursor /\ cursor = Unseen
      BY <1>3, <1>5, <3>2 DEF Unseen
    <3>3. CASE rows = SinceCursor /\ cursor # Unseen
      <4>1. feed[m].ts >= cursor
        BY <2>1, <3>3 DEF SinceCursor
      <4> QED
        BY <1>3, <3>1, <4>1
    <3>4. CASE FarBehind /\ rows = Recent
      <4>1. PICK k \in Loom : feed[k].ts > cursor + Window
        BY <3>4 DEF FarBehind
      <4>2. feed[m].ts + Window >= now
        BY <2>1, <3>4 DEF Recent
      <4>3. feed[k].ts \in Nat /\ feed[k].ts <= now
        BY <1>4
      <4> QED
        BY <1>3, <3>1, <4>1, <4>2, <4>3, Constants
    <3> QED
      BY <3>2, <3>3, <3>4
  <2> QED
    BY <1>1, <1>3, <1>5, <1>7, <2>2 DEF CursorIsClock
<1> QED
  BY <1>6, <1>7

\* A loom that is still taken for silent after a poll, and whose row set the clock.
LEMMA SilentStays ==
  ASSUME SInv, NEW rows \in SUBSET Loom, PollRows(rows), UNCHANGED <<now, feed>>,
         NEW m \in Loom, last'[m] \in {"OFFLINE", "DARK"}, seen'[m] = serverNow'
  PROVE  now - syncWall' >= OfflineAfter \/ syncWall' - serverNow' >= OfflineAfter
<1>1. /\ seen[m] \in Nat /\ seen[m] <= serverNow /\ serverNow \in Nat /\ syncWall \in Nat
      /\ now \in Nat /\ serverNow <= syncWall /\ syncWall <= now
  BY DEF SInv, ClockOK
<1>2. feed[m].ts \in Nat
  <2>1. feed[m] \in Row
    BY DEF SInv, ClockOK
  <2> QED
    BY <2>1 DEF Row
<1>3. OfflineAfter \in Nat
  BY Constants
<1>4. /\ seen'[m] \in {seen[m], feed[m].ts} /\ (m \notin rows => seen'[m] = seen[m])
      /\ serverNow' \in Nat
      /\ \/ serverNow' = serverNow /\ syncWall' = syncWall
         \/ serverNow < serverNow' /\ serverNow' <= now /\ syncWall' = now
  BY ClockMoves
<1>5. CASE NowLive(serverNow', syncWall') - seen'[m] >= OfflineAfter
  <2>1. syncWall' \in Nat
    BY <1>1, <1>4
  <2>2. PICK a \in Nat, c \in Nat : a = serverNow' /\ c = syncWall'
    BY <1>4, <2>1
  <2>3. a + (now - c) - a >= OfflineAfter
    <3>1. NowLive(a, c) - a >= OfflineAfter
      BY <1>5, <2>2
    <3> QED
      BY <1>1, <1>3, <3>1 DEF NowLive
  <2>4. now - c >= OfflineAfter
    BY <1>1, <1>3, <2>3
  <2> QED
    BY <2>2, <2>4
<1>6. CASE ~(m \in rows /\ Fresh(m)) /\ last'[m] = last[m]
  <2>1. CASE seen'[m] = seen[m]
    <3>1. serverNow' = serverNow /\ syncWall' = syncWall
      BY <1>1, <1>4, <2>1
    <3> QED
      BY <1>6, <2>1, <3>1 DEF SInv, SilentIsOld, ClockWrong
  <2>2. CASE seen'[m] = feed[m].ts /\ m \in rows
    <3>1. serverNow + (now - syncWall) - feed[m].ts >= OfflineAfter
      BY <1>1, <1>2, <1>3, <1>6, <2>2 DEF Fresh, NowLive
    <3> QED
      BY <1>1, <1>2, <1>3, <1>4, <2>2, <3>1
  <2> QED
    BY <1>4, <2>1, <2>2
<1>7. CASE last'[m] = IF feed[m].cond = "stop" THEN "STOPPED" ELSE "RUNNING"
  BY <1>7
<1> QED
  BY <1>5, <1>6, <1>7, BeliefMoves

\* A silent loom of which a row is reported has sent a new one.
LEMMA RepeatsSilent ==
  ASSUME SInv, NEW rows \in SUBSET Loom,
         rows = SinceCursor \/ (FarBehind /\ rows = Recent),
         PollRows(rows), UNCHANGED <<now, feed>>,
         NEW m \in Loom, last[m] \in {"OFFLINE", "DARK"}, last'[m] # "OFFLINE",
         NEW kind \in {"opened", "resolved"}, <<kind, m>> \in reported'
  PROVE  feed[m].ts > seen[m] \/ ClockWrong
<1>1. m \in rows /\ Fresh(m)
  BY BeliefMoves
<1>2. feed[m].ts \in Nat /\ seen[m] \in Nat
  <2>1. feed[m] \in Row
    BY DEF SInv, ClockOK
  <2> QED
    BY <2>1 DEF Row, SInv, ClockOK
<1>3. SUFFICES ASSUME feed[m].ts <= seen[m] PROVE ClockWrong
  BY <1>2
<1>4. feed[m].ts = serverNow /\ seen[m] = serverNow /\ serverNow # Unseen
  BY <1>1, <1>3, RepeatIs
<1>5. serverNow \in Nat /\ now \in Nat /\ syncWall \in Nat
  BY DEF SInv, ClockOK
<1>6. OfflineAfter \in Nat
  BY Constants
<1>7. ~(now - syncWall >= OfflineAfter)
  BY <1>1, <1>4, <1>5, <1>6 DEF Fresh, NowLive
<1> QED
  BY <1>4, <1>7 DEF SInv, SilentIsOld

LEMMA PollKeeps ==
  ASSUME SInv, Poll
  PROVE  SInv'
<1>1. UNCHANGED <<now, machine, feed>>
  BY DEF Poll, plant
<1>2. PICK rows \in SUBSET Loom :
        PollRows(rows) /\ (rows = SinceCursor \/ (FarBehind /\ rows = Recent))
  BY DEF Poll, SinceCursor, Recent
<1>3. CursorIsClock'
  BY <1>1, <1>2, CursorMoves
<1>4. \A m \in Loom : last'[m] \in Belief /\ (last'[m] \in {"STOPPED", "OFFLINE"} => m \in told')
  BY <1>1, <1>2, BeliefMoves
<1>5. StopIsTold'
  BY <1>4 DEF StopIsTold
<1>6. SilentIsOld'
  BY <1>1, <1>2, SilentStays DEF SilentIsOld, ClockWrong
<1>7. ClockOK'
  <2>1. /\ seen' \in [Loom -> Nat]
        /\ \A m \in Loom : seen'[m] \in {seen[m], feed[m].ts} /\ (m \notin rows => seen'[m] = seen[m])
        /\ serverNow' \in Nat /\ serverNow <= serverNow'
        /\ \A m \in rows : feed[m].ts <= serverNow'
        /\ \/ serverNow' = serverNow /\ syncWall' = syncWall
           \/ serverNow < serverNow' /\ serverNow' <= now /\ syncWall' = now
    BY <1>1, <1>2, ClockMoves
  <2>2. \A m \in Loom : seen[m] \in Nat /\ seen[m] <= serverNow
    BY DEF SInv, ClockOK
  <2>3. \A m \in Loom : seen'[m] <= serverNow'
    BY <2>1, <2>2 DEF SInv, ClockOK
  <2>4. last' \in [Loom -> Belief]
    <3>1. last' = [m \in Loom |-> last'[m]]
      BY <1>2 DEF PollRows
    <3> QED
      BY <1>4, <3>1
  <2> QED
    BY <1>1, <2>1, <2>3, <2>4 DEF SInv, ClockOK
<1> QED
  BY <1>3, <1>5, <1>6, <1>7 DEF SInv

-----------------------------------------------------------------------------
(* A restart. *)

LEMMA SeedKeeps ==
  ASSUME SInv, NEW rows \in SUBSET Loom, SeedFrom(rows),
         UNCHANGED <<now, machine, feed, told>>
  PROVE  SInv'
<1>1. /\ last' = [m \in Loom |-> IF m \in rows \cup told THEN SeedAs(m) ELSE "UNSET"]
      /\ seen' = [m \in Loom |-> IF m \in rows THEN feed[m].ts ELSE Unseen]
      /\ cursor' = Newest(rows) /\ serverNow' = Newest(rows)
      /\ syncWall' = IF rows = {} THEN Unseen ELSE now
  BY DEF SeedFrom
<1>2. /\ Newest(rows) \in 0 .. now /\ \A m \in rows : feed[m].ts <= Newest(rows)
      /\ Newest(rows) # Unseen => \E m \in rows : feed[m].ts = Newest(rows)
  BY NewestIs DEF SInv
<1>3. \A m \in Loom : /\ last'[m] \in {"UNSET", "RUNNING", "STOPPED"}
                      /\ last'[m] = "STOPPED" => m \in told
  BY <1>1 DEF SeedAs
<1>4. now \in Nat /\ \A m \in Loom : feed[m].ts \in Nat
  <2>1. \A m \in Loom : feed[m] \in Row
    BY DEF SInv, ClockOK
  <2> QED
    BY <2>1 DEF Row, SInv, ClockOK
<1>5. seen' \in [Loom -> Nat] /\ \A m \in Loom : seen'[m] <= serverNow'
  BY <1>1, <1>2, <1>4 DEF Unseen
<1>6. /\ serverNow' \in Nat /\ syncWall' \in Nat
      /\ serverNow' <= syncWall' /\ syncWall' <= now
  BY <1>1, <1>2, <1>4 DEF Unseen
<1>7. ClockOK'
  BY <1>1, <1>3, <1>5, <1>6 DEF SInv, ClockOK, Belief
<1>8. CursorIsClock' /\ SilentIsOld' /\ StopIsTold'
  BY <1>1, <1>3 DEF CursorIsClock, SilentIsOld, StopIsTold
<1> QED
  BY <1>7, <1>8 DEF SInv

-----------------------------------------------------------------------------
(* The theorems. *)

LEMMA Start == Init => SInv
<1> SUFFICES ASSUME Init PROVE SInv
  OBVIOUS
<1>1. machine \in [Loom -> {"stop", "run"}]
  BY DEF Init
<1>2. ClockOK
  BY <1>1 DEF Init, ClockOK, Belief, Row
<1>3. CursorIsClock /\ SilentIsOld /\ StopIsTold
  BY DEF Init, CursorIsClock, SilentIsOld, StopIsTold
<1> QED
  BY <1>2, <1>3 DEF SInv

LEMMA Steps == SInv /\ [Next]_vars => SInv'
<1> SUFFICES ASSUME SInv, [Next]_vars PROVE SInv'
  OBVIOUS
<1>1. CASE UNCHANGED vars
  BY <1>1 DEF vars, plant, adapter, SInv, ClockOK, CursorIsClock, SilentIsOld, ClockWrong, StopIsTold
<1>2. CASE (\E m \in Loom : LoomChanges(m)) \/ Tick
  BY <1>2, PlantKeeps
<1>3. CASE Poll
  BY <1>3, PollKeeps
<1>4. CASE Restart
  <2>1. UNCHANGED <<now, machine, feed, told>>
    BY <1>4 DEF Restart, plant
  <2>2. PICK rows \in SUBSET Loom : SeedFrom(rows)
    BY <1>4 DEF Restart, Recent
  <2> QED
    BY <2>1, <2>2, SeedKeeps
<1> QED
  BY <1>1, <1>2, <1>3, <1>4 DEF Next

\* What the adapter knows is of the past, it reads on from the row that set its clock,
\* and a silent loom of which that was the last row has been silent for long.
THEOREM SourceInvariant == Spec => []SInv
  BY Start, Steps, PTL DEF Spec

\* What the adapter believes and what it has told the core agree, whatever dark feed
\* or restart came in between (poll, _check_staleness, seed).
THEOREM StopsAreTold == Spec => []StopIsTold
<1>1. SInv => StopIsTold
  BY DEF SInv
<1> QED
  BY <1>1, SourceInvariant, PTL

\* A stalled feed that repeats its last rows for ever reports nothing of a loom that
\* went silent, whatever the threshold and the window of the server, as long as the
\* adapter's clock is not wrong by the threshold.
THEOREM RepeatsAreSilent == Spec => RepeatsReportNothing
<1> DEFINE Quiet ==
      \A m \in Loom :
        /\ last[m] \in {"OFFLINE", "DARK"} /\ last'[m] # "OFFLINE"
        /\ \E kind \in {"opened", "resolved"} : <<kind, m>> \in reported'
        => feed[m].ts > seen[m] \/ syncWall - serverNow >= OfflineAfter
<1>1. SInv /\ Next => Quiet
  <2> SUFFICES ASSUME SInv, Next, NEW m \in Loom,
                      last[m] \in {"OFFLINE", "DARK"}, last'[m] # "OFFLINE",
                      NEW kind \in {"opened", "resolved"}, <<kind, m>> \in reported'
               PROVE  feed[m].ts > seen[m] \/ syncWall - serverNow >= OfflineAfter
    OBVIOUS
  <2>1. CASE Poll
    <3>1. UNCHANGED <<now, feed>>
      BY <2>1 DEF Poll, plant
    <3>2. PICK rows \in SUBSET Loom :
            PollRows(rows) /\ (rows = SinceCursor \/ (FarBehind /\ rows = Recent))
      BY <2>1 DEF Poll, SinceCursor, Recent
    <3>3. feed[m].ts > seen[m] \/ ClockWrong
      BY <3>1, <3>2, RepeatsSilent
    <3> QED
      BY <3>3 DEF ClockWrong
  <2>2. CASE ~Poll
    <3>1. reported' = {}
      BY <2>2 DEF Next, LoomChanges, Tick, Restart
    <3> QED
      BY <3>1
  <2> QED
    BY <2>1, <2>2
<1>2. SInv /\ [Next]_vars => [Quiet]_vars
  BY <1>1
<1> QED
  BY <1>2, SourceInvariant, PTL DEF Spec, RepeatsReportNothing

=============================================================================
