----------------------------- MODULE LoomSource -----------------------------
(***************************************************************************)
(* The adapter between the feed of the looms and the poller: what          *)
(* app/sources/weaving_loom_api.py makes of a time series of rows, some of *)
(* them repeats, some looms silent, sometimes all of them.                 *)
(*                                                                         *)
(* The adapter looks at the newest row of each loom only, so the feed is   *)
(* kept as that.  Times are absolute: the adapter ages rows by a clock of  *)
(* its own (_now_live), the newest time stamp it has seen plus the time    *)
(* since it saw it.  0 is None.                                            *)
(***************************************************************************)
EXTENDS Integers, FiniteSets, FiniteSetsExt

CONSTANTS
  Loom,
  OfflineAfter,   \* offline_after_seconds
  Window,         \* what the server returns when asked for no `since`
  MaxTime,        \* bounds the model
  MaxRestarts,    \* bounds the model
  MaxChanges      \* bounds the model: stops, starts, and links lost or found

ASSUME SourceAssumption ==
  /\ IsFiniteSet(Loom)
  /\ OfflineAfter \in Nat \ {0} /\ Window \in Nat
  /\ {MaxTime, MaxRestarts, MaxChanges} \subseteq Nat

Unseen == 0

VARIABLES
  now, changes, restarts,
  machine,            \* what each loom does: external
  sending,            \* looms whose rows reach the server: external
  feed,               \* the newest row of each loom: external
  last,               \* _last: what each loom was believed to do
  seen,               \* _last_seen
  cursor,             \* _cursor
  serverNow, syncWall,
  reported,           \* the events of this poll
  told                \* looms of which the core has been told a stop, and no resume

plant   == <<changes, machine, sending, feed>>
adapter == <<last, seen, cursor, serverNow, syncWall>>
vars    == <<now, restarts, plant, adapter, reported, told>>

Row == [ts : Nat, cond : {"stop", "run"}]

-----------------------------------------------------------------------------
(* The looms.  One that transmits does so many times in a unit of time. *)

Rows(at, works, who) ==
  [m \in Loom |-> IF m \in who THEN [ts |-> at, cond |-> works[m]] ELSE feed[m]]

\* Links may be lost only while there is time left to notice.
LoomChanges(m) ==
  /\ changes < MaxChanges /\ changes' = changes + 1
  /\ \/ /\ machine' = [machine EXCEPT ![m] = IF @ = "run" THEN "stop" ELSE "run"]
        /\ UNCHANGED sending
     \/ /\ m \in sending => now + OfflineAfter < MaxTime
        /\ sending' = IF m \in sending THEN sending \ {m} ELSE sending \cup {m}
        /\ UNCHANGED machine
  /\ feed' = Rows(now, machine', sending')
  /\ reported' = {}
  /\ UNCHANGED <<now, restarts, adapter, told>>

Tick ==
  /\ now < MaxTime
  /\ now' = now + 1
  /\ feed' = Rows(now', machine, sending)
  /\ reported' = {}
  /\ UNCHANGED <<restarts, changes, machine, sending, adapter, told>>

-----------------------------------------------------------------------------
(* poll *)

\* _collect without `since`: what the server returns by default.
Recent == {m \in Loom : feed[m].ts # Unseen /\ feed[m].ts + Window >= now}

\* _collect from the cursor to the head, the cursor itself included.
SinceCursor ==
  IF cursor = Unseen THEN Recent
  ELSE {m \in Loom : feed[m].ts # Unseen /\ feed[m].ts >= cursor}

\* Too far for max_pages: the history is skipped.
FarBehind == cursor # Unseen /\ \E m \in Loom : feed[m].ts > cursor + Window

Newest(rows) == Max({feed[m].ts : m \in rows} \cup {Unseen})

\* _now_live, from a server time that was noted at `wall`.
NowLive(server, wall) == server + (now - wall)

\* Mutant of Fresh: every row counts, repeats of a dead feed too.
FreshAlways(m) == TRUE

\* A row that may still drive the state of its loom.
Fresh(m) ==
  serverNow = Unseen \/ NowLive(serverNow, syncWall) - feed[m].ts < OfflineAfter

Opens(m)    == feed[m].cond = "stop" /\ last[m] \notin {"STOPPED", "OFFLINE"}
Resolves(m) == feed[m].cond = "run" /\ last[m] \in {"STOPPED", "OFFLINE"}

\* Mutant of DarkAs: a dark feed is remembered as if incidents had been opened.
DarkAsOffline(m) == "OFFLINE"

\* What a loom is believed to do when the whole feed is dark.
DarkAs(m) == "DARK"

\* Mutant of Unraised: only a loom that was running can fall silent.
UnraisedRunning(believed) == believed = "RUNNING"

\* A silent loom is raised once.
Unraised(believed) == believed # "OFFLINE"

\* Events of a poll; those of a loom that fell silent come last.
Report(opened, resolved, silent) ==
  /\ reported' = ({"opened"} \X (opened \cup silent)) \cup ({"resolved"} \X resolved)
  /\ told' = ((told \cup opened) \ resolved) \cup silent

\* The rows of the page, then the looms that are silent.
PollRows(rows) ==
  LET fresh    == {m \in rows : Fresh(m)}
      opened   == {m \in fresh : Opens(m)}
      resolved == {m \in fresh : Resolves(m)}
      head     == Newest(rows)
      mid == [m \in Loom |-> IF m \notin fresh THEN last[m]
                             ELSE IF feed[m].cond = "stop" THEN "STOPPED" ELSE "RUNNING"]
  IN
  /\ seen' = [m \in Loom |-> IF m \in rows THEN Max({seen[m], feed[m].ts}) ELSE seen[m]]
  /\ cursor' = IF rows = {} THEN cursor ELSE head
  /\ IF head > serverNow THEN serverNow' = head /\ syncWall' = now
     ELSE UNCHANGED <<serverNow, syncWall>>
  /\ LET live  == NowLive(serverNow', syncWall')
         known == {m \in Loom : seen'[m] # Unseen}
         stale == {m \in known : live - seen'[m] >= OfflineAfter}
     IN IF known # {} /\ stale = known
          THEN /\ last' = [m \in Loom |-> IF m \in stale THEN DarkAs(m) ELSE mid[m]]
               /\ Report(opened, resolved, {})
        ELSE /\ last' = [m \in Loom |-> IF m \in stale THEN "OFFLINE" ELSE mid[m]]
             /\ Report(opened, resolved, {m \in stale : Unraised(mid[m])})

Poll ==
  /\ \/ PollRows(SinceCursor)
     \/ FarBehind /\ PollRows(Recent)
  /\ UNCHANGED <<now, restarts, plant>>

-----------------------------------------------------------------------------
(* seed *)

\* Mutant of SeedAs: a loom that stands still is nothing new.
SeedAsSeen(m) == IF m \in told \/ feed[m].cond = "stop" THEN "STOPPED" ELSE "RUNNING"

\* A loom that already has an incident resumes it; one that stands still without
\* one is left for the first poll to raise.
SeedAs(m) == IF m \in told THEN "STOPPED"
             ELSE IF feed[m].cond = "stop" THEN "UNSET" ELSE "RUNNING"

\* seed, when the server answers and when it does not.
SeedFrom(rows) ==
  /\ last' = [m \in Loom |-> IF m \in rows \cup told THEN SeedAs(m) ELSE "UNSET"]
  /\ seen' = [m \in Loom |-> IF m \in rows THEN feed[m].ts ELSE Unseen]
  /\ cursor' = Newest(rows) /\ serverNow' = Newest(rows)
  /\ syncWall' = IF rows = {} THEN Unseen ELSE now

Restart ==
  /\ restarts < MaxRestarts /\ restarts' = restarts + 1
  /\ SeedFrom(Recent) \/ SeedFrom({})
  /\ reported' = {}
  /\ UNCHANGED <<now, plant, told>>

Init ==
  /\ now = 1 /\ changes = 0 /\ restarts = 0
  /\ machine \in [Loom -> {"stop", "run"}]
  /\ sending = Loom
  /\ feed = [m \in Loom |-> [ts |-> 1, cond |-> machine[m]]]
  /\ reported = {} /\ told = {}
  /\ last = [m \in Loom |-> IF machine[m] = "stop" THEN "UNSET" ELSE "RUNNING"]
  /\ seen = [m \in Loom |-> 1]
  /\ cursor = 1 /\ serverNow = 1 /\ syncWall = 1

Next ==
  \/ \E m \in Loom : LoomChanges(m)
  \/ Tick \/ Poll \/ Restart

Spec == Init /\ [][Next]_vars

\* The poller polls for ever, and the server answers it again and again; time passes.
FairSpec == Spec /\ WF_vars(Tick) /\ WF_vars(Poll)

-----------------------------------------------------------------------------
(* Properties. *)

\* What the adapter believes and what it has told the core agree: a loom it
\* takes for stopped or offline has an incident, whatever dark feed or restart
\* came in between.
StopIsTold == \A m \in Loom : last[m] \in {"STOPPED", "OFFLINE"} => m \in told

\* `since` is inclusive, so a stalled feed repeats its last rows for ever: of a
\* loom that went silent, a row that was seen before reports nothing, unless the
\* adapter's clock stands wrong by the threshold: nobody had polled for that long.
RepeatsReportNothing ==
  [][\A m \in Loom :
       /\ last[m] \in {"OFFLINE", "DARK"} /\ last'[m] # "OFFLINE"
       /\ \E kind \in {"opened", "resolved"} : <<kind, m>> \in reported'
       => feed[m].ts > seen[m] \/ syncWall - serverNow >= OfflineAfter]_vars

\* A loom that stands still for good, and says so, is raised in the end, though it
\* may have stopped while the whole feed was dark or the program was down.
StopIsSeen ==
  \A m \in Loom : <>[](machine[m] = "stop" /\ m \in sending) => <>[](m \in told)

\* "Silence must not read as running": a loom that falls silent for good while
\* another one transmits is raised in the end.  (After a restart the adapter does
\* not know the looms that are silent already: it warns about their number.)
SilenceIsTold ==
  [](restarts = 0) =>
    \A m \in Loom : <>[](m \notin sending /\ sending # {}) => <>[](m \in told)

\* "The loom restarting is the close event" (README): a loom that the adapter
\* takes for running has no incident any more.
ResumeIsTold == \A m \in told : last[m] # "RUNNING"
=============================================================================
