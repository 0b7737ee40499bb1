---------------------------- MODULE DeliveryProofs ----------------------------
(***************************************************************************)
(* Proofs about Delivery, for any number of pages, attempts and faults and *)
(* any delays.                                                             *)
(*                                                                         *)
(* Reports and crashes may come between any two steps of the outbox worker *)
(* and of the watchdog.  What makes them harmless is that a row only moves *)
(* forward: a page that failed stays failed, and neither the time of its   *)
(* failure nor that of its sending is ever set back (RowsForward).         *)
(***************************************************************************)
EXTENDS Delivery, FiniteSetTheorems, SequenceTheorems, WellFoundedInduction, TLAPS

\* The constants, one by one.
LEMMA Constants ==
  /\ MaxPages \in Nat /\ MaxFaults \in Nat /\ AssumeAfter \in Nat
  /\ MaxAttempts \in Nat \ {0} /\ BatchLimit \in Nat \ {0} /\ RepeatEvery \in Nat \ {0}
BY DeliveryAssumption

-----------------------------------------------------------------------------
(* Newest and oldest times. *)

\* A set of times has an oldest.
LEMMA MinIs ==
  ASSUME NEW S \in SUBSET Nat, S # {}
  PROVE  Min(S) \in S /\ \A t \in S : Min(S) <= t
<1> DEFINE R == {p \in Nat \X Nat : p[1] < p[2]}
<1>1. PICK x \in S : \A y \in S : <<y, x>> \notin R
  <2> HIDE DEF R
  <2>1. IsWellFoundedOn(R, Nat)
    BY NatLessThanWellFounded DEF R, OpToRel
  <2> QED
    BY <2>1, WFMin
<1>2. \A y \in S : x <= y
  <2>1. ASSUME NEW y \in S, y < x PROVE FALSE
    <3>1. <<y, x>> \in R
      BY <2>1
    <3> QED
      BY <3>1, <1>1
  <2> QED
    BY <2>1
<1> QED
  BY <1>2 DEF Min

\* Of times that lie in the past there is a newest.
LEMMA MaxIs ==
  ASSUME NEW n \in Nat, NEW S \in SUBSET (0 .. n), S # {}
  PROVE  Max(S) \in S /\ \A t \in S : t <= Max(S)
<1> DEFINE T == {n - t : t \in S}
<1>1. T \in SUBSET Nat /\ T # {}
  <2>1. \A t \in S : n - t \in Nat
    OBVIOUS
  <2>2. T \subseteq Nat
    BY <2>1
  <2>3. PICK t \in S : TRUE
    OBVIOUS
  <2>4. n - t \in T
    OBVIOUS
  <2> QED
    BY <2>2, <2>4
<1>2. Min(T) \in T /\ \A u \in T : Min(T) <= u
  <2> HIDE DEF T
  <2> QED
    BY <1>1, MinIs
<1> DEFINE x == Min(T)
<1>3. PICK m \in S : x = n - m
  <2> HIDE DEF x
  <2> SUFFICES x \in T
    OBVIOUS
  <2> QED
    BY <1>2 DEF x
<1>4. \A t \in S : t <= m
  <2> SUFFICES ASSUME NEW t \in S PROVE t <= m
    OBVIOUS
  <2>1. n - m <= n - t
    BY <1>2, <1>3
  <2>2. t \in Int /\ m \in Int
    OBVIOUS
  <2> HIDE DEF T
  <2> QED
    BY <2>1, <2>2
<1>5. \E u \in S : \A y \in S : u >= y
  BY <1>4
<1> QED
  BY <1>5 DEF Max

\* Latest is one of the times, or Null if there is none, and none is later.
LEMMA LatestIs ==
  ASSUME NEW n \in Nat, NEW S \in SUBSET (0 .. n)
  PROVE  /\ Latest(S) \in 0 .. n
         /\ Latest(S) # Null => Latest(S) \in S
         /\ \A t \in S : t <= Latest(S)
<1> DEFINE T == S \cup {Null}
<1>1. T \in SUBSET (0 .. n) /\ T # {}
  BY DEF Null
<1>2. Max(T) \in T /\ \A t \in T : t <= Max(T)
  <2> HIDE DEF T
  <2> QED
    BY <1>1, MaxIs
<1> QED
  BY <1>1, <1>2 DEF Latest

-----------------------------------------------------------------------------
(* The inductive invariant. *)

\* A page that is not there has no attempts, a page reported dead counts as failed,
\* one that waits has attempts left, and what happened to a page lies in the past.
RowsOK ==
  \A p \in Pages :
    /\ row[p].status = "none" => row[p] = NoPage
    /\ row[p].report = "failed" => row[p].status = "failed"
    /\ row[p].status = "queued" => row[p].attempts < MaxAttempts
    /\ row[p].sent <= now
    /\ row[p].status = "failed" => row[p].next <= now

\* The pages in hand are queued, due and different; and what the worker is about to
\* record as accepted the provider has.
BatchOK ==
  /\ \A k \in DOMAIN todo : row[todo[k]].status = "queued" /\ row[todo[k]].next <= now
  /\ \A j, k \in DOMAIN todo : todo[j] = todo[k] => j = k
  /\ outPc = "record" /\ outcome = "accepted" => copies[Head(todo)] # << >>

\* Some page failed at this time or later.
FailedSince(t) == \E p \in Pages : row[p].status = "failed" /\ t <= FailedAt(p)

\* What the watchdog remembers of failures, in alert_state or between two queries,
\* is no later than a failure in the table.
DogOK ==
  /\ since <= now
  /\ downSince # Null => FailedSince(downSince)
  /\ dogPc \in {"successes", "since"} /\ lastFail # Null => FailedSince(lastFail)
  /\ dogPc = "successes" /\ downSince # Null => downSince <= lastFail
  /\ dogPc = "since" => lastFail # Null
  /\ dogPc = "raise" => FailedSince(since)

\* A page reported as delivered is: the provider reports no more than happened.
ReportsTrue ==
  \A p \in Pages : row[p].report = "delivered" =>
    row[p].pid # Null /\ copies[p][row[p].pid] = "arrives"

DInv == TypeOK /\ ReportsMatch /\ ReportsTrue /\ RowsOK /\ BatchOK /\ DogOK

\* A row only moves forward, and so does the clock.
RowsForward ==
  /\ now <= now'
  /\ \A p \in Pages : /\ row[p].sent <= row'[p].sent
                      /\ row[p].status = "failed" =>
                           row'[p].status = "failed" /\ FailedAt(p) <= FailedAt(p)'

\* The parts of the type invariant that a step of one thread does not touch.
RowTypes  == row \in [Pages -> PageRow] /\ copies \in [Pages -> Seq({"arrives", "dies"})]
HandTypes == /\ outPc \in {"idle", "send", "record"} /\ todo \in Seq(Pages)
             /\ outPc = "idle" <=> todo = << >>
             /\ outcome \in {"accepted", "transient", "permanent"}
DogTypes  == /\ downSince \in Nat /\ alerts \subseteq Alert
             /\ dogPc \in {"idle", "successes", "since", "raise", "post", "clear", "forget"}
             /\ lastFail \in Nat /\ lastOk \in Nat /\ since \in Nat

LEMMA Types ==
  TypeOK <=> now \in Nat \ {0} /\ faults \in 0 .. MaxFaults /\ RowTypes /\ HandTypes /\ DogTypes
BY DEF TypeOK, RowTypes, HandTypes, DogTypes

\* The same of the next state.
LEMMA TypesNext ==
  ASSUME now' \in Nat \ {0}, faults' \in 0 .. MaxFaults, RowTypes', HandTypes', DogTypes'
  PROVE  TypeOK'
BY DEF TypeOK, RowTypes, HandTypes, DogTypes

\* Times of failures and successes lie in the past.
LEMMA TimesPast ==
  ASSUME DInv
  PROVE  /\ FailTimes \in SUBSET (0 .. now) /\ OkTimes \in SUBSET (0 .. now)
         /\ now \in Nat
<1>1. \A p \in Pages : row[p] \in PageRow
  BY DEF DInv, TypeOK
<1>2. \A p \in Pages : row[p].sent \in Nat /\ row[p].next \in Nat
  BY <1>1 DEF PageRow
<1>3. FailTimes \in SUBSET (0 .. now)
  BY <1>2 DEF FailTimes, FailedAt, With, DInv, RowsOK, TypeOK
<1>4. OkTimes \in SUBSET (0 .. now)
  BY <1>2 DEF OkTimes, With, DInv, RowsOK, TypeOK
<1> QED
  BY <1>3, <1>4 DEF DInv, TypeOK

\* What was known of failures stays true while rows move forward.
LEMMA ForwardKeeps ==
  ASSUME DInv, RowsForward, row' \in [Pages -> PageRow], now' \in Nat
  PROVE  \A t \in Nat : FailedSince(t) => FailedSince(t)'
<1>1. \A p \in Pages : row[p] \in PageRow /\ row'[p] \in PageRow
  BY DEF DInv, TypeOK
<1>2. \A p \in Pages : /\ row[p].sent \in Nat /\ row[p].next \in Nat
                       /\ row'[p].sent \in Nat /\ row'[p].next \in Nat
  BY <1>1 DEF PageRow
<1>3. \A p \in Pages : FailedAt(p) \in Nat /\ FailedAt(p)' \in Nat
  BY <1>2 DEF FailedAt
<1>4. ASSUME NEW t \in Nat, FailedSince(t)
      PROVE  FailedSince(t)'
  <2>1. PICK p \in Pages : row[p].status = "failed" /\ t <= FailedAt(p)
    BY <1>4 DEF FailedSince
  <2>2. row'[p].status = "failed" /\ FailedAt(p) <= FailedAt(p)'
    BY <2>1 DEF RowsForward
  <2>3. t <= FailedAt(p)'
    BY <1>3, <2>1, <2>2
  <2> QED
    BY <2>2, <2>3 DEF FailedSince
<1> QED
  BY <1>4

\* So a step of somebody else leaves the watchdog what it knows.
LEMMA DogKept ==
  ASSUME DInv, RowsForward, row' \in [Pages -> PageRow], now' \in Nat, UNCHANGED <<alarm, dog>>
  PROVE  DogTypes' /\ DogOK'
<1>1. UNCHANGED <<downSince, alerts, dogPc, lastFail, lastOk, since>>
  BY DEF alarm, dog
<1>2. DogTypes
  BY Types DEF DInv
<1>3. DogTypes'
  BY <1>1, <1>2 DEF DogTypes
<1>4. since <= now'
  BY <1>2 DEF DInv, DogOK, RowsForward, DogTypes, TypeOK
<1>5. DogOK'
  <2> DEFINE Still(t) == \E p \in Pages : row'[p].status = "failed" /\ t <= FailedAt(p)'
  <2>1. \A t \in Nat : FailedSince(t) => Still(t)
    BY ForwardKeeps DEF FailedSince
  <2> HIDE DEF Still
  <2>2. /\ downSince # Null => Still(downSince)
        /\ dogPc \in {"successes", "since"} /\ lastFail # Null => Still(lastFail)
        /\ dogPc = "raise" => Still(since)
    BY <1>2, <2>1, ForwardKeeps DEF DInv, DogOK, DogTypes
  <2> QED
    BY <1>1, <1>4, <2>2 DEF DInv, DogOK, FailedSince, Still
<1> QED
  BY <1>3, <1>5

-----------------------------------------------------------------------------
(* The queue, the clock and the reports. *)

\* A step that moves no row and does not turn the clock back.
LEMMA RowsStand ==
  ASSUME DInv, row' = row, now' \in Nat, now <= now'
  PROVE  RowsForward
<1>1. \A p \in Pages : row[p] \in PageRow
  BY DEF DInv, TypeOK
<1>2. \A p \in Pages : row[p].sent \in Nat /\ row[p].next \in Nat
  BY <1>1 DEF PageRow
<1> QED
  BY <1>2 DEF RowsForward, FailedAt

\* What leaves the rows, the copies and the clock alone.
LEMMA RowsSame ==
  ASSUME DInv, UNCHANGED <<now, row, copies>>
  PROVE  RowTypes' /\ ReportsMatch' /\ ReportsTrue' /\ RowsOK' /\ RowsForward
<1>1. RowsForward
  BY RowsStand DEF DInv, TypeOK
<1> QED
  BY <1>1 DEF DInv, TypeOK, RowTypes, ReportsMatch, ReportsTrue, RowsOK

\* The clock: what was past stays past.
LEMMA TickKeeps ==
  ASSUME DInv, Tick
  PROVE  DInv' /\ RowsForward
<1>1. now' \in Nat \ {0} /\ now <= now' /\ now \in Nat
      /\ UNCHANGED <<faults, row, copies, outPc, todo, outcome, alarm, dog>>
  BY DEF Tick, DInv, TypeOK, worker
<1>2. RowsForward
  BY <1>1, RowsStand
<1>3. RowTypes' /\ HandTypes' /\ faults' \in 0 .. MaxFaults
  BY <1>1, Types DEF DInv, RowTypes, HandTypes
<1>4. DogTypes' /\ DogOK'
  BY <1>1, <1>2, DogKept DEF DInv, TypeOK
<1>5. \A p \in Pages : row[p].sent \in Nat /\ row[p].next \in Nat
  <2>1. \A p \in Pages : row[p] \in PageRow
    BY DEF DInv, TypeOK
  <2> QED
    BY <2>1 DEF PageRow
<1>6. RowsOK'
  BY <1>1, <1>5 DEF DInv, RowsOK
<1>7. BatchOK'
  <2>1. \A k \in DOMAIN todo : todo[k] \in Pages
    BY DEF DInv, TypeOK
  <2> QED
    BY <1>1, <1>5, <2>1 DEF DInv, BatchOK
<1>8. ReportsMatch' /\ ReportsTrue'
  BY <1>1 DEF DInv, ReportsMatch, ReportsTrue
<1>9. TypeOK'
  BY <1>1, <1>3, <1>4, TypesNext
<1> QED
  BY <1>2, <1>4, <1>6, <1>7, <1>8, <1>9 DEF DInv

\* A step that writes one row, as it should be, and further on than it was.
LEMMA RowMoves ==
  ASSUME DInv, NEW p \in Pages, NEW r \in PageRow, row' = [row EXCEPT ![p] = r],
         UNCHANGED <<now, copies, alarm, dog>>,
         r.report = "failed" => r.status = "failed",
         r.status = "none" => r = NoPage,
         r.status = "queued" => r.attempts < MaxAttempts,
         r.sent <= now, r.status = "failed" => r.next <= now,
         r.pid # Null => r.pid = Len(copies[p]),
         r.status = "sent" => r.pid # Null,
         r.status = "queued" => r.pid = Null,
         r.report = "delivered" => r.pid # Null /\ copies[p][r.pid] = "arrives",
         row[p].sent <= r.sent,
         row[p].status = "failed" =>
           r.status = "failed" /\ FailedAt(p) <= (IF r.next # Null THEN r.next ELSE r.sent)
  PROVE  /\ RowTypes' /\ ReportsMatch' /\ ReportsTrue' /\ RowsOK' /\ RowsForward
         /\ DogTypes' /\ DogOK'
<1>1. /\ row'[p] = r /\ row' \in [Pages -> PageRow]
      /\ \A q \in Pages \ {p} : row'[q] = row[q]
  BY DEF DInv, TypeOK
<1>2. \A q \in Pages : row[q] \in PageRow
  BY DEF DInv, TypeOK
<1>3. \A q \in Pages : row[q].sent \in Nat /\ row[q].next \in Nat
  BY <1>2 DEF PageRow
<1>4. RowsForward
  <2>1. now <= now'
    BY DEF DInv, TypeOK
  <2>2. FailedAt(p)' = IF r.next # Null THEN r.next ELSE r.sent
    BY <1>1 DEF FailedAt
  <2>3. \A q \in Pages \ {p} : FailedAt(q)' = FailedAt(q) /\ FailedAt(q) \in Nat
    BY <1>1, <1>3 DEF FailedAt
  <2> QED
    BY <1>1, <1>3, <2>1, <2>2, <2>3 DEF RowsForward
<1>5. DogTypes' /\ DogOK'
  BY <1>1, <1>4, DogKept DEF DInv, TypeOK
<1>6. ReportsMatch' /\ ReportsTrue'
  BY <1>1 DEF DInv, ReportsMatch, ReportsTrue
<1>7. RowsOK'
  BY <1>1 DEF DInv, RowsOK
<1>8. RowTypes'
  BY <1>1, Types DEF DInv, RowTypes
<1> QED
  BY <1>4, <1>5, <1>6, <1>7, <1>8

\* The same, of a page that is not in hand.
LEMMA OneRow ==
  ASSUME DInv, NEW p \in Pages, NEW r \in PageRow, row' = [row EXCEPT ![p] = r],
         UNCHANGED <<now, copies, faults, worker, alarm, dog>>,
         \A k \in DOMAIN todo : todo[k] # p,
         r.report = "failed" => r.status = "failed",
         r.status = "none" => r = NoPage,
         r.status = "queued" => r.attempts < MaxAttempts,
         r.sent <= now, r.status = "failed" => r.next <= now,
         r.pid # Null => r.pid = Len(copies[p]),
         r.status = "sent" => r.pid # Null,
         r.status = "queued" => r.pid = Null,
         r.report = "delivered" => r.pid # Null /\ copies[p][r.pid] = "arrives",
         row[p].sent <= r.sent,
         row[p].status = "failed" =>
           r.status = "failed" /\ FailedAt(p) <= (IF r.next # Null THEN r.next ELSE r.sent)
  PROVE  DInv' /\ RowsForward
<1>1. /\ RowTypes' /\ ReportsMatch' /\ ReportsTrue' /\ RowsOK' /\ RowsForward
      /\ DogTypes' /\ DogOK'
  BY RowMoves
<1>2. \A q \in Pages \ {p} : row'[q] = row[q]
  BY DEF DInv, TypeOK
<1>3. UNCHANGED <<now, copies, faults, outPc, todo, outcome>>
  BY DEF worker
<1>4. BatchOK'
  <2>1. \A k \in DOMAIN todo : todo[k] \in Pages
    BY DEF DInv, TypeOK
  <2> QED
    BY <1>2, <1>3, <2>1 DEF DInv, BatchOK
<1>5. HandTypes'
  BY <1>3, Types DEF DInv, HandTypes
<1>6. now' \in Nat \ {0} /\ faults' \in 0 .. MaxFaults
  BY <1>3, Types DEF DInv
<1>7. TypeOK'
  BY <1>1, <1>5, <1>6, TypesNext
<1> QED
  BY <1>1, <1>4, <1>7 DEF DInv

\* A page that was not there is in nobody's hand.
LEMMA EnqueueKeeps ==
  ASSUME DInv, NEW p \in Pages, Enqueue(p)
  PROVE  DInv' /\ RowsForward
<1>1. now \in Nat \ {0} /\ row[p].status = "none"
  BY DEF DInv, TypeOK, Enqueue
<1>0. PICK r \in PageRow : r = [NoPage EXCEPT !.status = "queued", !.next = now]
  BY <1>1 DEF NoPage, PageRow, Null
<1>2. row[p] = NoPage
  BY <1>1 DEF DInv, RowsOK
<1>3. /\ r \in PageRow /\ r.status = "queued" /\ r.report = "none" /\ r.attempts = 0
      /\ r.sent = 0 /\ r.pid = Null
  BY <1>0, <1>1 DEF NoPage, Null
<1>4. row' = [row EXCEPT ![p] = r] /\ UNCHANGED <<now, copies, faults, worker, alarm, dog>>
  BY <1>0 DEF Enqueue
<1>5. \A k \in DOMAIN todo : todo[k] # p
  BY <1>1 DEF DInv, BatchOK
<1>6. row[p].sent = 0
  BY <1>2 DEF NoPage, Null
<1>7. r.attempts < MaxAttempts /\ r.sent <= now /\ row[p].sent <= r.sent
  BY <1>1, <1>3, <1>6, DeliveryAssumption
<1>8. /\ r.report = "failed" => r.status = "failed"
      /\ r.status = "none" => r = NoPage
      /\ r.status = "queued" => r.attempts < MaxAttempts
      /\ r.sent <= now /\ (r.status = "failed" => r.next <= now)
      /\ r.pid # Null => r.pid = Len(copies[p])
      /\ r.status = "sent" => r.pid # Null
      /\ r.status = "queued" => r.pid = Null
      /\ r.report = "delivered" => r.pid # Null /\ copies[p][r.pid] = "arrives"
      /\ row[p].sent <= r.sent
      /\ row[p].status = "failed" =>
           r.status = "failed" /\ FailedAt(p) <= (IF r.next # Null THEN r.next ELSE r.sent)
  BY <1>1, <1>3, <1>7
<1> QED
  BY <1>4, <1>5, <1>8, OneRow

\* A report, however late, finds the row of its copy, and never revives a page.
LEMMA ReportKeeps ==
  ASSUME DInv, NEW p \in Pages, NEW v \in {"submitted", "delivered", "failed"}, Report(p, v)
  PROVE  DInv' /\ RowsForward
<1>1. row[p] \in PageRow /\ now \in Nat \ {0} /\ row[p].pid # Null
  BY DEF DInv, TypeOK, Report
<1>0. PICK r \in PageRow : r = Reported(row[p], v)
  <2>1. Reported(row[p], v) \in PageRow
    BY <1>1 DEF Reported, PageRow
  <2> QED
    BY <2>1
<1>2. /\ row[p].status # "queued" /\ row[p].status # "none"
      /\ row[p].status = "failed" => row[p].next <= now
      /\ row[p].sent <= now /\ row[p].pid = Len(copies[p])
      /\ row[p].report = "failed" => row[p].status = "failed"
  BY <1>1 DEF DInv, ReportsMatch, RowsOK, NoPage
<1>3. /\ r \in PageRow /\ r.pid = row[p].pid /\ r.sent = row[p].sent /\ r.report = v
      /\ IF v = "failed" THEN r.status = "failed" /\ r.next = now
         ELSE r.status = row[p].status /\ r.next = row[p].next
  BY <1>0, <1>1 DEF Reported, PageRow
<1>4. row' = [row EXCEPT ![p] = r] /\ UNCHANGED <<now, copies, faults, worker, alarm, dog>>
  BY <1>0 DEF Report
<1>5. \A k \in DOMAIN todo : todo[k] # p
  BY <1>2 DEF DInv, BatchOK
<1>6. row[p].sent \in Nat /\ row[p].next \in Nat /\ FailedAt(p) \in Nat
  BY <1>1 DEF PageRow, FailedAt
<1>d. v = "delivered" => copies[p][row[p].pid] = "arrives"
  BY DEF Report, Verdicts
<1>7. row[p].status = "failed" =>
        r.status = "failed" /\ FailedAt(p) <= (IF r.next # Null THEN r.next ELSE r.sent)
  BY <1>1, <1>2, <1>3, <1>6 DEF FailedAt, Null
<1>8. /\ r.report = "failed" => r.status = "failed"
      /\ r.status = "none" => r = NoPage
      /\ r.status = "queued" => r.attempts < MaxAttempts
      /\ r.sent <= now /\ (r.status = "failed" => r.next <= now)
      /\ r.pid # Null => r.pid = Len(copies[p])
      /\ r.status = "sent" => r.pid # Null
      /\ r.status = "queued" => r.pid = Null
      /\ r.report = "delivered" => r.pid # Null /\ copies[p][r.pid] = "arrives"
      /\ row[p].sent <= r.sent
      /\ row[p].status = "failed" =>
           r.status = "failed" /\ FailedAt(p) <= (IF r.next # Null THEN r.next ELSE r.sent)
  BY <1>1, <1>2, <1>3, <1>6, <1>7, <1>d
<1> QED
  BY <1>4, <1>5, <1>8, OneRow

-----------------------------------------------------------------------------
(* The outbox worker. *)

\* The first elements of a sequence.
LEMMA Prefix ==
  ASSUME NEW S, NEW s \in Seq(S), NEW n \in Nat, n <= Len(s)
  PROVE  /\ SubSeq(s, 1, n) \in Seq(S) /\ Len(SubSeq(s, 1, n)) = n
         /\ \A i \in 1 .. n : SubSeq(s, 1, n)[i] = s[i]
OBVIOUS

\* A batch is some of the pages that were due, none of them twice.
LEMMA BatchIs ==
  ASSUME NEW W \in SUBSET Pages, NEW ready \in SetToSeqs(W),
         NEW n, n = Min({BatchLimit, Len(ready)})
  PROVE  /\ SubSeq(ready, 1, n) \in Seq(W)
         /\ \A j, k \in DOMAIN SubSeq(ready, 1, n) :
              SubSeq(ready, 1, n)[j] = SubSeq(ready, 1, n)[k] => j = k
<1>1. IsFiniteSet(Pages)
  BY FS_Interval, DeliveryAssumption DEF Pages
<1>2. Cardinality(W) \in Nat
  BY <1>1, FS_Subset, FS_CardinalityType
<1>3. /\ ready \in [1 .. Cardinality(W) -> W]
      /\ \A j, k \in 1 .. Cardinality(W) : j # k => ready[j] # ready[k]
  BY DEF SetToSeqs
<1>4. ready \in Seq(W) /\ Len(ready) = Cardinality(W)
  BY <1>2, <1>3
<1>5. n \in Nat /\ n <= Cardinality(W)
  <2>1. BatchLimit \in Nat /\ Len(ready) \in Nat
    BY <1>2, <1>4, Constants
  <2>2. PICK T \in SUBSET Nat : T = {BatchLimit, Len(ready)}
    BY <2>1
  <2>3. n \in T /\ \A t \in T : n <= t
    BY <2>2, MinIs
  <2> QED
    BY <1>4, <2>1, <2>2, <2>3
<1>6. \A i \in 1 .. n : ready[i] \in W
  BY <1>2, <1>3, <1>5
<1> DEFINE b == SubSeq(ready, 1, n)
<1>7. b \in Seq(W) /\ Len(b) = n /\ \A i \in 1 .. n : b[i] = ready[i]
  BY <1>4, <1>5, Prefix
<1> HIDE DEF b
<1>8. \A j, k \in DOMAIN b : b[j] = b[k] => j = k
  <2>1. DOMAIN b = 1 .. n
    BY <1>7
  <2>2. \A j \in 1 .. n : j \in 1 .. Cardinality(W)
    BY <1>2, <1>5
  <2> QED
    BY <1>3, <1>7, <2>1, <2>2
<1> QED
  BY <1>7, <1>8 DEF b

\* What a step of the worker that moves no row owes to the invariant.
LEMMA WorkerKeeps ==
  ASSUME DInv, UNCHANGED <<now, row, alarm, dog>>, faults' \in 0 .. MaxFaults,
         RowTypes', ReportsMatch', ReportsTrue', HandTypes', BatchOK'
  PROVE  DInv' /\ RowsForward
<1>1. RowsForward
  BY RowsStand DEF DInv, TypeOK
<1>2. DogTypes' /\ DogOK'
  BY <1>1, DogKept DEF DInv, TypeOK
<1>3. RowsOK'
  BY DEF DInv, RowsOK
<1>4. TypeOK'
  BY <1>2, TypesNext DEF DInv, TypeOK
<1> QED
  BY <1>1, <1>2, <1>3, <1>4 DEF DInv

\* The pages of a batch are due when it is read.
LEMMA DrainQueryKeeps ==
  ASSUME DInv, DrainQuery
  PROVE  DInv' /\ RowsForward
<1>1. PICK W \in SUBSET Pages : W = {p \in Pages : Due(p)}
  OBVIOUS
<1>2. PICK ready \in SetToSeqs(W) : todo' = SubSeq(ready, 1, Min({BatchLimit, Len(ready)}))
  BY <1>1 DEF DrainQuery
<1>3. /\ todo' \in Seq(W)
      /\ \A j, k \in DOMAIN todo' : todo'[j] = todo'[k] => j = k
  BY <1>2, BatchIs
<1>4. /\ outPc' = (IF todo' = << >> THEN "idle" ELSE "send")
      /\ UNCHANGED <<now, row, copies, faults, outcome, alarm, dog>>
  BY DEF DrainQuery, NextPc
<1>5. HandTypes'
  <2>1. outcome \in {"accepted", "transient", "permanent"}
    BY DEF DInv, TypeOK
  <2> QED
    BY <1>3, <1>4, <2>1 DEF HandTypes
<1>6. BatchOK'
  <2>1. \A k \in DOMAIN todo' : todo'[k] \in W
    BY <1>3
  <2>2. \A k \in DOMAIN todo' : row[todo'[k]].status = "queued" /\ row[todo'[k]].next <= now
    BY <1>1, <2>1 DEF Due
  <2> QED
    BY <1>3, <1>4, <2>2 DEF BatchOK
<1>7. RowTypes' /\ ReportsMatch' /\ ReportsTrue'
  BY <1>4, RowsSame
<1>8. faults' \in 0 .. MaxFaults
  BY <1>4 DEF DInv, TypeOK
<1> QED
  BY <1>4, <1>5, <1>6, <1>7, <1>8, WorkerKeeps

\* The page in hand is queued, and was handed out as no copy that counts.
LEMMA InHand ==
  ASSUME DInv, outPc # "idle"
  PROVE  /\ todo \in Seq(Pages) /\ todo # << >> /\ Head(todo) \in Pages
         /\ Head(todo) = todo[1] /\ 1 \in DOMAIN todo
         /\ row[Head(todo)].status = "queued" /\ row[Head(todo)].next <= now
         /\ row[Head(todo)].pid = Null /\ row[Head(todo)].report # "delivered"
<1>1. todo \in Seq(Pages) /\ todo # << >>
  BY DEF DInv, TypeOK
<1>2. Head(todo) = todo[1] /\ 1 \in DOMAIN todo /\ Head(todo) \in Pages
  BY <1>1
<1> QED
  BY <1>1, <1>2 DEF DInv, BatchOK, ReportsMatch, ReportsTrue

\* A copy more of a page that waits is matched by no report yet.
LEMMA SendKeeps ==
  ASSUME DInv, Send
  PROVE  DInv' /\ RowsForward
<1> DEFINE p == Head(todo)
<1>1. /\ outPc = "send" /\ outPc' = "record"
      /\ UNCHANGED <<now, row, todo, alarm, dog>>
  BY DEF Send
<1>2. p \in Pages /\ row[p].pid = Null /\ row[p].report # "delivered"
      /\ todo # << >> /\ todo \in Seq(Pages)
  BY <1>1, InHand
<1>3. /\ outcome' \in {"accepted", "transient", "permanent"}
      /\ \/ UNCHANGED copies /\ outcome' # "accepted"
         \/ \E fate \in {"arrives", "dies"} : copies' = [copies EXCEPT ![p] = Append(@, fate)]
      /\ UNCHANGED faults \/ (faults < MaxFaults /\ faults' = faults + 1)
  BY DEF Send
<1> HIDE DEF p
<1>4. faults' \in 0 .. MaxFaults
  BY <1>3, Constants DEF DInv, TypeOK
<1>5. /\ copies' \in [Pages -> Seq({"arrives", "dies"})]
      /\ \A q \in Pages \ {p} : copies'[q] = copies[q]
      /\ outcome' = "accepted" => copies'[p] # << >>
  <2>1. CASE UNCHANGED copies /\ outcome' # "accepted"
    BY <2>1 DEF DInv, TypeOK
  <2>2. ASSUME NEW fate \in {"arrives", "dies"}, copies' = [copies EXCEPT ![p] = Append(@, fate)]
        PROVE  /\ copies' \in [Pages -> Seq({"arrives", "dies"})]
               /\ \A q \in Pages \ {p} : copies'[q] = copies[q]
               /\ copies'[p] # << >>
    BY <1>2, <2>2 DEF DInv, TypeOK
  <2> QED
    BY <1>3, <2>1, <2>2
<1>6. RowTypes'
  BY <1>1, <1>5, Types DEF DInv, RowTypes
<1>7. HandTypes'
  BY <1>1, <1>2, <1>3 DEF HandTypes
<1>8. ReportsMatch' /\ ReportsTrue'
  BY <1>1, <1>2, <1>5 DEF DInv, ReportsMatch, ReportsTrue
<1>9. BatchOK'
  BY <1>1, <1>5 DEF DInv, BatchOK, p
<1> QED
  BY <1>1, <1>4, <1>6, <1>7, <1>8, <1>9, WorkerKeeps

\* What is recorded of an attempt: the id is that of the copy just accepted, and a
\* page that is given up failed no later than now.
LEMMA RecordKeeps ==
  ASSUME DInv, Record
  PROVE  DInv' /\ RowsForward
<1>1. PICK p \in Pages : p = Head(todo)
  BY InHand DEF Record
<1>2. /\ outPc = "record" /\ outPc' = (IF todo' = << >> THEN "idle" ELSE "send")
      /\ row' = [row EXCEPT ![p] = Recorded(p)]
      /\ todo' = Tail(todo) /\ outcome' = "accepted"
      /\ UNCHANGED <<now, copies, faults, alarm, dog>>
  BY <1>1 DEF Record, NextPc
<1>3. /\ todo \in Seq(Pages) /\ todo # << >> /\ p = todo[1] /\ 1 \in DOMAIN todo
      /\ row[p].status = "queued" /\ row[p].next <= now /\ row[p].pid = Null
      /\ row[p].report # "delivered"
  BY <1>1, <1>2, InHand
<1>4. /\ row[p] \in PageRow /\ now \in Nat \ {0} /\ copies[p] \in Seq({"arrives", "dies"})
      /\ outcome \in {"accepted", "transient", "permanent"}
  BY DEF DInv, TypeOK
<1>5. /\ row[p].attempts < MaxAttempts /\ row[p].report # "failed" /\ row[p].sent <= now
      /\ outcome = "accepted" => copies[p] # << >>
  BY <1>1, <1>2, <1>3 DEF DInv, RowsOK, BatchOK
<1>6. CopyId(p) \in Nat /\ (outcome = "accepted" => CopyId(p) # Null)
  BY <1>4, <1>5 DEF CopyId, Null
<1>7. /\ row[p].attempts \in Nat /\ row[p].next \in Nat /\ row[p].sent \in Nat
      /\ row[p].report \in {"none", "submitted", "delivered", "failed"}
  BY <1>4 DEF PageRow
<1>8. row[p].attempts + 1 \in 1 .. MaxAttempts /\ Backoff(row[p].attempts + 1) \in Nat
  BY <1>5, <1>7, Constants, BackoffAssumption
<1>9. PICK r \in PageRow : r = Recorded(p)
  <2>1. PICK c \in Nat, a \in Nat, n \in Nat :
          c = CopyId(p) /\ a = row[p].attempts + 1 /\ n = now + Backoff(a)
    BY <1>4, <1>6, <1>7, <1>8
  <2>2. /\ [row[p] EXCEPT !.status = "sent", !.sent = now, !.pid = c, !.attempts = a] \in PageRow
        /\ [row[p] EXCEPT !.status = "failed", !.attempts = a] \in PageRow
        /\ [row[p] EXCEPT !.attempts = a, !.next = n] \in PageRow
    BY <1>4 DEF PageRow
  <2>3. Recorded(p) \in
          {[row[p] EXCEPT !.status = "sent", !.sent = now, !.pid = c, !.attempts = a],
           [row[p] EXCEPT !.status = "failed", !.attempts = a],
           [row[p] EXCEPT !.attempts = a, !.next = n]}
    BY <2>1 DEF Recorded
  <2> QED
    BY <2>2, <2>3
<1>10. /\ r.report = row[p].report
       /\ \/ /\ outcome = "accepted" /\ r.status = "sent" /\ r.sent = now
             /\ r.pid = Len(copies[p])
          \/ /\ r.status = "failed" /\ r.next = row[p].next
             /\ r.sent = row[p].sent /\ r.pid = row[p].pid
          \/ /\ r.status = "queued" /\ r.attempts < MaxAttempts
             /\ r.sent = row[p].sent /\ r.pid = row[p].pid
  <2>1. PICK a \in Nat : a = row[p].attempts + 1
    BY <1>7
  <2>2. CASE outcome = "accepted"
    <3>1. r = [row[p] EXCEPT !.status = "sent", !.sent = now, !.pid = CopyId(p), !.attempts = a]
      BY <1>9, <2>1, <2>2 DEF Recorded
    <3> QED
      BY <1>4, <2>2, <3>1 DEF PageRow, CopyId
  <2>3. CASE outcome # "accepted" /\ GivesUp(a)
    <3>1. r = [row[p] EXCEPT !.status = "failed", !.attempts = a]
      BY <1>9, <2>1, <2>3 DEF Recorded
    <3> QED
      BY <1>4, <3>1 DEF PageRow
  <2>4. CASE outcome # "accepted" /\ ~GivesUp(a)
    <3>1. r = [row[p] EXCEPT !.attempts = a, !.next = now + Backoff(a)]
      BY <1>9, <2>1, <2>4 DEF Recorded
    <3>2. a < MaxAttempts
      BY <2>1, <2>4, Constants DEF GivesUp
    <3> QED
      BY <1>3, <1>4, <3>1, <3>2 DEF PageRow
  <2> QED
    BY <2>2, <2>3, <2>4
<1>11. /\ r.report = "failed" => r.status = "failed"
       /\ r.status = "none" => r = NoPage
       /\ r.status = "queued" => r.attempts < MaxAttempts
       /\ r.sent <= now /\ (r.status = "failed" => r.next <= now)
       /\ r.pid # Null => r.pid = Len(copies[p])
       /\ r.status = "sent" => r.pid # Null
       /\ r.status = "queued" => r.pid = Null
       /\ r.report = "delivered" => r.pid # Null /\ copies[p][r.pid] = "arrives"
       /\ row[p].sent <= r.sent
       /\ row[p].status = "failed" =>
            r.status = "failed" /\ FailedAt(p) <= (IF r.next # Null THEN r.next ELSE r.sent)
  BY <1>3, <1>4, <1>5, <1>6, <1>7, <1>10 DEF CopyId
<1>12. row' = [row EXCEPT ![p] = r]
  BY <1>2, <1>9
<1>13. /\ RowTypes' /\ ReportsMatch' /\ ReportsTrue' /\ RowsOK' /\ RowsForward
       /\ DogTypes' /\ DogOK'
  BY <1>2, <1>11, <1>12, RowMoves
<1>14. /\ todo' \in Seq(Pages)
       /\ \A k \in DOMAIN todo' : /\ k \in Nat \ {0} /\ k + 1 \in DOMAIN todo
                                 /\ todo'[k] = todo[k + 1]
  BY <1>2, <1>3
<1>15. HandTypes'
  BY <1>2, <1>14 DEF HandTypes
<1>16. BatchOK'
  <2>1. ASSUME NEW k \in DOMAIN todo'
        PROVE  row'[todo'[k]].status = "queued" /\ row'[todo'[k]].next <= now
    <3>1. todo[k + 1] # todo[1] /\ todo[k + 1] \in Pages
      BY <1>3, <1>14, <2>1 DEF DInv, BatchOK
    <3>2. row'[todo'[k]] = row[todo[k + 1]]
      BY <1>3, <1>12, <1>14, <2>1, <3>1 DEF DInv, TypeOK
    <3> QED
      BY <1>14, <2>1, <3>2 DEF DInv, BatchOK
  <2>2. ASSUME NEW j \in DOMAIN todo', NEW k \in DOMAIN todo', todo'[j] = todo'[k]
        PROVE  j = k
    <3>1. todo[j + 1] = todo[k + 1]
      BY <1>14, <2>2
    <3>2. j + 1 = k + 1
      BY <1>14, <3>1 DEF DInv, BatchOK
    <3> QED
      BY <1>14, <3>2
  <2> QED
    BY <1>2, <2>1, <2>2 DEF BatchOK
<1>17. TypeOK'
  BY <1>2, <1>13, <1>15, TypesNext DEF DInv, TypeOK
<1> QED
  BY <1>13, <1>16, <1>17 DEF DInv

\* A transaction that raises leaves the tables alone.
LEMMA RaisesKeeps ==
  ASSUME DInv, RecordRaises
  PROVE  DInv' /\ RowsForward
<1>1. /\ outPc = "record" /\ faults < MaxFaults /\ faults' = faults + 1
      /\ UNCHANGED <<now, row, copies, alarm, dog>>
      /\ \/ outcome' = "transient" /\ UNCHANGED <<outPc, todo>>
         \/ outPc' = "idle" /\ todo' = << >> /\ outcome' = "accepted"
  BY DEF RecordRaises
<1>2. faults' \in 0 .. MaxFaults
  BY <1>1, Constants DEF DInv, TypeOK
<1>3. RowTypes' /\ ReportsMatch' /\ ReportsTrue'
  BY <1>1, RowsSame
<1>4. todo \in Seq(Pages) /\ (outPc = "idle" <=> todo = << >>)
  BY DEF DInv, TypeOK
<1>5. HandTypes'
  <2>1. CASE outcome' = "transient" /\ UNCHANGED <<outPc, todo>>
    BY <1>1, <1>4, <2>1 DEF HandTypes
  <2>2. CASE outPc' = "idle" /\ todo' = << >> /\ outcome' = "accepted"
    BY <2>2 DEF HandTypes
  <2> QED
    BY <1>1, <2>1, <2>2
<1>6. BatchOK'
  BY <1>1 DEF DInv, BatchOK
<1> QED
  BY <1>1, <1>2, <1>3, <1>5, <1>6, WorkerKeeps

-----------------------------------------------------------------------------
(* The watchdog, and a restart. *)

\* What a step of the watchdog owes to the invariant.
LEMMA WatchKeeps ==
  ASSUME DInv, UNCHANGED <<now, row, copies, faults, worker>>,
         DogTypes', DogOK'
  PROVE  DInv' /\ RowsForward
<1>1. UNCHANGED <<outPc, todo, outcome>>
  BY DEF worker
<1>2. RowTypes' /\ ReportsMatch' /\ ReportsTrue' /\ RowsOK' /\ RowsForward
  BY RowsSame
<1>3. HandTypes'
  BY <1>1, Types DEF DInv, HandTypes
<1>4. BatchOK'
  BY <1>1 DEF DInv, BatchOK
<1>5. TypeOK'
  BY <1>2, <1>3, TypesNext DEF DInv, TypeOK
<1> QED
  BY <1>2, <1>4, <1>5 DEF DInv

\* The newest failure is no older than any that is remembered.
LEMMA FailuresKeeps ==
  ASSUME DInv, WatchFailures
  PROVE  DInv' /\ RowsForward
<1>1. /\ dogPc' = "successes" /\ lastFail' = Latest(FailTimes)
      /\ UNCHANGED <<now, row, copies, faults, worker, downSince, alerts, lastOk, since>>
  BY DEF WatchFailures, alarm
<1>0. PICK n \in Nat : n = now
  BY TimesPast
<1>2. PICK S \in SUBSET (0 .. n) : S = FailTimes
  BY <1>0, TimesPast
<1>3. /\ lastFail' \in Nat /\ (lastFail' # Null => lastFail' \in FailTimes)
      /\ \A t \in FailTimes : t <= lastFail'
  BY <1>1, <1>2, LatestIs
<1>4. DogTypes
  BY Types DEF DInv
<1>5. DogTypes'
  BY <1>1, <1>3, <1>4 DEF DogTypes
<1>6. \A p \in Pages : row[p].status = "failed" => FailedAt(p) \in FailTimes
  BY DEF FailTimes, With
<1>7. \A t \in FailTimes : t \in Nat
  BY <1>2
<1>8. lastFail' # Null => \E p \in Pages : row[p].status = "failed" /\ lastFail' <= FailedAt(p)
  BY <1>3, <1>7 DEF FailTimes, With
<1>9. downSince # Null => downSince <= lastFail'
  <2>1. SUFFICES ASSUME downSince # Null PROVE downSince <= lastFail'
    OBVIOUS
  <2>2. PICK p \in Pages : row[p].status = "failed" /\ downSince <= FailedAt(p)
    BY <2>1 DEF DInv, DogOK, FailedSince
  <2> QED
    BY <1>3, <1>4, <1>6, <1>7, <2>2 DEF DogTypes
<1>10. DogOK'
  BY <1>1, <1>8, <1>9 DEF DInv, DogOK, FailedSince, FailedAt
<1> QED
  BY <1>1, <1>5, <1>10, WatchKeeps

\* What the check decides, it decides of a failure that is in the table.
LEMMA SuccessesKeeps ==
  ASSUME DInv, WatchSuccesses
  PROVE  DInv' /\ RowsForward
<1>1. /\ dogPc = "successes"
      /\ UNCHANGED <<now, row, copies, faults, worker, downSince, alerts>>
  BY DEF WatchSuccesses, alarm
<1>0. PICK n \in Nat : n = now
  BY TimesPast
<1>2. PICK S \in SUBSET (0 .. n) : S = OkTimes
  BY <1>0, TimesPast
<1>3. PICK ok \in Nat : /\ ok = Latest(OkTimes)
                        /\ ok # Null => ok \in OkTimes
  BY <1>2, LatestIs
<1>4. DogTypes
  BY Types DEF DInv
<1>5. CASE /\ Down(lastFail, ok) /\ dogPc' = "since" /\ lastOk' = ok
           /\ UNCHANGED <<lastFail, since>>
  <2>1. DogTypes'
    BY <1>1, <1>4, <1>5 DEF DogTypes
  <2>2. DogOK'
    BY <1>1, <1>5 DEF DInv, DogOK, Down, FailedSince, FailedAt
  <2> QED
    BY <1>1, <2>1, <2>2, WatchKeeps
<1>6. CASE /\ ~Down(lastFail, ok) /\ downSince # Null /\ dogPc' = "clear"
           /\ lastFail' = Null /\ UNCHANGED <<lastOk, since>>
  <2>1. DogTypes'
    BY <1>1, <1>4, <1>6 DEF DogTypes, Null
  <2>2. DogOK'
    BY <1>1, <1>6 DEF DInv, DogOK, FailedSince, FailedAt
  <2> QED
    BY <1>1, <2>1, <2>2, WatchKeeps
<1>7. CASE downSince = Null /\ WatchDone
  <2>1. DogTypes'
    BY <1>1, <1>4, <1>7 DEF DogTypes, Null, WatchDone
  <2>2. DogOK'
    BY <1>0, <1>1, <1>7 DEF DInv, DogOK, FailedSince, FailedAt, WatchDone, Null
  <2> QED
    BY <1>1, <2>1, <2>2, WatchKeeps
<1> QED
  BY <1>3, <1>5, <1>6, <1>7 DEF WatchSuccesses

\* The time an outage is said to have begun is that of a failure.
LEMMA SinceKeeps ==
  ASSUME DInv, WatchSince
  PROVE  DInv' /\ RowsForward
<1>1. /\ dogPc = "since" /\ dogPc' = "raise" /\ lastFail' = Null /\ lastOk' = Null
      /\ UNCHANGED <<now, row, copies, faults, worker, downSince, alerts>>
  BY DEF WatchSince, alarm
<1>2. PICK S \in SUBSET (0 .. now) : S = {t \in FailTimes : t > lastOk}
  BY TimesPast
<1>3. since' = IF S = {} THEN lastFail ELSE Min(S)
  BY <1>2 DEF WatchSince
<1>4. DogTypes /\ now \in Nat
  BY Types DEF DInv
<1>5. \E p \in Pages : row[p].status = "failed" /\ since' <= FailedAt(p) /\ since' \in 0 .. now
  <2>1. CASE S = {}
    <3>1. PICK p \in Pages : row[p].status = "failed" /\ lastFail <= FailedAt(p)
      BY <1>1 DEF DInv, DogOK, FailedSince
    <3>2. FailedAt(p) \in 0 .. now
      BY <3>1, TimesPast DEF FailTimes, With
    <3> QED
      BY <1>3, <1>4, <2>1, <3>1, <3>2 DEF DogTypes
  <2>2. CASE S # {}
    <3>1. S \in SUBSET Nat
      OBVIOUS
    <3>2. Min(S) \in S
      BY <2>2, <3>1, MinIs
    <3>3. since' \in FailTimes /\ since' \in 0 .. now
      BY <1>2, <1>3, <2>2, <3>2
    <3> QED
      BY <1>4, <3>3 DEF FailTimes, With
  <2> QED
    BY <2>1, <2>2
<1>6. DogTypes'
  BY <1>1, <1>4, <1>5 DEF DogTypes, Null
<1>7. DogOK'
  BY <1>1, <1>4, <1>5 DEF DInv, DogOK, FailedSince, FailedAt
<1> QED
  BY <1>1, <1>6, <1>7, WatchKeeps

\* The steps that write the alarm.
LEMMA AlarmKeeps ==
  ASSUME DInv, WatchRaise \/ WatchPost \/ WatchClear \/ WatchForget
  PROVE  DInv' /\ RowsForward
<1>1. UNCHANGED <<now, row, copies, faults, worker>>
  BY DEF WatchRaise, WatchPost, WatchClear, WatchForget
<1>2. DogTypes /\ now \in Nat /\ since <= now
  BY Types DEF DInv, DogOK
<1>3. CASE WatchRaise
  <2>1. /\ dogPc = "raise" /\ dogPc' = "post" /\ downSince' = since
        /\ UNCHANGED <<alerts, lastFail, lastOk, since>>
    BY <1>3 DEF WatchRaise
  <2>2. DogTypes'
    BY <1>1, <1>2, <2>1 DEF DogTypes
  <2>3. DogOK'
    BY <1>1, <2>1 DEF DInv, DogOK, FailedSince, FailedAt
  <2> QED
    BY <1>1, <2>2, <2>3, WatchKeeps
<1>4. CASE WatchPost
  <2>1. PICK a : /\ alerts' = alerts \cup {a}
                 /\ a = [kind |-> "down", since |-> since,
                         interval |-> (now - since) \div RepeatEvery]
    BY <1>4 DEF WatchPost, Post
  <2>2. UNCHANGED downSince /\ WatchDone
    BY <1>4 DEF WatchPost
  <2>3. a \in Alert
    <3>1. (now - since) \div RepeatEvery \in Nat
      BY <1>2, Constants DEF DogTypes
    <3> QED
      BY <1>2, <2>1, <3>1 DEF Alert, DogTypes
  <2>4. DogTypes'
    BY <1>2, <2>1, <2>2, <2>3 DEF DogTypes, WatchDone, Null
  <2>5. DogOK'
    BY <1>1, <1>2, <2>2 DEF DInv, DogOK, FailedSince, FailedAt, WatchDone, Null
  <2> QED
    BY <1>1, <2>4, <2>5, WatchKeeps
<1>5. CASE WatchClear
  <2>1. PICK a : alerts' = alerts \cup {a} /\ a = [kind |-> "up", since |-> downSince, interval |-> 0]
    BY <1>5 DEF WatchClear, Post
  <2>2. /\ dogPc = "clear" /\ dogPc' = "forget"
        /\ UNCHANGED <<downSince, lastFail, lastOk, since>>
    BY <1>5 DEF WatchClear
  <2>3. DogTypes'
    BY <1>2, <2>1, <2>2 DEF DogTypes, Alert
  <2>4. DogOK'
    BY <1>1, <2>2 DEF DInv, DogOK, FailedSince, FailedAt
  <2> QED
    BY <1>1, <2>3, <2>4, WatchKeeps
<1>6. CASE WatchForget
  <2>1. downSince' = Null /\ WatchDone /\ UNCHANGED alerts
    BY <1>6 DEF WatchForget
  <2>2. DogTypes'
    BY <1>1, <1>2, <2>1 DEF DogTypes, WatchDone, Null
  <2>3. DogOK'
    BY <1>1, <1>2, <2>1 DEF DogOK, WatchDone, Null
  <2> QED
    BY <1>1, <2>2, <2>3, WatchKeeps
<1> QED
  BY <1>3, <1>4, <1>5, <1>6

\* A restart forgets what the two workers had in hand.
LEMMA RestartKeeps ==
  ASSUME DInv, Restart
  PROVE  DInv' /\ RowsForward
<1>1. /\ faults' = faults + 1 /\ faults < MaxFaults
      /\ outPc' = "idle" /\ todo' = << >> /\ outcome' = "accepted"
      /\ dogPc' = "idle" /\ lastFail' = Null /\ lastOk' = Null /\ since' = Null
      /\ UNCHANGED <<now, row, copies, downSince, alerts>>
  BY DEF Restart, alarm
<1>2. DogTypes /\ now \in Nat
  BY Types DEF DInv
<1>3. RowTypes' /\ ReportsMatch' /\ ReportsTrue' /\ RowsOK' /\ RowsForward
  BY <1>1, RowsSame
<1>4. HandTypes'
  BY <1>1 DEF HandTypes
<1>5. DogTypes'
  BY <1>1, <1>2 DEF DogTypes, Null
<1>6. DogOK'
  BY <1>1, <1>2 DEF DInv, DogOK, FailedSince, FailedAt, Null
<1>7. BatchOK'
  BY <1>1 DEF BatchOK
<1>8. faults' \in 0 .. MaxFaults /\ now' \in Nat \ {0}
  BY <1>1, Constants DEF DInv, TypeOK
<1>9. TypeOK'
  BY <1>3, <1>4, <1>5, <1>8, TypesNext
<1> QED
  BY <1>3, <1>5, <1>6, <1>7, <1>9 DEF DInv

-----------------------------------------------------------------------------
(* The theorems. *)

LEMMA InitHolds == Init => DInv
<1> SUFFICES ASSUME Init PROVE DInv
  OBVIOUS
<1>1. NoPage \in PageRow /\ NoPage.status = "none" /\ NoPage.report = "none"
      /\ NoPage.pid = Null /\ NoPage.sent = 0
  BY DEF NoPage, PageRow, Null
<1>2. \A p \in Pages : row[p] = NoPage
  BY DEF Init
<1>3. TypeOK
  BY <1>1, Constants DEF Init, TypeOK, Null
<1>4. ReportsMatch /\ ReportsTrue /\ RowsOK
  BY <1>1, <1>2 DEF ReportsMatch, ReportsTrue, RowsOK, Init
<1>5. BatchOK /\ DogOK
  BY DEF Init, BatchOK, DogOK, Null
<1> QED
  BY <1>3, <1>4, <1>5 DEF DInv

LEMMA NextKeeps ==
  ASSUME DInv, [Next]_vars
  PROVE  DInv' /\ RowsForward
<1>1. CASE UNCHANGED vars
  <2>1. UNCHANGED <<now, row, copies, faults, outPc, todo, outcome, downSince, alerts, dogPc,
                    lastFail, lastOk, since>>
    BY <1>1 DEF vars, worker, alarm, dog
  <2>2. DogTypes'
    BY <2>1, Types DEF DInv, DogTypes
  <2>3. DogOK'
    BY <2>1 DEF DInv, DogOK, FailedSince, FailedAt
  <2> QED
    BY <2>1, <2>2, <2>3, WatchKeeps DEF worker
<1>2. ASSUME NEW p \in Pages, Enqueue(p) PROVE DInv' /\ RowsForward
  BY <1>2, EnqueueKeeps
<1>3. ASSUME NEW p \in Pages, NEW v \in {"submitted", "delivered", "failed"}, Report(p, v)
      PROVE  DInv' /\ RowsForward
  BY <1>3, ReportKeeps
<1>4. CASE Tick
  BY <1>4, TickKeeps
<1>5. CASE Drain
  BY <1>5, DrainQueryKeeps, SendKeeps, RecordKeeps DEF Drain
<1>6. CASE RecordRaises
  BY <1>6, RaisesKeeps
<1>7. CASE Watch
  BY <1>7, FailuresKeeps, SuccessesKeeps, SinceKeeps, AlarmKeeps DEF Watch
<1>8. CASE Restart
  BY <1>8, RestartKeeps
<1> QED
  BY <1>1, <1>2, <1>3, <1>4, <1>5, <1>6, <1>7, <1>8 DEF Next

\* The invariant above holds, and rows only move forward.
THEOREM DeliveryInvariant == Spec => []DInv
<1>1. Init => DInv
  BY InitHolds
<1>2. DInv /\ [Next]_vars => DInv'
  BY NextKeeps
<1> QED
  BY <1>1, <1>2, PTL DEF Spec

\* The tables and the two workers hold what they may hold.
THEOREM DeliveryTyped == Spec => []TypeOK
<1>1. DInv => TypeOK
  BY DEF DInv
<1> QED
  BY <1>1, DeliveryInvariant, PTL

\* The id a report is matched by is that of the copy the row stands for, and a page
\* recorded as sent has one, whatever crashed between the call of the provider and
\* the record of it (drain, provider_events).
THEOREM ReportsFindTheirCopy == Spec => []ReportsMatch
<1>1. DInv => ReportsMatch
  BY DEF DInv
<1> QED
  BY <1>1, DeliveryInvariant, PTL

\* If the check decides that the outage is over, the success that ended it is as
\* late as the last failure, which is no earlier than the one the alarm stands for.
LEMMA ClearedByPage ==
  ASSUME DInv, WatchSuccesses, dogPc' = "clear"
  PROVE  \E p \in Pages : row[p].sent >= downSince /\ Vouched(p)
<1>1. DogTypes /\ dogPc = "successes"
  BY Types DEF DInv, WatchSuccesses
<1>2. PICK n \in Nat : n = now
  BY TimesPast
<1>3. PICK S \in SUBSET (0 .. n) : S = OkTimes
  BY <1>2, TimesPast
<1>4. PICK ok \in Nat : ok = Latest(OkTimes) /\ (ok # Null => ok \in OkTimes)
  BY <1>3, LatestIs
<1>5. ~Down(lastFail, ok) /\ downSince # Null
  BY <1>4 DEF WatchSuccesses, WatchDone
<1>6. downSince <= lastFail /\ downSince \in Nat \ {0} /\ lastFail \in Nat
  BY <1>1, <1>5 DEF DInv, DogOK, DogTypes, Null
<1>7. ok # Null /\ downSince <= ok
  BY <1>5, <1>6 DEF Down, Null
<1>8. PICK p \in With("sent") :
        /\ ok = row[p].sent
        /\ \/ row[p].report = "delivered"
           \/ row[p].report = "none" /\ row[p].sent + AssumeAfter <= now
  BY <1>4, <1>7 DEF OkTimes
<1>9. p \in Pages /\ row[p].status = "sent" /\ row[p].sent >= downSince
  BY <1>6, <1>7, <1>8 DEF With
<1>10. row[p].pid # Null
  BY <1>9 DEF DInv, ReportsMatch
<1>11. row[p].report = "delivered" => copies[p][row[p].pid] = "arrives"
  BY <1>9 DEF DInv, ReportsTrue
<1> QED
  BY <1>8, <1>9, <1>10, <1>11 DEF Vouched, Dead

\* The watchdog decides that sending works again only when a page accepted no
\* earlier than the failure its alarm stands for is not dead by then, and has
\* arrived or has not been heard of for as long as the code allows
\* (check_send_path), whatever crashed, failed or was reported late before.
THEOREM AllClearIsEarned == Spec => AllClearEarned
<1> DEFINE Earned == dogPc # "clear" /\ dogPc' = "clear" =>
                       \E p \in Pages : row[p].sent >= downSince /\ Vouched(p)
<1>1. Next /\ dogPc # "clear" /\ dogPc' = "clear" => WatchSuccesses
  BY DEF Next, Enqueue, Report, Tick, Drain, DrainQuery, Send, Record, RecordRaises, Watch,
         WatchFailures, WatchSince, WatchRaise, WatchPost, WatchClear, WatchForget, WatchDone,
         Restart, dog
<1>2. DInv /\ [Next]_vars => [Earned]_vars
  BY <1>1, ClearedByPage
<1> QED
  BY <1>2, DeliveryInvariant, PTL DEF Spec, AllClearEarned

\* A page that is known not to have arrived stays known, whatever report comes later.
THEOREM DeathStaysFinal == Spec => DeathIsFinal
<1>1. DInv /\ DInv' /\ RowsForward => \A p \in Pages : Dead(p) => Dead(p)'
  BY DEF DInv, RowsOK, RowsForward, Dead
<1>2. DInv /\ [Next]_vars => DInv' /\ RowsForward
  BY NextKeeps
<1>3. DInv /\ [Next]_vars => [\A p \in Pages : Dead(p) => Dead(p)']_vars
  BY <1>1, <1>2
<1> QED
  BY <1>3, DeliveryInvariant, PTL DEF Spec, DeathIsFinal

-----------------------------------------------------------------------------
(* A page is sent again only for a fault. *)

\* The provider has a page of which the worker does not know so, and will send it again.
Doubtful(p) ==
  /\ copies[p] # << >> /\ row[p].status = "queued"
  /\ ~(outPc = "record" /\ outcome = "accepted" /\ p = Head(todo))

\* How many copies there are of a page, with the one that is bound to follow, or one; and
\* those beyond the first, of all pages.
Reach(p) == IF copies[p] = << >> THEN 1
            ELSE IF Doubtful(p) THEN Len(copies[p]) + 1 ELSE Len(copies[p])
Owed     == UNION {{p} \X (2 .. Reach(p)) : p \in Pages}

\* A fault pays for a copy when the doubt comes up, and not when the copy is sent.
PaidInv ==
  /\ IsFiniteSet(Owed) /\ Cardinality(Owed) <= faults
  /\ \A p \in Pages : row[p].status = "none" => copies[p] = << >>

LEMMA ReachIs ==
  ASSUME DInv, NEW p \in Pages
  PROVE  /\ Len(copies[p]) \in Nat /\ Reach(p) \in Nat /\ Len(copies[p]) <= Reach(p)
         /\ copies[p] = << >> <=> Len(copies[p]) = 0
<1>1. copies[p] \in Seq({"arrives", "dies"})
  BY DEF DInv, TypeOK
<1> QED
  BY <1>1 DEF Reach

\* A step owes nothing new, or it is a fault and owes one copy of one page.
LEMMA FaultsPay ==
  ASSUME DInv, DInv', IsFiniteSet(Owed), Cardinality(Owed) <= faults, NEW p \in Pages,
         \A q \in Pages \ {p} : Reach(q)' <= Reach(q),
         \/ Reach(p)' <= Reach(p) /\ faults' \in {faults, faults + 1}
         \/ Reach(p)' <= Reach(p) + 1 /\ faults' = faults + 1
  PROVE  IsFiniteSet(Owed)' /\ (Cardinality(Owed) <= faults)'
<1> DEFINE x == <<p, Reach(p) + 1>>
<1>1. \A q \in Pages : Reach(q) \in Nat /\ Reach(q)' \in Nat
  <2>1. \A q \in Pages : Len(copies'[q]) \in Nat
    BY DEF DInv, TypeOK
  <2> QED
    BY <2>1, ReachIs DEF Reach
<1>2. ASSUME NEW q \in Pages, NEW k \in 2 .. Reach(q)', <<q, k>> # x
      PROVE  k \in 2 .. Reach(q) \/ (q = p /\ ~(Reach(p)' <= Reach(p)) /\ k = Reach(p) + 1)
  BY <1>1, <1>2
<1>3. Owed' \subseteq Owed \cup {x}
  <2> SUFFICES ASSUME NEW q \in Pages, NEW k \in 2 .. Reach(q)', <<q, k>> # x
               PROVE  k \in 2 .. Reach(q)
    BY DEF Owed
  <2> QED
    BY <1>2
<1>4. Reach(p)' <= Reach(p) => Owed' \subseteq Owed
  <2> SUFFICES ASSUME Reach(p)' <= Reach(p), NEW q \in Pages, NEW k \in 2 .. Reach(q)'
               PROVE  k \in 2 .. Reach(q)
    BY DEF Owed
  <2> QED
    BY <1>1
<1>5. IsFiniteSet(Owed \cup {x}) /\ Cardinality(Owed \cup {x}) <= Cardinality(Owed) + 1
  <2> HIDE DEF x
  <2>1. Cardinality(Owed) \in Nat
    BY FS_CardinalityType
  <2> QED
    BY <2>1, FS_AddElement
<1>6. faults \in Nat
  BY DEF DInv, TypeOK
<1> HIDE DEF x
<1>7. /\ IsFiniteSet(Owed') /\ Cardinality(Owed') <= Cardinality(Owed \cup {x})
      /\ Owed' \subseteq Owed => Cardinality(Owed') <= Cardinality(Owed)
  BY <1>3, <1>5, FS_Subset
<1>8. /\ Cardinality(Owed) \in Nat /\ Cardinality(Owed') \in Nat
      /\ Cardinality(Owed \cup {x}) \in Nat
  BY <1>5, <1>7, FS_CardinalityType
<1>9. Cardinality(Owed') <= faults'
  BY <1>4, <1>5, <1>6, <1>7, <1>8
<1> QED
  BY <1>7, <1>9

\* Steps that leave the provider and what the worker knows of it as they were.
LEMMA NothingOwed ==
  ASSUME DInv, DInv', PaidInv, faults' \in {faults, faults + 1},
         \A q \in Pages : /\ copies'[q] = copies[q] /\ (Doubtful(q)' => Doubtful(q))
                          /\ row'[q].status = "none" => row[q].status = "none"
  PROVE  PaidInv'
<1>1. \A q \in Pages : Reach(q)' <= Reach(q)
  BY ReachIs DEF Reach
<1>2. IsFiniteSet(Owed)' /\ (Cardinality(Owed) <= faults)'
  <2>1. CASE Pages = {}
    <3>1. Owed' = Owed /\ faults \in Nat /\ Cardinality(Owed) \in Nat
      BY <2>1, FS_CardinalityType DEF Owed, PaidInv, DInv, TypeOK
    <3> QED
      BY <3>1 DEF PaidInv
  <2>2. CASE Pages # {}
    <3>1. PICK p \in Pages : TRUE
      BY <2>2
    <3> QED
      BY <1>1, <3>1, FaultsPay DEF PaidInv
  <2> QED
    BY <2>1, <2>2
<1> QED
  BY <1>2 DEF PaidInv

LEMMA EnqueuePaid ==
  ASSUME DInv, DInv', PaidInv, NEW p \in Pages, Enqueue(p)
  PROVE  PaidInv'
<1>1. /\ row[p].status = "none" /\ UNCHANGED <<copies, faults, outPc, todo, outcome>>
      /\ \A q \in Pages \ {p} : row'[q] = row[q]
      /\ row'[p].status = "queued"
  BY DEF Enqueue, worker, NoPage, DInv, TypeOK
<1>2. copies[p] = << >>
  BY <1>1 DEF PaidInv
<1>3. \A q \in Pages : (Doubtful(q)' => Doubtful(q))
  BY <1>1, <1>2 DEF Doubtful
<1> QED
  BY <1>1, <1>3, NothingOwed

\* A report that finds its row finds one that was sent.
LEMMA ReportPaid ==
  ASSUME DInv, DInv', PaidInv, NEW p \in Pages,
         NEW v \in {"submitted", "delivered", "failed"}, Report(p, v)
  PROVE  PaidInv'
<1>1. /\ row[p].pid # Null /\ UNCHANGED <<copies, faults, outPc, todo, outcome>>
      /\ \A q \in Pages \ {p} : row'[q] = row[q]
      /\ row'[p] = Reported(row[p], v)
  BY DEF Report, worker, DInv, TypeOK
<1>2. row[p] \in PageRow /\ row[p].status # "queued"
  BY <1>1 DEF DInv, TypeOK, ReportsMatch
<1>3. row'[p].status \in {row[p].status, "failed"}
  BY <1>1, <1>2 DEF Reported, PageRow
<1>4. \A q \in Pages : (Doubtful(q)' => Doubtful(q))
  BY <1>1, <1>2, <1>3 DEF Doubtful
<1> QED
  BY <1>1, <1>3, <1>4, NothingOwed

\* The copy that an attempt makes is the first, or was owed; if the answer is lost
\* another one is.
LEMMA SendPaid ==
  ASSUME DInv, DInv', PaidInv, Send
  PROVE  PaidInv'
<1>1. PICK p \in Pages : p = Head(todo) /\ row[p].status = "queued"
  BY InHand DEF Send
<1>2. /\ outPc = "send" /\ outPc' = "record" /\ UNCHANGED <<row, todo>>
      /\ \/ UNCHANGED <<copies, faults>> /\ outcome' # "accepted"
         \/ /\ \/ outcome' = "accepted" /\ UNCHANGED faults
               \/ outcome' = "transient" /\ faults' = faults + 1
            /\ \E fate \in {"arrives", "dies"} : copies' = [copies EXCEPT ![p] = Append(@, fate)]
  BY <1>1 DEF Send
<1>3. \A q \in Pages : Doubtful(q) <=> copies[q] # << >> /\ row[q].status = "queued"
  BY <1>2 DEF Doubtful
<1>4. CASE UNCHANGED <<copies, faults>> /\ outcome' # "accepted"
  <2>1. \A q \in Pages : Doubtful(q)' => Doubtful(q)
    BY <1>2, <1>3, <1>4 DEF Doubtful
  <2> QED
    BY <1>2, <1>4, <2>1, NothingOwed
<1>5. ASSUME NEW fate \in {"arrives", "dies"}, copies' = [copies EXCEPT ![p] = Append(@, fate)],
             \/ outcome' = "accepted" /\ UNCHANGED faults
             \/ outcome' = "transient" /\ faults' = faults + 1
      PROVE  PaidInv'
  <2>1. copies \in [Pages -> Seq({"arrives", "dies"})]
    BY DEF DInv, TypeOK
  <2>2. /\ \A q \in Pages \ {p} : copies'[q] = copies[q]
        /\ Len(copies'[p]) = Len(copies[p]) + 1
    BY <1>5, <2>1
  <2>3. \A q \in Pages \ {p} : Doubtful(q)' <=> Doubtful(q)
    BY <1>1, <1>2, <1>3, <2>2 DEF Doubtful
  <2>4. \A q \in Pages \ {p} : Reach(q)' <= Reach(q)
    BY <2>2, <2>3, ReachIs DEF Reach
  <2>5. outcome' = "accepted" => ~Doubtful(p)'
    BY <1>1, <1>2 DEF Doubtful
  <2>6. Len(copies[p]) \in Nat /\ (Doubtful(p) <=> Len(copies[p]) # 0)
    BY <1>1, <1>3, ReachIs
  <2>7. copies'[p] # << >>
    BY <1>2, <1>5, <2>1
  <2>8. \/ Reach(p)' <= Reach(p) /\ UNCHANGED faults
        \/ Reach(p)' <= Reach(p) + 1 /\ faults' = faults + 1
    BY <1>5, <2>2, <2>5, <2>6, <2>7, ReachIs DEF Reach
  <2>9. IsFiniteSet(Owed)' /\ (Cardinality(Owed) <= faults)'
    BY <2>4, <2>8, FaultsPay DEF PaidInv
  <2>10. \A q \in Pages : row'[q].status = "none" => copies'[q] = << >>
    BY <1>1, <1>2, <2>2 DEF PaidInv
  <2> QED
    BY <2>9, <2>10 DEF PaidInv
<1> QED
  BY <1>2, <1>4, <1>5

LEMMA RecordPaid ==
  ASSUME DInv, DInv', PaidInv, Record
  PROVE  PaidInv'
<1>1. PICK p \in Pages : p = Head(todo)
  BY InHand DEF Record
<1>2. /\ outPc = "record" /\ outPc' \in {"idle", "send"} /\ UNCHANGED <<copies, faults>>
      /\ \A q \in Pages \ {p} : row'[q] = row[q]
      /\ row'[p] = Recorded(p)
  BY <1>1 DEF Record, NextPc, DInv, TypeOK
<1>3. row[p] \in PageRow /\ row[p].status = "queued"
  BY <1>1, <1>2, InHand DEF DInv, TypeOK
<1>4. /\ row'[p].status # "none"
      /\ outcome = "accepted" => row'[p].status = "sent"
  BY <1>2, <1>3 DEF Recorded, PageRow
<1>5. \A q \in Pages : Doubtful(q)' => Doubtful(q)
  BY <1>1, <1>2, <1>3, <1>4 DEF Doubtful
<1> QED
  BY <1>2, <1>4, <1>5, NothingOwed

\* Whoever drops the page in hand no longer knows that it was accepted.
LEMMA DroppedPaid ==
  ASSUME DInv, DInv', PaidInv, UNCHANGED <<row, copies>>, faults' = faults + 1,
         outPc' # "record" \/ outcome' # "accepted"
  PROVE  PaidInv'
<1>1. CASE outPc = "record"
  <2>1. PICK p \in Pages : p = Head(todo)
    BY <1>1, InHand
  <2>2. \A q \in Pages \ {p} : Doubtful(q)' <=> Doubtful(q)
    BY <2>1 DEF Doubtful
  <2>3. \A q \in Pages \ {p} : Reach(q)' <= Reach(q)
    BY <2>2, ReachIs DEF Reach
  <2>4. Reach(p)' <= Reach(p) + 1
    BY ReachIs DEF Reach
  <2>5. IsFiniteSet(Owed)' /\ (Cardinality(Owed) <= faults)'
    BY <2>3, <2>4, FaultsPay DEF PaidInv
  <2> QED
    BY <2>5 DEF PaidInv
<1>2. CASE outPc # "record"
  <2>1. \A q \in Pages : Doubtful(q)' => Doubtful(q)
    BY <1>2 DEF Doubtful
  <2> QED
    BY <2>1, NothingOwed
<1> QED
  BY <1>1, <1>2

LEMMA StepsPaid == DInv /\ DInv' /\ PaidInv /\ [Next]_vars => PaidInv'
<1> SUFFICES ASSUME DInv, DInv', PaidInv, [Next]_vars PROVE PaidInv'
  OBVIOUS
<1>1. ASSUME UNCHANGED <<row, copies, faults, outPc, todo, outcome>> PROVE PaidInv'
  BY <1>1, NothingOwed DEF Doubtful
<1>2. CASE UNCHANGED vars \/ Tick \/ Watch
  BY <1>1, <1>2 DEF vars, worker, Tick, Watch, WatchFailures, WatchSuccesses, WatchSince,
                    WatchRaise, WatchPost, WatchClear, WatchForget
<1>3. CASE DrainQuery
  <2>1. /\ outPc = "idle" /\ outPc' \in {"idle", "send"}
        /\ UNCHANGED <<row, copies, faults, outcome>>
    BY <1>3 DEF DrainQuery, NextPc
  <2>2. \A q \in Pages : Doubtful(q)' => Doubtful(q)
    BY <2>1 DEF Doubtful
  <2> QED
    BY <2>1, <2>2, NothingOwed
<1>4. CASE RecordRaises \/ Restart
  BY <1>4, DroppedPaid DEF RecordRaises, Restart
<1> QED
  BY <1>2, <1>3, <1>4, EnqueuePaid, ReportPaid, SendPaid, RecordPaid DEF Next, Drain

\* However often the worker crashes, a transaction fails or an answer is lost, and however
\* many pages wait, no more copies reach the provider than there were pages and such faults.
THEOREM CopiesArePaidFor == Spec => []CopiesPaidFor
<1>1. Init => PaidInv
  <2> SUFFICES ASSUME Init PROVE PaidInv
    OBVIOUS
  <2>1. \A p \in Pages : copies[p] = << >>
    BY DEF Init
  <2>2. Owed = {}
    BY <2>1 DEF Owed, Reach
  <2> QED
    BY <2>1, <2>2, FS_EmptySet DEF PaidInv, Init
<1>2. DInv /\ PaidInv => CopiesPaidFor
  <2> SUFFICES ASSUME DInv, PaidInv PROVE CopiesPaidFor
    OBVIOUS
  <2> DEFINE extra == UNION {{p} \X (2 .. Len(copies[p])) : p \in Pages}
  <2>1. extra \subseteq Owed
    <3> SUFFICES ASSUME NEW p \in Pages, NEW k \in 2 .. Len(copies[p])
                 PROVE  k \in 2 .. Reach(p)
      BY DEF Owed
    <3> QED
      BY ReachIs
  <2> HIDE DEF extra
  <2>2. IsFiniteSet(extra) /\ Cardinality(extra) <= Cardinality(Owed)
    BY <2>1, FS_Subset DEF PaidInv
  <2>3. Cardinality(extra) \in Nat /\ Cardinality(Owed) \in Nat /\ faults \in Nat
    BY <2>2, FS_CardinalityType DEF PaidInv, DInv, TypeOK
  <2>4. Cardinality(extra) <= faults
    BY <2>2, <2>3 DEF PaidInv
  <2> QED
    BY <2>4 DEF extra, CopiesPaidFor
<1> QED
  BY <1>1, <1>2, StepsPaid, DeliveryInvariant, PTL DEF Spec

=============================================================================
