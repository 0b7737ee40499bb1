---------------------------- MODULE FaultContract ----------------------------
(***************************************************************************)
(* What ops-core promises about a fault, with no poller, ticker, timers or *)
(* requests: a stop of a loom is recorded once, a record ends for good,    *)
(* and people are told of a fault only while the loom is down.             *)
(***************************************************************************)
CONSTANTS Fault, Loom

VARIABLES
  about,   \* the loom of each fault
  state,   \* the status of each fault
  said     \* everything that was ever queued about each fault

Live(f)  == state[f] \in {"open", "resolving"}

\* A loom stops that has no live fault.
Raise(f, loom) ==
  /\ state[f] = "none"
  /\ \A g \in Fault : Live(g) => about[g] # loom
  /\ about' = [about EXCEPT ![f] = loom]
  /\ state' = [state EXCEPT ![f] = "open"]
  /\ UNCHANGED said

\* The loom resumes, but the record stays open for a while.
Resume(f) ==
  /\ state[f] = "open"
  /\ state' = [state EXCEPT ![f] = "resolving"]
  /\ UNCHANGED <<about, said>>

\* The loom stops again before that: it is the same fault.
Relapse(f) ==
  /\ state[f] = "resolving"
  /\ state' = [state EXCEPT ![f] = "open"]
  /\ UNCHANGED <<about, said>>

\* A fault is over: its loom ran long enough, or a person said so.
Close(f) ==
  /\ Live(f)
  /\ state' = [state EXCEPT ![f] = "resolved"]
  /\ UNCHANGED <<about, said>>

\* Something is queued about a fault, and nothing that was is taken back.
Tell(f) ==
  /\ state[f] = "open"
  /\ said[f] \subseteq said'[f]
  /\ \A g \in Fault \ {f} : said'[g] = said[g]
  /\ UNCHANGED <<about, state>>

Init ==
  /\ state = [f \in Fault |-> "none"]
  /\ about \in [Fault -> Loom]
  /\ said = [f \in Fault |-> {}]

Next == \E f \in Fault :
  \/ \E loom \in Loom : Raise(f, loom)
  \/ Resume(f) \/ Relapse(f) \/ Close(f) \/ Tell(f)

Spec == Init /\ [][Next]_<<about, state, said>>
=============================================================================
