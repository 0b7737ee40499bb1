----------------------------- MODULE ReplyClaims -----------------------------
(***************************************************************************)
(* What comments of the program say of replies and its code does not keep. *)
(* Each formula is the claim; the run named after it finds a behaviour of  *)
(* Replies that violates it.                                               *)
(***************************************************************************)
EXTENDS Replies

LoomOf(target) ==
  IF target.kind = "eta" THEN inc[tkt[target.id].inc].loom ELSE inc[target.id].loom

\* "A loom named in the reply beats every inference" (webhooks.py): what a reply
\* that names a loom changes is about that loom.
NamedLoomWins ==
  \A q \in Request : Did(q) /\ req[q].named => LoomOf(req[q].did) = req[q].loom

\* "We recognise the message and it is already answered (or its incident is
\* closed)" (webhooks.py): whoever is told "Already recorded" had been answered.
AlreadyMeansAnswered ==
  \A q \in Request : req[q].ack = "already_answered" => ~Unanswered(Quoted(q).inc)

\* "is running again — no answer needed" (prompts.py, ack_already_running): the loom of
\* whoever is told so does not stand.
RunningMeansRunning ==
  \A q \in Request : req[q].ack = "already_running" =>
    ~\E i \in Incidents : Live(i) /\ inc[i].loom = inc[Quoted(q).inc].loom

=============================================================================
