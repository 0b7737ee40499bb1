------------------------------ MODULE OpsClaims ------------------------------
(***************************************************************************)
(* What the documents and comments of the program say of the fault         *)
(* lifecycle and its code does not keep.  Each formula is the claim; the   *)
(* run named after it finds a behaviour of OpsCore that violates it.       *)
(***************************************************************************)
EXTENDS OpsCore

\* "an incident opens because an asset changed state" (incidents.py): a loom that
\* stands still, in production and in service, has a live incident in the end.
StoppedIsRaised ==
  \A a \in Asset :
    <>[](machine[a] = "STOPPED" /\ a \notin offplan \cup retired) => <>[](LiveOf(a) # {})

=============================================================================
