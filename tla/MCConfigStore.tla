---------------------------- MODULE MCConfigStore ----------------------------
(***************************************************************************)
(* ConfigStore for TLC.  The base has the shape of                         *)
(* departments/weaving/routing.yaml: two teams, each with one person round *)
(* the clock, one of them routed to, and its person the backstop.          *)
(***************************************************************************)
EXTENDS ConfigStore, TLC

CONSTANTS akshaan, shailendra, developer, engineering, other, fault, phone, old, new

MCPersons  == {akshaan, shailendra}
MCTeams    == {developer, engineering}
MCCodes    == {other, fault}
MCShifts   == <<"A", "B">>
MCNumbers  == {phone}
MCSettings == {old, new}

MCPerson      == [ch \in {"whatsapp", "gchat_space"} |->
                    IF ch = "whatsapp" THEN phone ELSE Absent]
MCTeamOf(p)   == [b \in {"all", "A", "B"} |-> IF b = "all" THEN {p} ELSE Absent]

MCBase ==
  [entry |-> [e \in MCPersons \cup MCTeams |->
                IF e \in MCPersons THEN MCPerson
                ELSE MCTeamOf(IF e = developer THEN akshaan ELSE shailendra)],
   default_owner |-> akshaan,
   plan   |-> {developer},
   codes  |-> [c \in {other} |-> Absent],
   source |-> old]

MCSymmetry == Permutations(Request)
=============================================================================
