----------------------------- MODULE ConfigStore -----------------------------
(***************************************************************************)
(* The configuration that can be edited while the program runs:            *)
(* app/config.py, app/api/config_api.py and the panel's endpoints for      *)
(* people, teams, rosters, plans, reasons, the backstop and the feed       *)
(* (app/api/admin_api.py).  The YAML files are the base; the table         *)
(* config_overrides holds one patch per scope; the live configuration is   *)
(* an object that every thread reads.                                      *)
(*                                                                         *)
(* An edit looks at the live configuration, then at the table, validates   *)
(* what would result, writes its row, and installs what it validated.      *)
(* Nothing holds the table between these steps, and eight threads serve    *)
(* requests.  A document is kept as far as one rule looks at two parts of  *)
(* it: who may be reached, who is on a team's shifts, which teams faults   *)
(* are routed to.                                                          *)
(***************************************************************************)
EXTENDS Naturals, Sequences

CONSTANTS
  Person, Team, Code,   \* the ids that may occur in people, roles and codes
  other_code,           \* the reason every question offers
  SHIFT_KEYS,           \* the shifts, in the order a missing one falls back
  Number,               \* the addresses a person may have on a channel
  Setting,              \* the settings the feed may have
  Request,              \* the threads that serve edits
  Base,                 \* what the YAML files say
  Absent, Null,         \* a key that is not there; a key that is null
  Doors,                \* which endpoints are used: "panel", "plans", "api"
  MaxEdits, MaxRaced    \* bounds: edits that are begun, and of them, how many may overlap

Shift   == {SHIFT_KEYS[k] : k \in DOMAIN SHIFT_KEYS}
Channel == {"whatsapp", "gchat_space"}
Bucket  == {"all"} \cup Shift
Entry   == Person \cup Team     \* the keys of routing.people and routing.roles

Fields(e) == IF e \in Person THEN Channel ELSE Bucket
Value(e)  == IF e \in Person THEN Number ELSE SUBSET Person

(***************************************************************************)
(* Documents and patches.  They have the same shape: a patch may hold Null *)
(* where a document may not.  Lists (rosters, rungs, codes) are values:    *)
(* they are replaced and never merged.                                     *)
(***************************************************************************)
IsObject(node)  == node \notin {Absent, Null}
Object(e, node) == IF IsObject(node) THEN node ELSE [f \in Fields(e) |-> Absent]

MergeLeaf(target, patch) ==
  IF patch = Absent THEN target ELSE IF patch = Null THEN Absent ELSE patch

MergeNode(e, target, patch) ==
  IF IsObject(patch)
  THEN [f \in Fields(e) |-> MergeLeaf(Object(e, target)[f], patch[f])]
  ELSE MergeLeaf(target, patch)

ComposeLeaf(first, second) == IF second = Absent THEN first ELSE second

\* A null survives, and is lost again when an object is composed onto it.
ComposeNode(e, first, second) ==
  IF IsObject(second)
  THEN [f \in Fields(e) |-> ComposeLeaf(Object(e, first)[f], second[f])]
  ELSE ComposeLeaf(first, second)

Layer(doc, patch, Node(_, _, _), Leaf(_, _)) ==
  [entry         |-> [e \in Entry |-> Node(e, doc.entry[e], patch.entry[e])],
   default_owner |-> Leaf(doc.default_owner, patch.default_owner),
   plan          |-> Leaf(doc.plan, patch.plan),
   codes         |-> Leaf(doc.codes, patch.codes),
   source        |-> Leaf(doc.source, patch.source)]

merge_patch(doc, patch)      == Layer(doc, patch, MergeNode, MergeLeaf)

ComposeByMerging(first, second) == Layer(first, second, MergeNode, MergeLeaf)

compose_patch(first, second) == Layer(first, second, ComposeNode, ComposeLeaf)

NoPatch == [entry |-> [e \in Entry |-> Absent], default_owner |-> Absent,
            plan |-> Absent, codes |-> Absent, source |-> Absent]

\* The part of the overrides that is one row of the table.
Scope == {"routing", "escalation", "reasons", "source"}
WithRow(overrides, scope, row) ==
  CASE scope = "routing"    -> [overrides EXCEPT !.entry = row.entry,
                                                 !.default_owner = row.default_owner]
    [] scope = "escalation" -> [overrides EXCEPT !.plan = row.plan]
    [] scope = "reasons"    -> [overrides EXCEPT !.codes = row.codes]
    [] scope = "source"     -> [overrides EXCEPT !.source = row.source]

candidate(overrides) == merge_patch(Base, overrides)

(***************************************************************************)
(* What a configuration says.  `codes` maps each code of the list to the   *)
(* team that owns it, or to Absent if it opens no ticket; `plan` is the    *)
(* set of teams the rungs name.                                            *)
(***************************************************************************)
people(doc) == {p \in Person : doc.entry[p] # Absent}
roles(doc)  == {t \in Team : doc.entry[t] # Absent}
Owners(doc) == {doc.codes[c] : c \in DOMAIN doc.codes} \ {Absent}
Targeted(doc) == Owners(doc) \cup doc.plan

Reachable(doc, p) == \E ch \in Channel : doc.entry[p][ch] # Absent
Members(doc, t)   == UNION {doc.entry[t][b] : b \in {x \in Bucket : doc.entry[t][x] # Absent}}

ValidateWithoutRosters(doc) ==
  /\ other_code \in DOMAIN doc.codes
  /\ Owners(doc) \cup doc.plan \subseteq roles(doc)

validate(doc) ==
  /\ other_code \in DOMAIN doc.codes
  /\ Owners(doc) \subseteq roles(doc)
  /\ doc.plan \subseteq roles(doc)
  /\ \A t \in roles(doc) : Members(doc, t) \subseteq people(doc)
  /\ \A p \in people(doc) : Reachable(doc, p)
  /\ doc.default_owner # Absent => doc.default_owner \in people(doc)

\* The program does not start on YAML files that are not valid.
ASSUME StoreAssumption ==
  /\ SHIFT_KEYS \in Seq(STRING)
  /\ MaxEdits \in Nat /\ MaxRaced \in Nat
  /\ validate(Base)

\* Whom a team resolves to on a shift.  A shift that is missing falls back to the
\* first that is there.
role_person_ids(doc, t, s) ==
  LET at    == doc.entry[t]
      named == {k \in DOMAIN SHIFT_KEYS : at[SHIFT_KEYS[k]] # Absent}
      first == CHOOSE k \in named : \A j \in named : k <= j
  IN  IF at["all"] # Absent THEN at["all"]
      ELSE IF at[s] # Absent THEN at[s]
      ELSE IF named # {} THEN at[SHIFT_KEYS[first]] ELSE {}

\* Whom a fault of the team is paged to: those on duty, or else the backstop, if
\* there is one.
resolve(doc, t, s) ==
  IF role_person_ids(doc, t, s) # {} THEN role_person_ids(doc, t, s)
  ELSE {doc.default_owner} \ {Absent}

\* The roster as the panel shows it: a missing shift is an empty one.
Roster(doc, t) ==
  LET at == doc.entry[t] IN
  [b \in Bucket |-> IF at["all"] # Absent
                    THEN IF b = "all" THEN at[b] ELSE Absent
                    ELSE IF b = "all" THEN Absent
                         ELSE IF at[b] = Absent THEN {} ELSE at[b]]

StaffedSomewhere(roster) == \E b \in Bucket : roster[b] \notin {Absent, {}}

\* Somebody is on duty on every shift.
Staffed(roster) == \A b \in Bucket : roster[b] # {}

\* A roster as a patch that replaces what is there.
RosterPatch(roster) == [b \in Bucket |-> IF roster[b] = Absent THEN Null ELSE roster[b]]

\* What a caller may send as a roster.
AllDay(members)  == [b \in Bucket |-> IF b = "all" THEN members ELSE Absent]
ByShift(members) == [b \in Bucket |-> IF b = "all" THEN Absent ELSE members[b]]
Normalised(doc)  == {AllDay(m) : m \in SUBSET people(doc)}
                      \cup {ByShift(m) : m \in [Shift -> SUBSET people(doc)]}

(***************************************************************************)
(* The edits the endpoints allow, given the live configuration.  `patch`   *)
(* is what the edit composes onto its row; `node` is what its caller means *)
(* the entry to be afterwards, Null standing for what it does not mention. *)
(***************************************************************************)
Edit(op, scope, patch) ==
  [op |-> op, scope |-> scope, patch |-> patch, entry |-> Absent, node |-> Absent]

EntryEdit(op, e, patch, node) ==
  [op |-> op, scope |-> "routing", entry |-> e, node |-> node,
   patch |-> [NoPatch EXCEPT !.entry[e] = patch]]

\* A person as created: at least one way to reach them.
Contacts == {c \in [Channel -> Number \cup {Absent}] : \E ch \in Channel : c[ch] # Absent}

create_person(doc) ==
  {EntryEdit("create_person", p, c, c) : p \in Person \ people(doc), c \in Contacts}

update_person(doc) ==
  {EntryEdit("update_person", p, c, [ch \in Channel |-> IF c[ch] = Absent THEN Null ELSE c[ch]]) :
     p \in people(doc), c \in Contacts}

delete_person(doc) ==
  {EntryEdit("delete_person", p, Null, Absent) :
     p \in {x \in people(doc) : x # doc.default_owner
                                /\ \A t \in roles(doc) : x \notin Members(doc, t)}}

create_team(doc) ==
  {EntryEdit("create_team", t, r, r) : t \in Team \ roles(doc), r \in Normalised(doc)}

delete_team(doc) ==
  {EntryEdit("delete_team", t, Null, Absent) : t \in roles(doc) \ Targeted(doc)}

RosterEdit(op, t, roster) == EntryEdit(op, t, RosterPatch(roster), roster)

\* Nobody on duty is refused for a team that faults route to.
set_roster(doc) ==
  UNION {{RosterEdit("set_roster", t, r) :
            r \in {x \in Normalised(doc) : Staffed(x) \/ t \notin Targeted(doc)}} :
         t \in roles(doc)}

\* The bucket an endpoint for one shift works on.
Buckets(roster) == {b \in Bucket : roster[b] # Absent}

add_to_shift(doc) ==
  UNION {UNION {
    LET roster == Roster(doc, t)
        grown(p) == [roster EXCEPT ![b] = @ \cup {p}]
        known    == {RosterEdit("add_to_shift", t, grown(p)) : p \in people(doc) \ roster[b]}
        hired    == {[RosterEdit("add_to_shift", t, grown(p)) EXCEPT !.patch.entry[p] = c] :
                       p \in Person \ people(doc), c \in Contacts}
    IN  known \cup hired
    : b \in Buckets(Roster(doc, t))} : t \in roles(doc)}

remove_from_shift(doc) ==
  UNION {UNION {
    LET roster  == Roster(doc, t)
        left(p) == [roster EXCEPT ![b] = @ \ {p}]
    IN  {RosterEdit("remove_from_shift", t, left(p)) :
           p \in {x \in roster[b] : left(x)[b] # {} \/ t \notin Targeted(doc)}}
    : b \in Buckets(Roster(doc, t))} : t \in roles(doc)}

set_backstop(doc) ==
  {Edit("set_backstop", "routing", [NoPatch EXCEPT !.default_owner = p]) :
     p \in {x \in people(doc) : Reachable(doc, x)}}

\* A plan may name any team there is, staffed or not; a step may be `owner`.
set_plan(doc) ==
  {Edit("set_plan", "escalation", [NoPatch EXCEPT !.plan = ts]) : ts \in SUBSET roles(doc)}

CodesEdit(op, codes) == Edit(op, "reasons", [NoPatch EXCEPT !.codes = codes])
StaffedTeams(doc)    == {t \in roles(doc) : Staffed(Roster(doc, t))}

\* The whole list is written again, with one entry changed.
update_reason(doc) ==
  {CodesEdit("update_reason", [doc.codes EXCEPT ![c] = t]) :
     c \in DOMAIN doc.codes, t \in StaffedTeams(doc) \cup {Absent}}
  \cup {CodesEdit("update_reason", doc.codes)}

create_reason(doc) ==
  {CodesEdit("create_reason", [x \in DOMAIN doc.codes \cup {c} |->
                                 IF x = c THEN t ELSE doc.codes[x]]) :
     c \in Code \ DOMAIN doc.codes, t \in StaffedTeams(doc) \cup {Absent}}

\* Not the catch-all, and not one that history has recorded: any of the others.
delete_reason(doc) ==
  {CodesEdit("delete_reason", [x \in DOMAIN doc.codes \ {c} |-> doc.codes[x]]) :
     c \in DOMAIN doc.codes \ {other_code}}

set_feed == {Edit("set_feed", "source", [NoPatch EXCEPT !.source = s]) : s \in Setting}

\* A patch that gives one key of an entry a value and leaves the others alone.
KeyEdit(e, key, value) ==
  EntryEdit("patch_scope", e, [x \in Fields(e) |-> IF x = key THEN value ELSE Absent],
            [x \in Fields(e) |-> IF x # key THEN Null ELSE IF value = Null THEN Absent ELSE value])

\* config_api takes any patch; those are kept here that no endpoint of the panel sends:
\* an entry or a key of one is dropped, a team's roster is emptied, whoever is paged on
\* it, the backstop is dropped, and the last two at once.
patch_scope(doc) ==
  LET entries == people(doc) \cup roles(doc)
      dropped == {EntryEdit("patch_scope", e, Null, Absent) : e \in entries}
                   \cup (UNION {{KeyEdit(e, f, Null) : f \in Fields(e)} : e \in entries})
      emptied == UNION {{KeyEdit(t, b, {}) : b \in Bucket} : t \in roles(doc)}
  IN  dropped \cup emptied
        \cup {[e EXCEPT !.patch.default_owner = Null] : e \in emptied}
        \cup {Edit("patch_scope", "routing", [NoPatch EXCEPT !.default_owner = Null])}
        \cup {[e EXCEPT !.op = "patch_scope"] : e \in set_feed}

delete_scope == {Edit("delete_scope", s, NoPatch) : s \in Scope}

Edits(doc) ==
  LET panel == create_person(doc) \cup update_person(doc) \cup delete_person(doc)
                 \cup create_team(doc) \cup delete_team(doc) \cup set_roster(doc)
                 \cup add_to_shift(doc) \cup remove_from_shift(doc) \cup set_backstop(doc)
                 \cup update_reason(doc) \cup create_reason(doc) \cup delete_reason(doc)
  IN  (IF "panel" \in Doors THEN panel ELSE {})
        \cup (IF "plans" \in Doors THEN set_plan(doc) \cup set_feed ELSE {})
        \cup (IF "api" \in Doors THEN patch_scope(doc) \cup delete_scope ELSE {})

(***************************************************************************)
(* The machine.  `pc` of a request says what it has done: "asked", looked  *)
(* at the live configuration and decided on an edit; "checked", read the   *)
(* table and validated; "stored", written its row.                         *)
(***************************************************************************)
VARIABLES
  stored,   \* the rows of config_overrides
  live,     \* the Config object of the process
  up,       \* whether the process is there: it does not start on an invalid one
  req,      \* what each thread is doing: pc, the edit, its snapshot of the rows
  raced,    \* whether two edits have overlapped since the process started
  edits     \* how many edits were begun

vars == <<stored, live, up, req, raced, edits>>

Idle == [pc |-> "idle", edit |-> Edit("none", "none", NoPatch), overrides |-> NoPatch]

Init ==
  /\ stored = NoPatch
  /\ live = Base
  /\ up = TRUE
  /\ req = [r \in Request |-> Idle]
  /\ raced = FALSE
  /\ edits = 0

\* The handler looks at the live configuration, and refuses or decides on a patch.
Ask(r) ==
  /\ up /\ req[r].pc = "idle" /\ edits < MaxEdits
  /\ \E e \in Edits(live) :
       req' = [req EXCEPT ![r] = [Idle EXCEPT !.pc = "asked", !.edit = e]]
  /\ edits' = edits + 1
  /\ raced' = (raced \/ \E q \in Request \ {r} : req[q].pc # "idle")
  /\ raced' => edits' <= MaxRaced
  /\ UNCHANGED <<stored, live, up>>

\* The rows as they would be: the edit composed onto the one it is about, or without it.
Proposed(edit) ==
  IF edit.op = "delete_scope" THEN WithRow(stored, edit.scope, NoPatch)
  ELSE compose_patch(stored, edit.patch)

\* The table is read, and what would result is validated: 422, or go on.  There is
\* nothing to revert if the row is not there.
Propose(r) ==
  LET edit == req[r].edit
      rows == Proposed(edit)
  IN
  /\ req[r].pc = "asked"
  /\ req' = [req EXCEPT ![r] =
       IF validate(candidate(rows)) /\ (edit.op = "delete_scope" => rows # stored)
       THEN [@ EXCEPT !.pc = "checked", !.overrides = rows]
       ELSE Idle]
  /\ UNCHANGED <<stored, live, up, raced, edits>>

RowOfPatch(r) == req[r].edit.patch

\* The row as this request composed it.
Row(r) == req[r].overrides

\* PATCH of the scope `source` answers here; every other edit reloads.
Store(r) ==
  LET edit == req[r].edit IN
  /\ req[r].pc = "checked"
  /\ stored' = WithRow(stored, edit.scope, Row(r))
  /\ req' = [req EXCEPT ![r] = IF edit.op = "patch_scope" /\ edit.scope = "source"
                               THEN Idle ELSE [@ EXCEPT !.pc = "stored"]]
  /\ UNCHANGED <<live, up, raced, edits>>

InstalledRow(overrides, source) == [candidate(overrides) EXCEPT !.source = overrides.source]

\* reload_into leaves the feed's settings as they are, at boot too.
Installed(overrides, source) == [candidate(overrides) EXCEPT !.source = source]

\* What is installed is the snapshot, not the table.
Reload(r) ==
  /\ req[r].pc = "stored"
  /\ live' = Installed(req[r].overrides, live.source)
  /\ req' = [req EXCEPT ![r] = Idle]
  /\ UNCHANGED <<stored, up, raced, edits>>

\* The process ends, whatever its threads were doing, and is started again.  config.load()
\* runs before there is a database and sees no rows; create_app reloads with them.
Restart ==
  /\ up' = validate(candidate(stored))
  /\ live' = IF up' THEN Installed(stored, Base.source) ELSE Base
  /\ req' = [r \in Request |-> Idle]
  /\ raced' = FALSE
  /\ UNCHANGED <<stored, edits>>

Next == Restart \/ \E r \in Request : Ask(r) \/ Propose(r) \/ Store(r) \/ Reload(r)

Spec == Init /\ [][Next]_vars

(***************************************************************************)
(* Properties                                                              *)
(***************************************************************************)
\* What a document or a patch looks like; extra is what may stand for a key.
Codings == UNION {[cs -> Team \cup {Absent}] : cs \in SUBSET Code}

Shaped(doc, extra) ==
  /\ doc = [entry |-> [e \in Entry |-> doc.entry[e]], default_owner |-> doc.default_owner,
            plan |-> doc.plan, codes |-> doc.codes, source |-> doc.source]
  /\ \A e \in Entry : doc.entry[e] \in extra \cup [Fields(e) -> Value(e) \cup extra]
  /\ doc.default_owner \in Person \cup extra
  /\ doc.plan \in extra \cup SUBSET Team
  /\ doc.codes \in extra \cup Codings
  /\ doc.source \in Setting \cup extra

IsPatch(doc)    == Shaped(doc, {Absent, Null})

\* In a document no null is left, and the keys that every configuration has are there.
IsDocument(doc) ==
  /\ Shaped(doc, {Absent})
  /\ doc.plan \in SUBSET Team /\ doc.codes # Absent /\ doc.source \in Setting

\* The YAML files are a document; ids of people and of teams are kept apart, as in
\* routing.people and routing.roles; `all` is no shift; a key that is missing or null
\* has none of the values.
ASSUME DocumentAssumption ==
  /\ IsDocument(Base)
  /\ Person \cap Team = {}
  /\ "all" \notin Shift
  /\ Absent # Null
  /\ \A mark \in {Absent, Null} :
       /\ mark \notin Person \cup Team \cup Number \cup Setting
       /\ \A ids \in (SUBSET Person) \cup (SUBSET Team) : mark # ids
       /\ \A e \in Entry : mark \notin [Fields(e) -> Value(e) \cup {Absent, Null}]
       /\ mark \notin Codings

\* The rows and the snapshots are patches; the live configuration is a document.
TypeOK ==
  /\ IsPatch(stored)
  /\ IsDocument(live)
  /\ \A r \in Request : /\ req[r].pc \in {"idle", "asked", "checked", "stored"}
                        /\ IsPatch(req[r].overrides)
  /\ up \in BOOLEAN /\ raced \in BOOLEAN /\ edits \in 0..MaxEdits

\* "The backstop has to actually exist and be reachable", "every person must keep a way to
\* be reached" (validate): whatever edits meet, every team that faults are routed to exists,
\* whoever a fault of a team is paged to on a shift is a person with an address, and so is
\* the backstop, if there is one.  That there IS somebody to page is not said here: see
\* RoutesToSomebody.
LiveRoutes ==
  up => LET callable == {p \in people(live) : Reachable(live, p)} IN
        /\ Targeted(live) \subseteq roles(live)
        /\ \A t \in roles(live), s \in Shift : resolve(live, t, s) \subseteq callable
        /\ live.default_owner \in callable \cup {Absent}

\* An edit that is answered with "ok" is what the process works with from then on:
\* what it deletes is gone, what it sets is set, and a roster is the whole roster
\* (_roster_patch).  The endpoints that create have a claim of their own.
Shown(at, node) ==
  IF node = Absent THEN at = Absent
  ELSE at # Absent /\ \A f \in DOMAIN node : node[f] = Null \/ at[f] = node[f]

Creates == {"create_person", "create_team"}

EditsTakeEffect ==
  [][\A r \in Request : LET edit == req[r].edit IN
       Reload(r) /\ edit.entry # Absent /\ edit.op \notin Creates
         => Shown(live'.entry[edit.entry], edit.node)]_vars

\* "every change made through the config API survives" (main.py): edits made one after
\* the other leave a table from which a restart makes the configuration that was live.
RestartKeepsLive ==
  up /\ ~raced /\ (\A r \in Request : req[r].pc = "idle")
    => live = Installed(stored, live.source)

\* "Somebody must be on duty for every shift a team is actually paged on" (set_roster):
\* no edit of the panel, made on its own, takes the last person off a shift that faults
\* are routed to, or routes faults to a shift without one.  set_plan does not look, and a
\* plan may name a team with an empty shift.
\* As in the panel, a shift that is missing is a shift without anybody.
Covered(doc, t) ==
  LET at == doc.entry[t] IN
  IF at["all"] # Absent THEN at["all"] # {} ELSE \A s \in Shift : at[s] \notin {Absent, {}}

Unguarded == {"set_plan", "patch_scope", "delete_scope"}

CoverIsKept ==
  [][\A r \in Request :
       Reload(r) /\ ~raced /\ req[r].edit.op \notin Unguarded
         => \A t \in Targeted(live') :
              Covered(live', t) \/ (t \in Targeted(live) /\ ~Covered(live, t))]_vars

(***************************************************************************)
(* Claims of the comments that the code does not keep                      *)
(***************************************************************************)
\* "its override is STORED like the others and applied at BOOT" (config.py, of `source`):
\* a restart works with everything that is stored.
BootAppliesAll == [][Restart /\ up' => live' = candidate(stored)]_vars

\* "The boot-time 'fail loud' guarantee becomes 'reject the write'" (config_api.py): what
\* was accepted is a configuration the program starts with.
StartsAgain == up

\* "it never becomes 'accept a config that routes nothing to nobody at 3am'" (config_api.py):
\* on every shift, a fault of a team that faults are routed to is paged to somebody.
RoutesToSomebody ==
  up => \A t \in Targeted(live), s \in Shift : resolve(live, t, s) # {}

\* "'this is the roster now' mean what it says" (_roster_patch): a team or a person that
\* is created is what its creator gave, and nothing else.
CreatedAsGiven ==
  [][\A r \in Request : LET edit == req[r].edit IN
       Reload(r) /\ edit.op \in Creates => live'.entry[edit.entry] = edit.node]_vars
=============================================================================
