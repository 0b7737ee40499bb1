-------------------------- MODULE ConfigStoreProofs --------------------------
(***************************************************************************)
(* Theorems about ConfigStore, for all people, teams, shifts, reasons and  *)
(* YAML files, any number of threads and edits, and edits that overlap in  *)
(* any way.  They rest on the module's two assumptions.                    *)
(***************************************************************************)
EXTENDS ConfigStore, WellFoundedInduction, TLAPS

\* A thread holds a step, an edit and a snapshot of the rows.
Threads ==
  req = [r \in Request |-> [pc |-> req[r].pc, edit |-> req[r].edit,
                            overrides |-> req[r].overrides]]

\* What a thread has checked is valid, and it installs just that: this is why overlapping
\* edits cannot make the live configuration invalid, whatever they do to the table.
SnapshotsValid ==
  \A r \in Request : req[r].pc \in {"checked", "stored"} => validate(candidate(req[r].overrides))

LiveValid == up => validate(live)

IInv == Threads /\ SnapshotsValid /\ LiveValid

\* The settings of the feed are not looked at by any other rule.
LEMMA InstalledValid ==
  ASSUME NEW overrides, NEW source, validate(candidate(overrides))
  PROVE  validate(Installed(overrides, source))
  BY DEF Installed, candidate, merge_patch, Layer, validate, Owners, roles, people, Members,
         Reachable

LEMMA Start == Init => IInv
  BY StoreAssumption DEF Init, IInv, Threads, SnapshotsValid, LiveValid, Idle

\* One thread moves on.
LEMMA ThreadMoves ==
  ASSUME Threads, SnapshotsValid,
         NEW r \in Request, NEW pc, NEW edit, NEW overrides,
         req' = [req EXCEPT ![r] = [pc |-> pc, edit |-> edit, overrides |-> overrides]],
         pc \in {"checked", "stored"} => validate(candidate(overrides))
  PROVE  Threads' /\ SnapshotsValid'
<1>1. \A q \in Request :
        req'[q] = IF q = r THEN [pc |-> pc, edit |-> edit, overrides |-> overrides]
                           ELSE [pc |-> req[q].pc, edit |-> req[q].edit,
                                 overrides |-> req[q].overrides]
  BY DEF Threads
<1>2. req' = [q \in Request |-> req'[q]]
  BY DEF Threads
<1>3. Threads'
  BY <1>1, <1>2 DEF Threads
<1>4. SnapshotsValid'
  <2>1. ASSUME NEW q \in Request, req'[q].pc \in {"checked", "stored"}
        PROVE  validate(candidate(req'[q].overrides))
    <3>1. CASE q = r
      <4>1. req'[q] = [pc |-> pc, edit |-> edit, overrides |-> overrides]
        BY <3>1, <1>1, Zenon
      <4>2. req'[q].pc = pc /\ req'[q].overrides = overrides
        BY <4>1
      <4> QED BY <2>1, <4>2
    <3>2. CASE q # r
      <4>1. req'[q].pc = req[q].pc /\ req'[q].overrides = req[q].overrides
        BY <3>2, <1>1
      <4> QED BY <2>1, <4>1 DEF SnapshotsValid
    <3> QED BY <3>1, <3>2
  <2> QED BY <2>1 DEF SnapshotsValid
<1> QED BY <1>3, <1>4

\* What a thread holds after it has looked at the table, and after it has written to it.
LEMMA ProposeMoves ==
  ASSUME Threads, NEW r \in Request, Propose(r)
  PROVE  LET edit == req[r].edit
             rows == Proposed(edit)
         IN  \/ req' = [req EXCEPT ![r] = [pc |-> "idle", edit |-> Edit("none", "none", NoPatch),
                                          overrides |-> NoPatch]]
             \/ /\ req' = [req EXCEPT ![r] = [pc |-> "checked", edit |-> edit,
                                             overrides |-> rows]]
                /\ validate(candidate(rows))
<1> DEFINE rows == Proposed(req[r].edit)
<1>1. \/ req' = [req EXCEPT ![r] = Idle]
      \/ /\ req' = [req EXCEPT ![r] = [@ EXCEPT !.pc = "checked", !.overrides = rows]]
         /\ validate(candidate(rows))
  BY DEF Propose
<1> HIDE DEF rows
<1>2. \/ req' = [req EXCEPT ![r] = [pc |-> "idle", edit |-> Edit("none", "none", NoPatch),
                                   overrides |-> NoPatch]]
      \/ /\ req' = [req EXCEPT ![r] = [pc |-> "checked", edit |-> req[r].edit,
                                      overrides |-> rows]]
         /\ validate(candidate(rows))
  BY <1>1 DEF Idle, Threads
<1> QED BY <1>2 DEF rows

LEMMA StoreMoves ==
  ASSUME Threads, NEW r \in Request, Store(r)
  PROVE  LET edit == req[r].edit IN
         req' = IF edit.op = "patch_scope" /\ edit.scope = "source"
                THEN [req EXCEPT ![r] = [pc |-> "idle", edit |-> Edit("none", "none", NoPatch),
                                         overrides |-> NoPatch]]
                ELSE [req EXCEPT ![r] = [pc |-> "stored", edit |-> edit,
                                         overrides |-> req[r].overrides]]
<1>1. req[r] = [pc |-> req[r].pc, edit |-> req[r].edit, overrides |-> req[r].overrides]
  BY DEF Threads
<1>2. [req[r] EXCEPT !.pc = "stored"] = [pc |-> "stored", edit |-> req[r].edit,
                                         overrides |-> req[r].overrides]
  BY <1>1
<1>3. req' = IF req[r].edit.op = "patch_scope" /\ req[r].edit.scope = "source"
             THEN [req EXCEPT ![r] = Idle]
             ELSE [req EXCEPT ![r] = [req[r] EXCEPT !.pc = "stored"]]
  BY DEF Store
<1> QED BY <1>2, <1>3 DEF Idle

LEMMA Steps == IInv /\ [Next]_vars => IInv'
<1> SUFFICES ASSUME IInv, [Next]_vars PROVE IInv'
  OBVIOUS
<1> USE DEF IInv
<1> DEFINE Moved(r, pc, edit, overrides) ==
      [req EXCEPT ![r] = [pc |-> pc, edit |-> edit, overrides |-> overrides]]
<1>1. CASE Restart
  <2>1. Threads' /\ SnapshotsValid'
    <3>1. \A q \in Request : req'[q] = [pc |-> "idle", edit |-> Edit("none", "none", NoPatch),
                                        overrides |-> NoPatch]
      BY <1>1 DEF Restart, Idle
    <3>2. req' = [q \in Request |-> req'[q]]
      BY <1>1 DEF Restart
    <3>3. Threads'
      BY <3>1, <3>2 DEF Threads
    <3>4. SnapshotsValid'
      BY <3>1 DEF SnapshotsValid
    <3> QED BY <3>3, <3>4
  <2>2. LiveValid'
    BY <1>1, InstalledValid DEF Restart, LiveValid
  <2> QED BY <2>1, <2>2
<1>2. ASSUME NEW r \in Request, Ask(r) PROVE IInv'
  <2>1. PICK e \in Edits(live) : req' = Moved(r, "asked", e, NoPatch)
    BY <1>2 DEF Ask, Idle
  <2>2. Threads' /\ SnapshotsValid'
    <3>1. "asked" \notin {"checked", "stored"}
      OBVIOUS
    <3> QED BY <2>1, <3>1, ThreadMoves
  <2>3. LiveValid'
    BY <1>2 DEF Ask, LiveValid
  <2> QED BY <2>2, <2>3
<1>3. ASSUME NEW r \in Request, Propose(r) PROVE IInv'
  <2> DEFINE rows == Proposed(req[r].edit)
  <2>2. \/ req' = Moved(r, "idle", Edit("none", "none", NoPatch), NoPatch)
        \/ req' = Moved(r, "checked", req[r].edit, rows) /\ validate(candidate(rows))
    BY <1>3, ProposeMoves
  <2> HIDE DEF rows
  <2>3. Threads' /\ SnapshotsValid'
    BY <2>2, ThreadMoves
  <2>4. LiveValid'
    BY <1>3 DEF Propose, LiveValid
  <2> QED BY <2>3, <2>4
<1>4. ASSUME NEW r \in Request, Store(r) PROVE IInv'
  <2>1. /\ req[r].pc = "checked"
        /\ \/ req' = Moved(r, "idle", Edit("none", "none", NoPatch), NoPatch)
           \/ req' = Moved(r, "stored", req[r].edit, req[r].overrides)
    BY <1>4, StoreMoves DEF Store
  <2>2. validate(candidate(req[r].overrides))
    BY <2>1 DEF SnapshotsValid
  <2>3. Threads' /\ SnapshotsValid'
    BY <2>1, <2>2, ThreadMoves
  <2>4. LiveValid'
    BY <1>4 DEF Store, LiveValid
  <2> QED BY <2>3, <2>4
<1>5. ASSUME NEW r \in Request, Reload(r) PROVE IInv'
  <2>1. req' = Moved(r, "idle", Edit("none", "none", NoPatch), NoPatch)
    BY <1>5 DEF Reload, Idle
  <2>2. Threads' /\ SnapshotsValid'
    <3>1. "idle" \notin {"checked", "stored"}
      OBVIOUS
    <3> QED BY <2>1, <3>1, ThreadMoves
  <2>3. validate(candidate(req[r].overrides))
    BY <1>5 DEF Reload, SnapshotsValid
  <2>4. LiveValid'
    BY <1>5, <2>3, InstalledValid DEF Reload, LiveValid
  <2> QED BY <2>2, <2>4
<1>6. CASE UNCHANGED vars
  BY <1>6 DEF vars, LiveValid, Threads, SnapshotsValid
<1> QED BY <1>1, <1>2, <1>3, <1>4, <1>5, <1>6 DEF Next

\* Every configuration the threads work with passes validate, and so does every snapshot
\* that is still to be installed (config_api.py, "Validated before commit").
THEOREM StoreIInv == Spec => []IInv
  BY Start, Steps, PTL DEF Spec

\* Whomever a team resolves to is on its roster: the fallback for a missing shift, and the
\* bucket for the whole day, are buckets of it (role_person_ids).
LEMMA ResolvesToMembers ==
  ASSUME NEW doc, NEW t, NEW s \in Shift, NEW p \in role_person_ids(doc, t, s)
  PROVE  p \in Members(doc, t)
<1> DEFINE at == doc.entry[t]
           named == {k \in DOMAIN SHIFT_KEYS : at[SHIFT_KEYS[k]] # Absent}
           first == CHOOSE k \in named : \A j \in named : k <= j
<1>1. ASSUME NEW b \in Bucket, at[b] # Absent, p \in at[b] PROVE p \in Members(doc, t)
  BY <1>1 DEF Members
<1>2. "all" \in Bucket /\ s \in Bucket
  BY DEF Bucket
<1>3. CASE at["all"] # Absent
  BY <1>1, <1>2, <1>3 DEF role_person_ids
<1>4. CASE at["all"] = Absent /\ at[s] # Absent
  BY <1>1, <1>2, <1>4 DEF role_person_ids
<1>5. CASE at["all"] = Absent /\ at[s] = Absent /\ named # {}
  <2>1. named \subseteq Nat
    BY StoreAssumption
  <2>2. \E k \in named : \A j \in named : k <= j
    <3>1. PICK k \in named : \A j \in named : <<j, k>> \notin OpToRel(<, Nat)
      BY <1>5, <2>1, NatLessThanWellFounded, WFMin
    <3>2. \A j \in named : ~ (j < k)
      BY <2>1, <3>1 DEF OpToRel
    <3> QED BY <2>1, <3>2
  <2>3. first \in named
    BY <2>2
  <2>4. SHIFT_KEYS[first] \in Bucket /\ at[SHIFT_KEYS[first]] # Absent
    BY <2>3 DEF Bucket, Shift
  <2>5. p \in at[SHIFT_KEYS[first]]
    BY <1>5 DEF role_person_ids
  <2> QED BY <1>1, <2>4, <2>5
<1>6. CASE at["all"] = Absent /\ at[s] = Absent /\ named = {}
  BY <1>6 DEF role_person_ids
<1> QED BY <1>3, <1>4, <1>5, <1>6

LEMMA ValidRoutes == LiveValid => LiveRoutes
<1> SUFFICES ASSUME up, validate(live) PROVE LiveRoutes
  BY DEF LiveValid, LiveRoutes
<1> DEFINE callable == {p \in people(live) : Reachable(live, p)}
<1>1. Targeted(live) \subseteq roles(live)
  BY DEF validate, Targeted
<1>2. live.default_owner \in callable \cup {Absent}
  BY DEF validate
<1>3. ASSUME NEW t \in roles(live), NEW s \in Shift, NEW p \in role_person_ids(live, t, s)
      PROVE  p \in callable
  <2>1. p \in Members(live, t)
    BY ResolvesToMembers, <1>3
  <2> QED BY <2>1 DEF validate
<1> HIDE DEF callable
<1>4. ASSUME NEW t \in roles(live), NEW s \in Shift
      PROVE  resolve(live, t, s) \subseteq callable
  BY <1>2, <1>3 DEF resolve
<1> QED BY <1>1, <1>2, <1>4 DEF LiveRoutes, callable

\* Whatever edits meet, faults are routed to teams that exist; whoever a fault is paged to
\* is a person who can be reached, and so is the backstop, if there is one: the guarantee
\* of boot, kept by every accepted write.
THEOREM LiveConfigurationRoutes == Spec => []LiveRoutes
  BY StoreIInv, ValidRoutes, PTL DEF IInv
-----------------------------------------------------------------------------
(* What an edit does. *)

\* Only entries and the backstop are ever null in a patch.
Settled(rows) ==
  /\ IsPatch(rows)
  /\ rows.plan # Null /\ rows.codes # Null /\ rows.source # Null

\* The layers, field by field.
LEMMA ComposedIs ==
  ASSUME NEW first, NEW second
  PROVE  compose_patch(first, second) =
           [entry |-> [e \in Entry |-> ComposeNode(e, first.entry[e], second.entry[e])],
            default_owner |-> ComposeLeaf(first.default_owner, second.default_owner),
            plan   |-> ComposeLeaf(first.plan, second.plan),
            codes  |-> ComposeLeaf(first.codes, second.codes),
            source |-> ComposeLeaf(first.source, second.source)]
  BY DEF compose_patch, Layer

LEMMA InstalledIs ==
  ASSUME NEW rows, NEW source
  PROVE  Installed(rows, source) =
           [entry |-> [e \in Entry |-> MergeNode(e, Base.entry[e], rows.entry[e])],
            default_owner |-> MergeLeaf(Base.default_owner, rows.default_owner),
            plan   |-> MergeLeaf(Base.plan, rows.plan),
            codes  |-> MergeLeaf(Base.codes, rows.codes),
            source |-> source]
<1> DEFINE doc == candidate(rows)
<1>1. doc = [entry |-> [e \in Entry |-> MergeNode(e, Base.entry[e], rows.entry[e])],
             default_owner |-> MergeLeaf(Base.default_owner, rows.default_owner),
             plan   |-> MergeLeaf(Base.plan, rows.plan),
             codes  |-> MergeLeaf(Base.codes, rows.codes),
             source |-> MergeLeaf(Base.source, rows.source)]
  BY DEF candidate, merge_patch, Layer
<1>2. Installed(rows, source) = [doc EXCEPT !.source = source]
  BY DEF Installed
<1> HIDE DEF doc
<1> QED BY <1>1, <1>2

\* A row, put in its place.
LEMMA WithRowIs ==
  ASSUME NEW rows, Settled(rows), NEW row, NEW scope \in Scope
  PROVE  WithRow(rows, scope, row) =
           [entry |-> IF scope = "routing" THEN row.entry ELSE rows.entry,
            default_owner |-> IF scope = "routing" THEN row.default_owner
                                                   ELSE rows.default_owner,
            plan   |-> IF scope = "escalation" THEN row.plan ELSE rows.plan,
            codes  |-> IF scope = "reasons" THEN row.codes ELSE rows.codes,
            source |-> IF scope = "source" THEN row.source ELSE rows.source]
<1>1. PICK en, ow, pl, co, so :
        rows = [entry |-> en, default_owner |-> ow, plan |-> pl, codes |-> co, source |-> so]
  BY DEF Settled, IsPatch, Shaped
<1>2. /\ rows.entry = en /\ rows.default_owner = ow /\ rows.plan = pl /\ rows.codes = co
      /\ rows.source = so
  BY <1>1
<1>3. CASE scope = "routing"
  <2>1. WithRow(rows, scope, row) =
          [rows EXCEPT !.entry = row.entry, !.default_owner = row.default_owner]
    BY <1>3 DEF WithRow
  <2> QED BY <2>1, <1>1, <1>2, <1>3
<1>4. CASE scope = "escalation"
  <2>1. WithRow(rows, scope, row) = [rows EXCEPT !.plan = row.plan]
    BY <1>4 DEF WithRow
  <2> QED BY <2>1, <1>1, <1>2, <1>4
<1>5. CASE scope = "reasons"
  <2>1. WithRow(rows, scope, row) = [rows EXCEPT !.codes = row.codes]
    BY <1>5 DEF WithRow
  <2> QED BY <2>1, <1>1, <1>2, <1>5
<1>6. CASE scope = "source"
  <2>1. WithRow(rows, scope, row) = [rows EXCEPT !.source = row.source]
    BY <1>6 DEF WithRow
  <2> QED BY <2>1, <1>1, <1>2, <1>6
<1> QED BY <1>3, <1>4, <1>5, <1>6 DEF Scope

\* A mapping is neither missing nor null.
LEMMA Objects ==
  ASSUME NEW e \in Entry, NEW node \in [Fields(e) -> Value(e) \cup {Absent, Null}]
  PROVE  IsObject(node)
  BY DocumentAssumption DEF IsObject

LEMMA NodesOf ==
  ASSUME NEW e \in Entry, NEW node \in {Absent, Null} \cup [Fields(e) -> Value(e) \cup {Absent, Null}]
  PROVE  Object(e, node) \in [Fields(e) -> Value(e) \cup {Absent, Null}]
  BY DEF Object, IsObject

\* What a patch is made of.
LEMMA SettledIs ==
  ASSUME NEW rows
  PROVE  Settled(rows) <=>
           /\ rows = [entry |-> [e \in Entry |-> rows.entry[e]],
                      default_owner |-> rows.default_owner, plan |-> rows.plan,
                      codes |-> rows.codes, source |-> rows.source]
           /\ \A e \in Entry : rows.entry[e] \in {Absent, Null}
                                  \cup [Fields(e) -> Value(e) \cup {Absent, Null}]
           /\ rows.default_owner \in Person \cup {Absent, Null}
           /\ rows.plan \in {Absent, Null} \cup SUBSET Team /\ rows.plan # Null
           /\ rows.codes \in {Absent, Null} \cup Codings /\ rows.codes # Null
           /\ rows.source \in Setting \cup {Absent, Null} /\ rows.source # Null
  BY DEF Settled, IsPatch, Shaped

LEMMA SettledMade ==
  ASSUME NEW en, NEW ow, NEW pl, NEW co, NEW so,
         \A e \in Entry : en[e] \in {Absent, Null}
                            \cup [Fields(e) -> Value(e) \cup {Absent, Null}],
         en = [e \in Entry |-> en[e]],
         ow \in Person \cup {Absent, Null},
         pl \in {Absent, Null} \cup SUBSET Team, pl # Null,
         co \in {Absent, Null} \cup Codings, co # Null,
         so \in Setting \cup {Absent, Null}, so # Null
  PROVE  Settled([entry |-> en, default_owner |-> ow, plan |-> pl, codes |-> co, source |-> so])
<1> DEFINE rows == [entry |-> en, default_owner |-> ow, plan |-> pl, codes |-> co, source |-> so]
<1>1. /\ rows.entry = en /\ rows.default_owner = ow /\ rows.plan = pl /\ rows.codes = co
      /\ rows.source = so
  OBVIOUS
<1>2. rows = [entry |-> [e \in Entry |-> rows.entry[e]],
              default_owner |-> rows.default_owner, plan |-> rows.plan,
              codes |-> rows.codes, source |-> rows.source]
  OBVIOUS
<1> HIDE DEF rows
<1>3. Settled(rows)
  BY <1>1, <1>2, SettledIs
<1> QED BY <1>3 DEF rows

LEMMA NoPatchSettled == Settled(NoPatch)
<1>1. Absent # Null
  BY DocumentAssumption
<1> DEFINE en == [e \in Entry |-> Absent]
<1>2. NoPatch = [entry |-> en, default_owner |-> Absent, plan |-> Absent, codes |-> Absent,
                 source |-> Absent]
  BY DEF NoPatch
<1>3. en = [e \in Entry |-> en[e]] /\ \A e \in Entry : en[e] = Absent
  OBVIOUS
<1> HIDE DEF en
<1> QED BY <1>1, <1>2, <1>3, SettledMade

LEMMA ComposeSettled ==
  ASSUME NEW first, NEW second, Settled(first), Settled(second)
  PROVE  Settled(compose_patch(first, second))
<1> DEFINE en == [e \in Entry |-> ComposeNode(e, first.entry[e], second.entry[e])]
<1>1. en = [e \in Entry |-> en[e]]
  OBVIOUS
<1>2. ASSUME NEW e \in Entry
      PROVE  en[e] \in {Absent, Null} \cup [Fields(e) -> Value(e) \cup {Absent, Null}]
  <2>1. Object(e, first.entry[e]) \in [Fields(e) -> Value(e) \cup {Absent, Null}]
    BY NodesOf, SettledIs
  <2>2. CASE IsObject(second.entry[e])
    <3>1. second.entry[e] \in [Fields(e) -> Value(e) \cup {Absent, Null}]
      BY <2>2, SettledIs DEF IsObject
    <3> QED BY <3>1, <2>1, <2>2 DEF ComposeNode, ComposeLeaf
  <2>3. CASE ~IsObject(second.entry[e])
    BY <2>3, SettledIs DEF ComposeNode, ComposeLeaf
  <2> QED BY <2>2, <2>3
<1>3. compose_patch(first, second) =
        [entry |-> en,
         default_owner |-> ComposeLeaf(first.default_owner, second.default_owner),
         plan   |-> ComposeLeaf(first.plan, second.plan),
         codes  |-> ComposeLeaf(first.codes, second.codes),
         source |-> ComposeLeaf(first.source, second.source)]
  BY ComposedIs
<1> HIDE DEF en
<1>4. /\ ComposeLeaf(first.default_owner, second.default_owner) \in Person \cup {Absent, Null}
      /\ ComposeLeaf(first.plan, second.plan) \in {Absent, Null} \cup SUBSET Team
      /\ ComposeLeaf(first.plan, second.plan) # Null
      /\ ComposeLeaf(first.codes, second.codes) \in {Absent, Null} \cup Codings
      /\ ComposeLeaf(first.codes, second.codes) # Null
      /\ ComposeLeaf(first.source, second.source) \in Setting \cup {Absent, Null}
      /\ ComposeLeaf(first.source, second.source) # Null
  BY SettledIs DEF ComposeLeaf
<1> QED BY <1>1, <1>2, <1>3, <1>4, SettledMade

LEMMA WithRowSettled ==
  ASSUME NEW rows, NEW row, Settled(rows), Settled(row), NEW scope \in Scope
  PROVE  Settled(WithRow(rows, scope, row))
<1> DEFINE en == IF scope = "routing" THEN row.entry ELSE rows.entry
           ow == IF scope = "routing" THEN row.default_owner ELSE rows.default_owner
           pl == IF scope = "escalation" THEN row.plan ELSE rows.plan
           co == IF scope = "reasons" THEN row.codes ELSE rows.codes
           so == IF scope = "source" THEN row.source ELSE rows.source
<1>1. WithRow(rows, scope, row) =
        [entry |-> en, default_owner |-> ow, plan |-> pl, codes |-> co, source |-> so]
  BY WithRowIs
<1>2. /\ \A e \in Entry : en[e] \in {Absent, Null}
                                      \cup [Fields(e) -> Value(e) \cup {Absent, Null}]
      /\ ow \in Person \cup {Absent, Null}
      /\ pl \in {Absent, Null} \cup SUBSET Team /\ pl # Null
      /\ co \in {Absent, Null} \cup Codings /\ co # Null
      /\ so \in Setting \cup {Absent, Null} /\ so # Null
  BY SettledIs
<1>3. en = [e \in Entry |-> en[e]]
  <2>1. rows.entry = [e \in Entry |-> rows.entry[e]] /\ row.entry = [e \in Entry |-> row.entry[e]]
    BY DEF Settled, IsPatch, Shaped
  <2> QED BY <2>1
<1> HIDE DEF en, ow, pl, co, so
<1> QED BY <1>1, <1>2, <1>3, SettledMade

\* A document is made of the YAML files and a patch, whatever was nulled in between.
LEMMA InstalledDocument ==
  ASSUME NEW rows, Settled(rows), NEW source \in Setting
  PROVE  IsDocument(Installed(rows, source))
<1> DEFINE en == [e \in Entry |-> MergeNode(e, Base.entry[e], rows.entry[e])]
           doc == Installed(rows, source)
<1>1. doc = [entry |-> en,
             default_owner |-> MergeLeaf(Base.default_owner, rows.default_owner),
             plan   |-> MergeLeaf(Base.plan, rows.plan),
             codes  |-> MergeLeaf(Base.codes, rows.codes),
             source |-> source]
  BY InstalledIs
<1>2. \A e \in Entry : Base.entry[e] \in {Absent} \cup [Fields(e) -> Value(e) \cup {Absent}]
  BY DocumentAssumption DEF IsDocument, Shaped
<1>3. ASSUME NEW e \in Entry
      PROVE  en[e] \in {Absent} \cup [Fields(e) -> Value(e) \cup {Absent}]
  <2>1. Object(e, Base.entry[e]) \in [Fields(e) -> Value(e) \cup {Absent}]
    BY <1>2 DEF Object, IsObject
  <2>2. CASE IsObject(rows.entry[e])
    <3>1. rows.entry[e] \in [Fields(e) -> Value(e) \cup {Absent, Null}]
      BY <2>2, SettledIs DEF IsObject
    <3>2. ASSUME NEW f \in Fields(e)
          PROVE  MergeLeaf(Object(e, Base.entry[e])[f], rows.entry[e][f]) \in Value(e) \cup {Absent}
      BY <2>1, <3>1 DEF MergeLeaf
    <3>3. en[e] = [f \in Fields(e) |->
                     MergeLeaf(Object(e, Base.entry[e])[f], rows.entry[e][f])]
      BY <2>2 DEF MergeNode
    <3> QED BY <3>2, <3>3
  <2>3. CASE ~IsObject(rows.entry[e])
    <3>1. rows.entry[e] \in {Absent, Null}
      BY <2>3 DEF IsObject
    <3>2. en[e] = MergeLeaf(Base.entry[e], rows.entry[e])
      BY <2>3 DEF MergeNode
    <3> QED BY <3>1, <3>2, <1>2 DEF MergeLeaf
  <2> QED BY <2>2, <2>3
<1>4. en = [e \in Entry |-> en[e]]
  OBVIOUS
<1>5. /\ MergeLeaf(Base.default_owner, rows.default_owner) \in Person \cup {Absent}
      /\ MergeLeaf(Base.plan, rows.plan) \in SUBSET Team
      /\ MergeLeaf(Base.codes, rows.codes) \in Codings
      /\ MergeLeaf(Base.codes, rows.codes) # Absent
  BY SettledIs, DocumentAssumption DEF MergeLeaf, IsDocument, Shaped
<1>6. /\ doc.entry = en
      /\ doc.default_owner = MergeLeaf(Base.default_owner, rows.default_owner)
      /\ doc.plan = MergeLeaf(Base.plan, rows.plan)
      /\ doc.codes = MergeLeaf(Base.codes, rows.codes)
      /\ doc.source = source
  BY <1>1
<1> HIDE DEF en
<1>7. doc = [entry |-> [e \in Entry |-> doc.entry[e]], default_owner |-> doc.default_owner,
             plan |-> doc.plan, codes |-> doc.codes, source |-> doc.source]
  BY <1>1, <1>4, <1>6
<1> HIDE DEF doc
<1>8. IsDocument(doc)
  BY <1>3, <1>5, <1>6, <1>7 DEF IsDocument, Shaped
<1> QED BY <1>8 DEF doc

\* An edit changes its own scope, and of an entry that it changes or deletes it says so
\* with a patch that leaves nothing to what was there, but for what it does not mention.
Within(scope, patch) ==
  /\ scope # "routing"    => /\ \A e \in Entry : patch.entry[e] = Absent
                             /\ patch.default_owner = Absent
  /\ scope # "escalation" => patch.plan = Absent
  /\ scope # "reasons"    => patch.codes = Absent
  /\ scope # "source"     => patch.source = Absent

Says(e, patch, node) ==
  \/ patch = Null /\ node = Absent
  \/ /\ IsObject(patch) /\ node # Absent
     /\ \A f \in DOMAIN node :
          /\ f \in Fields(e)
          /\ node[f] = Null \/ patch[f] = IF node[f] = Absent THEN Null ELSE node[f]

EditOK(edit) ==
  /\ edit.scope \in Scope /\ Within(edit.scope, edit.patch) /\ Settled(edit.patch)
  /\ edit.entry # Absent /\ edit.op \notin Creates =>
       edit.entry \in Entry /\ Says(edit.entry, edit.patch.entry[edit.entry], edit.node)
  /\ edit.op = "delete_scope" => edit.entry = Absent

LEMMA EntryEditIs ==
  ASSUME NEW op, NEW e \in Entry, NEW node,
         NEW patch \in {Absent, Null} \cup [Fields(e) -> Value(e) \cup {Absent, Null}]
  PROVE  LET edit == EntryEdit(op, e, patch, node) IN
         /\ edit.op = op /\ edit.scope = "routing" /\ edit.entry = e /\ edit.node = node
         /\ edit.patch = [entry |-> [x \in Entry |-> IF x = e THEN patch ELSE Absent],
                          default_owner |-> Absent, plan |-> Absent, codes |-> Absent,
                          source |-> Absent]
         /\ Settled(edit.patch)
<1> DEFINE edit == EntryEdit(op, e, patch, node)
           en == [x \in Entry |-> IF x = e THEN patch ELSE Absent]
<1>1. edit.op = op /\ edit.scope = "routing" /\ edit.entry = e /\ edit.node = node
      /\ edit.patch = [NoPatch EXCEPT !.entry[e] = patch]
  BY DEF EntryEdit
<1>2. [NoPatch EXCEPT !.entry[e] = patch] =
        [entry |-> [NoPatch.entry EXCEPT ![e] = patch],
         default_owner |-> Absent, plan |-> Absent, codes |-> Absent, source |-> Absent]
  BY DEF NoPatch
<1>3. [NoPatch.entry EXCEPT ![e] = patch] = en
  BY DEF NoPatch
<1>4. edit.patch = [entry |-> en, default_owner |-> Absent, plan |-> Absent,
                    codes |-> Absent, source |-> Absent]
  BY <1>1, <1>2, <1>3
<1>5. /\ en = [x \in Entry |-> en[x]]
      /\ \A x \in Entry : en[x] \in {Absent, Null}
                                      \cup [Fields(x) -> Value(x) \cup {Absent, Null}]
  OBVIOUS
<1>6. Absent # Null
  BY DocumentAssumption
<1> HIDE DEF edit
<1>7. Settled(edit.patch)
  <2> HIDE DEF en
  <2> QED BY <1>4, <1>5, <1>6, SettledMade
<1>8. /\ edit.op = op /\ edit.scope = "routing" /\ edit.entry = e /\ edit.node = node
      /\ edit.patch = [entry |-> en, default_owner |-> Absent, plan |-> Absent,
                       codes |-> Absent, source |-> Absent]
      /\ Settled(edit.patch)
  BY <1>1, <1>4, <1>7
<1> QED BY <1>8 DEF edit

LEMMA EntryEditOK ==
  ASSUME NEW op, NEW e \in Entry, NEW node,
         NEW patch \in {Absent, Null} \cup [Fields(e) -> Value(e) \cup {Absent, Null}],
         op # "delete_scope", op \notin Creates => Says(e, patch, node)
  PROVE  EditOK(EntryEdit(op, e, patch, node))
<1> DEFINE edit == EntryEdit(op, e, patch, node)
<1>1. /\ edit.op = op /\ edit.scope = "routing" /\ edit.entry = e /\ edit.node = node
      /\ edit.patch = [entry |-> [x \in Entry |-> IF x = e THEN patch ELSE Absent],
                       default_owner |-> Absent, plan |-> Absent, codes |-> Absent,
                       source |-> Absent]
      /\ Settled(edit.patch)
  BY EntryEditIs
<1> HIDE DEF edit
<1>2. edit.patch.entry[e] = patch /\ edit.patch.plan = Absent /\ edit.patch.codes = Absent
      /\ edit.patch.source = Absent
  BY <1>1
<1>3. EditOK(edit)
  BY <1>1, <1>2 DEF EditOK, Within, Scope
<1> QED BY <1>3 DEF edit

\* An edit of one of the other keys.
LEMMA KeyEditOK ==
  ASSUME NEW op, NEW scope \in Scope, NEW patch, Settled(patch), Within(scope, patch)
  PROVE  EditOK(Edit(op, scope, patch))
<1> DEFINE edit == Edit(op, scope, patch)
<1>1. edit.scope = scope /\ edit.patch = patch /\ edit.entry = Absent
  BY DEF Edit
<1> HIDE DEF edit
<1>2. EditOK(edit)
  BY <1>1 DEF EditOK
<1> QED BY <1>2 DEF edit

LEMMA KeyPatches ==
  ASSUME NEW x
  PROVE  /\ x \in Person \cup {Null} => Settled([NoPatch EXCEPT !.default_owner = x])
         /\ x \in SUBSET Team /\ x # Null => Settled([NoPatch EXCEPT !.plan = x])
         /\ x \in Codings /\ x # Null => Settled([NoPatch EXCEPT !.codes = x])
         /\ x \in Setting /\ x # Null => Settled([NoPatch EXCEPT !.source = x])
<1> DEFINE en == [e \in Entry |-> Absent]
<1>1. /\ en = [e \in Entry |-> en[e]]
      /\ \A e \in Entry : en[e] \in {Absent, Null}
                                      \cup [Fields(e) -> Value(e) \cup {Absent, Null}]
  OBVIOUS
<1>2. Absent # Null
  BY DocumentAssumption
<1>3. NoPatch = [entry |-> en, default_owner |-> Absent, plan |-> Absent, codes |-> Absent,
                 source |-> Absent]
  BY DEF NoPatch
<1> HIDE DEF en
<1>4. /\ [NoPatch EXCEPT !.default_owner = x] =
           [entry |-> en, default_owner |-> x, plan |-> Absent, codes |-> Absent,
            source |-> Absent]
      /\ [NoPatch EXCEPT !.plan = x] =
           [entry |-> en, default_owner |-> Absent, plan |-> x, codes |-> Absent,
            source |-> Absent]
      /\ [NoPatch EXCEPT !.codes = x] =
           [entry |-> en, default_owner |-> Absent, plan |-> Absent, codes |-> x,
            source |-> Absent]
      /\ [NoPatch EXCEPT !.source = x] =
           [entry |-> en, default_owner |-> Absent, plan |-> Absent, codes |-> Absent,
            source |-> x]
  BY <1>3
<1>5. x \in Person \cup {Null} => Settled([NoPatch EXCEPT !.default_owner = x])
  BY <1>1, <1>2, <1>4, SettledMade
<1>6. x \in SUBSET Team /\ x # Null => Settled([NoPatch EXCEPT !.plan = x])
  BY <1>1, <1>2, <1>4, SettledMade
<1>7. x \in Codings /\ x # Null => Settled([NoPatch EXCEPT !.codes = x])
  BY <1>1, <1>2, <1>4, SettledMade
<1>8. x \in Setting /\ x # Null => Settled([NoPatch EXCEPT !.source = x])
  BY <1>1, <1>2, <1>4, SettledMade
<1> QED BY <1>5, <1>6, <1>7, <1>8

\* What entries are.
LEMMA PersonIs ==
  ASSUME NEW p \in Person
  PROVE  p \in Entry /\ Fields(p) = Channel /\ Value(p) = Number
  BY DEF Entry, Fields, Value

LEMMA TeamIs ==
  ASSUME NEW t \in Team
  PROVE  t \in Entry /\ t \notin Person /\ Fields(t) = Bucket /\ Value(t) = SUBSET Person
  BY DocumentAssumption DEF Entry, Fields, Value

LEMMA ContactsIn == Contacts \subseteq [Channel -> Number \cup {Absent, Null}]
  BY DEF Contacts

LEMMA TeamEntry ==
  ASSUME NEW doc, IsDocument(doc), NEW t \in roles(doc)
  PROVE  t \in Team /\ doc.entry[t] \in [Bucket -> (SUBSET Person) \cup {Absent}]
<1>1. t \in Team /\ doc.entry[t] # Absent
  BY DEF roles
<1>2. doc.entry[t] \in {Absent} \cup [Fields(t) -> Value(t) \cup {Absent}]
  BY <1>1, TeamIs DEF IsDocument, Shaped
<1> QED BY <1>1, <1>2, TeamIs

LEMMA RosterIn ==
  ASSUME NEW doc, IsDocument(doc), NEW t \in roles(doc)
  PROVE  Roster(doc, t) \in [Bucket -> (SUBSET Person) \cup {Absent}]
<1> DEFINE at == doc.entry[t]
           here(b) == IF at["all"] # Absent
                      THEN IF b = "all" THEN at[b] ELSE Absent
                      ELSE IF b = "all" THEN Absent
                           ELSE IF at[b] = Absent THEN {} ELSE at[b]
<1>1. \A b \in Bucket : at[b] \in (SUBSET Person) \cup {Absent}
  BY TeamEntry
<1>2. ASSUME NEW b \in Bucket PROVE here(b) \in (SUBSET Person) \cup {Absent}
  <2>1. at[b] \in (SUBSET Person) \cup {Absent}
    BY <1>1
  <2>2. {} \in SUBSET Person
    OBVIOUS
  <2> HIDE DEF at
  <2> QED BY <2>1, <2>2
<1>3. Roster(doc, t) = [b \in Bucket |-> here(b)]
  BY DEF Roster
<1> HIDE DEF here
<1> QED BY <1>2, <1>3

LEMMA NormalisedIn ==
  ASSUME NEW doc, NEW roster \in Normalised(doc)
  PROVE  roster \in [Bucket -> (SUBSET Person) \cup {Absent}]
<1>1. people(doc) \subseteq Person
  BY DEF people
<1>2. ASSUME NEW m \in SUBSET people(doc), roster = AllDay(m)
      PROVE  roster \in [Bucket -> (SUBSET Person) \cup {Absent}]
  BY <1>1, <1>2 DEF AllDay
<1>3. ASSUME NEW m \in [Shift -> SUBSET people(doc)], roster = ByShift(m)
      PROVE  roster \in [Bucket -> (SUBSET Person) \cup {Absent}]
  <2>1. \A b \in Bucket : b = "all" \/ m[b] \in SUBSET Person
    BY <1>1 DEF Bucket
  <2> QED BY <1>3, <2>1 DEF ByShift
<1> QED BY <1>2, <1>3 DEF Normalised

LEMMA RosterPatchIs ==
  ASSUME NEW t \in Team, NEW roster \in [Bucket -> (SUBSET Person) \cup {Absent}]
  PROVE  /\ RosterPatch(roster) \in [Fields(t) -> Value(t) \cup {Absent, Null}]
         /\ Says(t, RosterPatch(roster), roster)
<1>1. RosterPatch(roster) \in [Fields(t) -> Value(t) \cup {Absent, Null}]
  BY TeamIs DEF RosterPatch
<1>2. roster # Absent
  BY TeamIs, DocumentAssumption
<1>3. IsObject(RosterPatch(roster))
  BY <1>1, TeamIs, Objects
<1> QED BY <1>1, <1>2, <1>3, TeamIs DEF Says, RosterPatch

LEMMA RosterEditOK ==
  ASSUME NEW op, op # "delete_scope",
         NEW t \in Team, NEW roster \in [Bucket -> (SUBSET Person) \cup {Absent}]
  PROVE  EditOK(RosterEdit(op, t, roster))
  BY RosterPatchIs, TeamIs, EntryEditOK DEF RosterEdit

\* Who is added to a shift may be created with the same patch.
LEMMA HiredIs ==
  ASSUME NEW op, NEW t \in Team, NEW roster \in [Bucket -> (SUBSET Person) \cup {Absent}],
         NEW p \in Person, NEW c \in Contacts
  PROVE  LET edit == [RosterEdit(op, t, roster) EXCEPT !.patch.entry[p] = c] IN
         /\ edit.op = op /\ edit.scope = "routing" /\ edit.entry = t /\ edit.node = roster
         /\ edit.patch = [entry |-> [x \in Entry |-> IF x = t THEN RosterPatch(roster)
                                                     ELSE IF x = p THEN c ELSE Absent],
                          default_owner |-> Absent, plan |-> Absent, codes |-> Absent,
                          source |-> Absent]
<1> DEFINE old == RosterEdit(op, t, roster)
           edit == [old EXCEPT !.patch.entry[p] = c]
           en == [x \in Entry |-> IF x = t THEN RosterPatch(roster) ELSE Absent]
           grown == [x \in Entry |-> IF x = t THEN RosterPatch(roster)
                                     ELSE IF x = p THEN c ELSE Absent]
<1>1. t # p /\ p \in Entry
  BY TeamIs, PersonIs
<1>2. old.patch = [entry |-> en, default_owner |-> Absent, plan |-> Absent, codes |-> Absent,
                   source |-> Absent]
  BY EntryEditIs, RosterPatchIs, TeamIs DEF RosterEdit
<1>3. old = [op |-> op, scope |-> "routing", entry |-> t, node |-> roster,
             patch |-> old.patch]
  BY DEF RosterEdit, EntryEdit
<1> HIDE DEF old
<1>4. edit = [op |-> op, scope |-> "routing", entry |-> t, node |-> roster,
              patch |-> [old.patch EXCEPT !.entry[p] = c]]
  BY <1>3
<1>5. [old.patch EXCEPT !.entry[p] = c] =
        [entry |-> [en EXCEPT ![p] = c], default_owner |-> Absent, plan |-> Absent,
         codes |-> Absent, source |-> Absent]
  BY <1>2
<1>6. [en EXCEPT ![p] = c] = grown
  BY <1>1
<1>7. /\ edit.op = op /\ edit.scope = "routing" /\ edit.entry = t /\ edit.node = roster
      /\ edit.patch = [entry |-> grown, default_owner |-> Absent, plan |-> Absent,
                       codes |-> Absent, source |-> Absent]
  BY <1>4, <1>5, <1>6
<1> QED BY <1>7 DEF old

LEMMA HiredOK ==
  ASSUME NEW op, op # "delete_scope", NEW t \in Team, NEW roster \in [Bucket -> (SUBSET Person) \cup {Absent}],
         NEW p \in Person, NEW c \in Contacts
  PROVE  EditOK([RosterEdit(op, t, roster) EXCEPT !.patch.entry[p] = c])
<1> DEFINE edit == [RosterEdit(op, t, roster) EXCEPT !.patch.entry[p] = c]
           en == [x \in Entry |-> IF x = t THEN RosterPatch(roster)
                                  ELSE IF x = p THEN c ELSE Absent]
<1>1. /\ edit.op = op /\ edit.scope = "routing" /\ edit.entry = t /\ edit.node = roster
      /\ edit.patch = [entry |-> en, default_owner |-> Absent, plan |-> Absent,
                       codes |-> Absent, source |-> Absent]
  BY HiredIs
<1>2. en = [x \in Entry |-> en[x]] /\ en[t] = RosterPatch(roster)
  BY TeamIs
<1>3. c \in [Fields(p) -> Value(p) \cup {Absent, Null}]
  BY ContactsIn, PersonIs
<1>4. \A x \in Entry : en[x] \in {Absent, Null}
                                   \cup [Fields(x) -> Value(x) \cup {Absent, Null}]
  BY <1>3, RosterPatchIs
<1>5. Absent # Null
  BY DocumentAssumption
<1> HIDE DEF en, edit
<1>6. Settled(edit.patch)
  BY <1>1, <1>2, <1>4, <1>5, SettledMade
<1>7. /\ edit.patch.entry[t] = RosterPatch(roster) /\ edit.patch.plan = Absent
      /\ edit.patch.codes = Absent /\ edit.patch.source = Absent
  BY <1>1, <1>2
<1>8. t \in Entry /\ Says(t, RosterPatch(roster), roster)
  BY RosterPatchIs, TeamIs
<1>9. EditOK(edit)
  BY <1>1, <1>6, <1>7, <1>8 DEF EditOK, Within, Scope
<1> QED BY <1>9 DEF edit

\* Lists of reasons.
LEMMA CodingIs ==
  ASSUME NEW codes
  PROVE  codes \in Codings <=>
           /\ DOMAIN codes \subseteq Code /\ codes = [c \in DOMAIN codes |-> codes[c]]
           /\ \A c \in DOMAIN codes : codes[c] \in Team \cup {Absent}
<1>1. ASSUME codes \in Codings
      PROVE  /\ DOMAIN codes \subseteq Code /\ codes = [c \in DOMAIN codes |-> codes[c]]
             /\ \A c \in DOMAIN codes : codes[c] \in Team \cup {Absent}
  <2>1. PICK cs \in SUBSET Code : codes \in [cs -> Team \cup {Absent}]
    BY <1>1 DEF Codings
  <2> QED BY <2>1
<1>2. ASSUME DOMAIN codes \subseteq Code, codes = [c \in DOMAIN codes |-> codes[c]],
             \A c \in DOMAIN codes : codes[c] \in Team \cup {Absent}
      PROVE  codes \in Codings
  <2>1. codes \in [DOMAIN codes -> Team \cup {Absent}]
    BY <1>2
  <2>2. DOMAIN codes \in SUBSET Code
    BY <1>2
  <2> QED BY <2>1, <2>2 DEF Codings
<1> QED BY <1>1, <1>2

LEMMA CodesEditOK ==
  ASSUME NEW op, NEW codes \in Codings
  PROVE  EditOK(CodesEdit(op, codes))
<1>1. Settled([NoPatch EXCEPT !.codes = codes])
  BY KeyPatches, DocumentAssumption
<1>2. Within("reasons", [NoPatch EXCEPT !.codes = codes])
  BY DEF Within, NoPatch
<1> QED BY <1>1, <1>2, KeyEditOK DEF CodesEdit, Scope

LEMMA DocumentCodes ==
  ASSUME NEW doc, IsDocument(doc)
  PROVE  doc.codes \in Codings
  BY DEF IsDocument, Shaped

LEMMA ReasonsOK ==
  ASSUME NEW doc, IsDocument(doc),
         NEW edit \in update_reason(doc) \cup create_reason(doc) \cup delete_reason(doc)
  PROVE  \E codes \in Codings, op \in {"update_reason", "create_reason", "delete_reason"} :
           /\ edit = CodesEdit(op, codes)
           /\ \A c \in DOMAIN codes : \/ c \in DOMAIN doc.codes /\ codes[c] = doc.codes[c]
                                      \/ codes[c] \in StaffedTeams(doc) \cup {Absent}
<1>1. doc.codes \in Codings
  BY DocumentCodes
<1>2. /\ DOMAIN doc.codes \subseteq Code
      /\ \A c \in DOMAIN doc.codes : doc.codes[c] \in Team \cup {Absent}
  BY <1>1, CodingIs
<1>3. StaffedTeams(doc) \subseteq Team
  BY DEF StaffedTeams, roles
<1> DEFINE Goal == \E codes \in Codings, op \in {"update_reason", "create_reason",
                                                 "delete_reason"} :
                     /\ edit = CodesEdit(op, codes)
                     /\ \A c \in DOMAIN codes :
                          \/ c \in DOMAIN doc.codes /\ codes[c] = doc.codes[c]
                          \/ codes[c] \in StaffedTeams(doc) \cup {Absent}
<1>4. ASSUME NEW c \in DOMAIN doc.codes, NEW t \in StaffedTeams(doc) \cup {Absent},
             edit = CodesEdit("update_reason", [doc.codes EXCEPT ![c] = t])
      PROVE  Goal
  <2> DEFINE codes == [doc.codes EXCEPT ![c] = t]
  <2>1. /\ DOMAIN codes = DOMAIN doc.codes
        /\ \A x \in DOMAIN codes : codes[x] = IF x = c THEN t ELSE doc.codes[x]
        /\ codes = [x \in DOMAIN codes |-> codes[x]]
    OBVIOUS
  <2> HIDE DEF codes
  <2>2. codes \in Codings
    BY <2>1, <1>2, <1>3, CodingIs
  <2>3. edit = CodesEdit("update_reason", codes)
    BY <1>4 DEF codes
  <2> QED BY <2>1, <2>2, <2>3
<1>5. ASSUME edit = CodesEdit("update_reason", doc.codes) PROVE Goal
  BY <1>1, <1>5
<1>6. ASSUME NEW c \in Code \ DOMAIN doc.codes, NEW t \in StaffedTeams(doc) \cup {Absent},
             edit = CodesEdit("create_reason", [x \in DOMAIN doc.codes \cup {c} |->
                                                  IF x = c THEN t ELSE doc.codes[x]])
      PROVE  Goal
  <2> DEFINE codes == [x \in DOMAIN doc.codes \cup {c} |-> IF x = c THEN t ELSE doc.codes[x]]
  <2>1. /\ DOMAIN codes = DOMAIN doc.codes \cup {c}
        /\ \A x \in DOMAIN codes : codes[x] = IF x = c THEN t ELSE doc.codes[x]
        /\ codes = [x \in DOMAIN codes |-> codes[x]]
    OBVIOUS
  <2> HIDE DEF codes
  <2>2. codes \in Codings
    BY <2>1, <1>2, <1>3, CodingIs
  <2>3. edit = CodesEdit("create_reason", codes)
    BY <1>6 DEF codes
  <2> QED BY <2>1, <2>2, <2>3
<1>7. ASSUME NEW c \in DOMAIN doc.codes,
             edit = CodesEdit("delete_reason", [x \in DOMAIN doc.codes \ {c} |-> doc.codes[x]])
      PROVE  Goal
  <2> DEFINE codes == [x \in DOMAIN doc.codes \ {c} |-> doc.codes[x]]
  <2>1. /\ DOMAIN codes = DOMAIN doc.codes \ {c}
        /\ \A x \in DOMAIN codes : codes[x] = doc.codes[x]
        /\ codes = [x \in DOMAIN codes |-> codes[x]]
    OBVIOUS
  <2> HIDE DEF codes
  <2>2. codes \in Codings
    BY <2>1, <1>2, CodingIs
  <2>3. edit = CodesEdit("delete_reason", codes)
    BY <1>7 DEF codes
  <2> QED BY <2>1, <2>2, <2>3
<1> HIDE DEF Goal
<1>8. ASSUME edit \in update_reason(doc) PROVE Goal
  <2>1. \/ \E c \in DOMAIN doc.codes, t \in StaffedTeams(doc) \cup {Absent} :
             edit = CodesEdit("update_reason", [doc.codes EXCEPT ![c] = t])
        \/ edit = CodesEdit("update_reason", doc.codes)
    BY <1>8 DEF update_reason
  <2> QED BY <2>1, <1>4, <1>5
<1>9. ASSUME edit \in create_reason(doc) PROVE Goal
  <2> DEFINE new(c, t) == CodesEdit("create_reason", [x \in DOMAIN doc.codes \cup {c} |->
                                                        IF x = c THEN t ELSE doc.codes[x]])
  <2>1. create_reason(doc) = {new(c, t) : c \in Code \ DOMAIN doc.codes,
                                          t \in StaffedTeams(doc) \cup {Absent}}
    BY DEF create_reason
  <2> HIDE DEF new
  <2>2. PICK c \in Code \ DOMAIN doc.codes, t \in StaffedTeams(doc) \cup {Absent} :
          edit = new(c, t)
    BY <1>9, <2>1
  <2> QED BY <2>2, <1>6 DEF new
<1>10. ASSUME edit \in delete_reason(doc) PROVE Goal
  <2>1. \E c \in DOMAIN doc.codes :
          edit = CodesEdit("delete_reason", [x \in DOMAIN doc.codes \ {c} |-> doc.codes[x]])
    BY <1>10 DEF delete_reason
  <2> QED BY <2>1, <1>7
<1>11. Goal
  BY <1>8, <1>9, <1>10
<1> QED BY <1>11 DEF Goal

LEMMA FeedEditOK ==
  ASSUME NEW op, NEW s \in Setting
  PROVE  EditOK(Edit(op, "source", [NoPatch EXCEPT !.source = s]))
<1>1. Settled([NoPatch EXCEPT !.source = s])
  BY KeyPatches, DocumentAssumption
<1>2. Within("source", [NoPatch EXCEPT !.source = s])
  BY DEF Within, NoPatch
<1> QED BY <1>1, <1>2, KeyEditOK DEF Scope

LEMMA BackstopEditOK ==
  ASSUME NEW op, NEW x \in Person \cup {Null}
  PROVE  EditOK(Edit(op, "routing", [NoPatch EXCEPT !.default_owner = x]))
<1>1. Settled([NoPatch EXCEPT !.default_owner = x])
  BY KeyPatches
<1>2. Within("routing", [NoPatch EXCEPT !.default_owner = x])
  BY DEF Within, NoPatch
<1> QED BY <1>1, <1>2, KeyEditOK DEF Scope

\* The backstop may be dropped with the patch of an entry.
LEMMA DroppedToo ==
  ASSUME NEW op, NEW e \in Entry, NEW node,
         NEW patch \in {Absent, Null} \cup [Fields(e) -> Value(e) \cup {Absent, Null}],
         op # "delete_scope", Says(e, patch, node)
  PROVE  LET edit == [EntryEdit(op, e, patch, node) EXCEPT !.patch.default_owner = Null] IN
         EditOK(edit) /\ edit.op = op
<1> DEFINE old == EntryEdit(op, e, patch, node)
           edit == [old EXCEPT !.patch.default_owner = Null]
           en == [x \in Entry |-> IF x = e THEN patch ELSE Absent]
<1>1. old.patch = [entry |-> en, default_owner |-> Absent, plan |-> Absent, codes |-> Absent,
                   source |-> Absent]
  BY EntryEditIs
<1>2. old = [op |-> op, scope |-> "routing", entry |-> e, node |-> node,
             patch |-> old.patch]
  BY DEF EntryEdit
<1> HIDE DEF old
<1>3. edit = [op |-> op, scope |-> "routing", entry |-> e, node |-> node,
              patch |-> [old.patch EXCEPT !.default_owner = Null]]
  BY <1>2
<1>4. /\ edit.op = op /\ edit.scope = "routing" /\ edit.entry = e /\ edit.node = node
      /\ edit.patch = [entry |-> en, default_owner |-> Null, plan |-> Absent,
                       codes |-> Absent, source |-> Absent]
  BY <1>1, <1>3
<1>5. /\ en = [x \in Entry |-> en[x]] /\ en[e] = patch
      /\ \A x \in Entry : en[x] \in {Absent, Null}
                                      \cup [Fields(x) -> Value(x) \cup {Absent, Null}]
  OBVIOUS
<1>6. Absent # Null
  BY DocumentAssumption
<1> HIDE DEF en, edit
<1>7. Settled(edit.patch)
  BY <1>4, <1>5, <1>6, SettledMade
<1>8. /\ edit.patch.entry[e] = patch /\ edit.patch.plan = Absent
      /\ edit.patch.codes = Absent /\ edit.patch.source = Absent
  BY <1>4, <1>5
<1>9. EditOK(edit) /\ edit.op = op
  BY <1>4, <1>7, <1>8 DEF EditOK, Within, Scope
<1> QED BY <1>9 DEF old, edit

\* A patch of one key says so.
LEMMA KeyIs ==
  ASSUME NEW e \in Entry, NEW key \in Fields(e), NEW value \in Value(e) \cup {Null},
         value # Absent
  PROVE  \E patch, node \in [Fields(e) -> Value(e) \cup {Absent, Null}] :
           KeyEdit(e, key, value) = EntryEdit("patch_scope", e, patch, node) /\ Says(e, patch, node)
<1> DEFINE patch == [x \in Fields(e) |-> IF x = key THEN value ELSE Absent]
           node  == [x \in Fields(e) |-> IF x # key THEN Null
                                         ELSE IF value = Null THEN Absent ELSE value]
<1>1. /\ patch \in [Fields(e) -> Value(e) \cup {Absent, Null}]
      /\ node \in [Fields(e) -> Value(e) \cup {Absent, Null}]
  OBVIOUS
<1>2. IsObject(patch) /\ IsObject(node)
  BY <1>1, Objects
<1>3. Says(e, patch, node)
  <2>1. DOMAIN node = Fields(e) /\ node # Absent
    BY <1>2 DEF IsObject
  <2>2. ASSUME NEW f \in Fields(e), node[f] # Null
        PROVE  patch[f] = IF node[f] = Absent THEN Null ELSE node[f]
    <3>1. f = key
      BY <2>2
    <3> QED BY <3>1
  <2> HIDE DEF patch, node
  <2> QED BY <1>2, <2>1, <2>2 DEF Says
<1>4. KeyEdit(e, key, value) = EntryEdit("patch_scope", e, patch, node)
  BY DEF KeyEdit
<1> HIDE DEF patch, node
<1> QED BY <1>1, <1>3, <1>4

\* An edit of one team.
TeamEdit(edit, op, t, patch) ==
  /\ edit.op = op /\ edit.entry = t /\ edit.patch.entry[t] = patch
  /\ \A x \in Team \ {t} : edit.patch.entry[x] = Absent
  /\ edit.patch.default_owner = Absent
  /\ edit.patch.plan = Absent /\ edit.patch.codes = Absent

\* An edit of a shift replaces the roster by one that differs on that shift, and empties
\* it only if nobody is routed to it.
ShiftEdited(doc, t, roster) ==
  \A b \in Bucket : LET old == Roster(doc, t)[b] IN
    \/ roster[b] = old
    \/ old # Absent /\ roster[b] # Absent /\ (roster[b] # {} \/ t \notin Targeted(doc))

LEMMA TeamEditIs ==
  ASSUME NEW op, NEW t \in Team, NEW node,
         NEW patch \in {Absent, Null} \cup [Fields(t) -> Value(t) \cup {Absent, Null}]
  PROVE  TeamEdit(EntryEdit(op, t, patch, node), op, t, patch)
<1> DEFINE edit == EntryEdit(op, t, patch, node)
           en == [x \in Entry |-> IF x = t THEN patch ELSE Absent]
<1>1. /\ edit.op = op /\ edit.entry = t
      /\ edit.patch = [entry |-> en, default_owner |-> Absent, plan |-> Absent,
                       codes |-> Absent, source |-> Absent]
  BY EntryEditIs, TeamIs
<1> HIDE DEF edit
<1>2. /\ edit.patch.entry = en /\ edit.patch.default_owner = Absent
      /\ edit.patch.plan = Absent /\ edit.patch.codes = Absent
  BY <1>1
<1>3. t \in Entry /\ \A x \in Team : x \in Entry
  BY TeamIs
<1>4. TeamEdit(edit, op, t, patch)
  BY <1>1, <1>2, <1>3 DEF TeamEdit
<1> QED BY <1>4 DEF edit

LEMMA HiredTeamEdit ==
  ASSUME NEW op, NEW t \in Team, NEW roster \in [Bucket -> (SUBSET Person) \cup {Absent}],
         NEW p \in Person, NEW c \in Contacts
  PROVE  LET edit == [RosterEdit(op, t, roster) EXCEPT !.patch.entry[p] = c] IN
         TeamEdit(edit, op, t, RosterPatch(roster)) /\ edit.node = roster
<1> DEFINE edit == [RosterEdit(op, t, roster) EXCEPT !.patch.entry[p] = c]
           en == [x \in Entry |-> IF x = t THEN RosterPatch(roster)
                                  ELSE IF x = p THEN c ELSE Absent]
<1>1. /\ edit.op = op /\ edit.entry = t /\ edit.node = roster
      /\ edit.patch = [entry |-> en, default_owner |-> Absent, plan |-> Absent,
                       codes |-> Absent, source |-> Absent]
  BY HiredIs
<1> HIDE DEF edit
<1>2. /\ edit.patch.entry = en /\ edit.patch.default_owner = Absent
      /\ edit.patch.plan = Absent /\ edit.patch.codes = Absent
  BY <1>1
<1>3. t \in Entry /\ \A x \in Team : x \in Entry /\ x # p
  BY TeamIs
<1>4. TeamEdit(edit, op, t, RosterPatch(roster)) /\ edit.node = roster
  BY <1>1, <1>2, <1>3 DEF TeamEdit
<1> QED BY <1>4 DEF edit

LEMMA AddOK ==
  ASSUME NEW doc, IsDocument(doc), NEW edit \in add_to_shift(doc)
  PROVE  /\ EditOK(edit)
         /\ \E t \in roles(doc) : \E roster \in [Bucket -> (SUBSET Person) \cup {Absent}] :
              /\ TeamEdit(edit, "add_to_shift", t, RosterPatch(roster))
              /\ edit.node = roster /\ ShiftEdited(doc, t, roster)
<1> DEFINE at(t, b, p) == [Roster(doc, t) EXCEPT ![b] = @ \cup {p}]
           one(t, b, p) == RosterEdit("add_to_shift", t, at(t, b, p))
           both(t, b, p, c) == [one(t, b, p) EXCEPT !.patch.entry[p] = c]
           known(t, b) == {one(t, b, p) : p \in people(doc) \ Roster(doc, t)[b]}
           hired(t, b) == {both(t, b, p, c) : p \in Person \ people(doc), c \in Contacts}
           edits_at(t, b) == known(t, b) \cup hired(t, b)
           edits_of(t) == UNION {edits_at(t, b) : b \in Buckets(Roster(doc, t))}
<1>1. people(doc) \subseteq Person /\ roles(doc) \subseteq Team
  BY DEF people, roles
<1>2. add_to_shift(doc) = UNION {edits_of(t) : t \in roles(doc)}
  BY DEF add_to_shift
<1> HIDE DEF edits_of
<1>3. PICK t \in roles(doc) : edit \in edits_of(t)
  BY <1>2
<1> HIDE DEF edits_at
<1>4. PICK b \in Buckets(Roster(doc, t)) : edit \in edits_at(t, b)
  BY <1>3 DEF edits_of
<1> HIDE DEF one, both
<1>5. PICK p \in Person : edit = one(t, b, p) \/ \E c \in Contacts : edit = both(t, b, p, c)
  BY <1>1, <1>4 DEF edits_at
<1> DEFINE roster == Roster(doc, t)
           grown  == [roster EXCEPT ![b] = @ \cup {p}]
<1>6. roster \in [Bucket -> (SUBSET Person) \cup {Absent}]
  BY RosterIn
<1>7. b \in Bucket /\ roster[b] # Absent
  BY DEF Buckets
<1>8. one(t, b, p) = RosterEdit("add_to_shift", t, grown)
  BY DEF one
<1>9. \A c : both(t, b, p, c) = [one(t, b, p) EXCEPT !.patch.entry[p] = c]
  BY DEF both
<1> HIDE DEF roster
<1>10. /\ grown \in [Bucket -> (SUBSET Person) \cup {Absent}]
       /\ \A x \in Bucket : grown[x] = IF x = b THEN roster[x] \cup {p} ELSE roster[x]
  BY <1>6, <1>7
<1> HIDE DEF grown
<1>11. ShiftEdited(doc, t, grown)
  <2>1. roster[b] \cup {p} \in SUBSET Person /\ roster[b] \cup {p} # {}
    BY <1>6, <1>7
  <2>2. roster[b] \cup {p} # Absent
    BY <2>1, DocumentAssumption
  <2> QED BY <1>7, <1>10, <2>1, <2>2 DEF ShiftEdited, roster
<1>12. /\ EditOK(one(t, b, p))
       /\ TeamEdit(one(t, b, p), "add_to_shift", t, RosterPatch(grown))
       /\ one(t, b, p).node = grown
  BY <1>1, <1>8, <1>10, RosterEditOK, RosterPatchIs, TeamEditIs DEF RosterEdit, EntryEdit
<1>13. ASSUME NEW c \in Contacts
       PROVE  /\ EditOK(both(t, b, p, c))
              /\ TeamEdit(both(t, b, p, c), "add_to_shift", t, RosterPatch(grown))
              /\ both(t, b, p, c).node = grown
  <2> DEFINE e == [RosterEdit("add_to_shift", t, grown) EXCEPT !.patch.entry[p] = c]
  <2>1. EditOK(e)
    BY <1>1, <1>10, HiredOK
  <2>2. TeamEdit(e, "add_to_shift", t, RosterPatch(grown)) /\ e.node = grown
    BY <1>1, <1>10, HiredTeamEdit
  <2>3. both(t, b, p, c) = e
    BY <1>8, <1>9
  <2> HIDE DEF e
  <2> QED BY <2>1, <2>2, <2>3
<1>14. PICK r \in [Bucket -> (SUBSET Person) \cup {Absent}] : r = grown
  BY <1>10
<1>15. EditOK(edit) /\ TeamEdit(edit, "add_to_shift", t, RosterPatch(r)) /\ edit.node = r
  BY <1>5, <1>12, <1>13, <1>14
<1> QED BY <1>11, <1>14, <1>15

LEMMA RemoveOK ==
  ASSUME NEW doc, IsDocument(doc), NEW edit \in remove_from_shift(doc)
  PROVE  /\ EditOK(edit)
         /\ \E t \in roles(doc) : \E roster \in [Bucket -> (SUBSET Person) \cup {Absent}] :
              /\ TeamEdit(edit, "remove_from_shift", t, RosterPatch(roster))
              /\ edit.node = roster /\ ShiftEdited(doc, t, roster)
<1> DEFINE at(t, b, p) == [Roster(doc, t) EXCEPT ![b] = @ \ {p}]
           one(t, b, p) == RosterEdit("remove_from_shift", t, at(t, b, p))
           edits_at(t, b) == {one(t, b, p) :
                                p \in {x \in Roster(doc, t)[b] :
                                         at(t, b, x)[b] # {} \/ t \notin Targeted(doc)}}
           edits_of(t) == UNION {edits_at(t, b) : b \in Buckets(Roster(doc, t))}
<1>1. roles(doc) \subseteq Team
  BY DEF roles
<1>2. remove_from_shift(doc) = UNION {edits_of(t) : t \in roles(doc)}
  BY DEF remove_from_shift
<1> HIDE DEF edits_of
<1>3. PICK t \in roles(doc) : edit \in edits_of(t)
  BY <1>2
<1> HIDE DEF edits_at
<1>4. PICK b \in Buckets(Roster(doc, t)) : edit \in edits_at(t, b)
  BY <1>3 DEF edits_of
<1> HIDE DEF one
<1>5. PICK p : edit = one(t, b, p) /\ (at(t, b, p)[b] # {} \/ t \notin Targeted(doc))
  <2> HIDE DEF at
  <2> QED BY <1>4 DEF edits_at
<1> DEFINE roster == Roster(doc, t)
           left   == [roster EXCEPT ![b] = @ \ {p}]
<1>6. roster \in [Bucket -> (SUBSET Person) \cup {Absent}]
  BY RosterIn
<1>7. b \in Bucket /\ roster[b] # Absent
  BY DEF Buckets
<1>8. /\ one(t, b, p) = RosterEdit("remove_from_shift", t, left)
      /\ left[b] # {} \/ t \notin Targeted(doc)
  BY <1>5 DEF one
<1> HIDE DEF roster
<1>9. /\ left \in [Bucket -> (SUBSET Person) \cup {Absent}]
      /\ \A x \in Bucket : left[x] = IF x = b THEN roster[x] \ {p} ELSE roster[x]
  BY <1>6, <1>7
<1> HIDE DEF left
<1>10. ShiftEdited(doc, t, left)
  <2>1. left[b] \in SUBSET Person
    BY <1>6, <1>7, <1>9
  <2>2. left[b] # Absent
    BY <2>1, DocumentAssumption
  <2> QED BY <1>7, <1>8, <1>9, <2>2 DEF ShiftEdited, roster
<1>11. /\ EditOK(one(t, b, p))
       /\ TeamEdit(one(t, b, p), "remove_from_shift", t, RosterPatch(left))
       /\ one(t, b, p).node = left
  BY <1>1, <1>8, <1>9, RosterEditOK, RosterPatchIs, TeamEditIs DEF RosterEdit, EntryEdit
<1> QED BY <1>5, <1>9, <1>10, <1>11

LEMMA PatchScopeOK ==
  ASSUME NEW doc, IsDocument(doc), NEW edit \in patch_scope(doc)
  PROVE  EditOK(edit) /\ edit.op = "patch_scope"
<1> DEFINE entries == people(doc) \cup roles(doc)
           gone(e) == EntryEdit("patch_scope", e, Null, Absent)
           fewer(e) == {KeyEdit(e, f, Null) : f \in Fields(e)}
           emptied(t) == {KeyEdit(t, b, {}) : b \in Bucket}
           alone(e) == [e EXCEPT !.patch.default_owner = Null]
           nobody == Edit("patch_scope", "routing", [NoPatch EXCEPT !.default_owner = Null])
           fed(old) == [old EXCEPT !.op = "patch_scope"]
           empty == UNION {emptied(t) : t \in roles(doc)}
           Meant(e) == EditOK(e) /\ e.op = "patch_scope"
<1>1. entries \subseteq Entry /\ roles(doc) \subseteq Team
  BY DEF Entry, people, roles
<1>2. ASSUME NEW e \in entries PROVE Meant(gone(e))
  <2>1. Says(e, Null, Absent)
    BY DEF Says
  <2>2. EditOK(gone(e))
    BY <1>1, <2>1, EntryEditOK
  <2>3. gone(e).op = "patch_scope"
    BY DEF EntryEdit
  <2> QED BY <2>2, <2>3
<1>3. ASSUME NEW e \in Entry, NEW key \in Fields(e), NEW value \in Value(e) \cup {Null},
             value # Absent
      PROVE  Meant(KeyEdit(e, key, value)) /\ Meant(alone(KeyEdit(e, key, value)))
  <2>1. PICK patch, node \in [Fields(e) -> Value(e) \cup {Absent, Null}] :
          KeyEdit(e, key, value) = EntryEdit("patch_scope", e, patch, node) /\ Says(e, patch, node)
    BY <1>3, KeyIs
  <2> DEFINE one == EntryEdit("patch_scope", e, patch, node)
  <2>2. EditOK(one)
    BY <2>1, EntryEditOK
  <2>3. one.op = "patch_scope"
    BY DEF EntryEdit
  <2>4. Meant(alone(one))
    BY <2>1, DroppedToo
  <2> HIDE DEF one, alone
  <2>5. KeyEdit(e, key, value) = one
    BY <2>1 DEF one
  <2> QED BY <2>2, <2>3, <2>4, <2>5
<1>4. Absent # Null /\ {} # Absent
  BY DocumentAssumption
<1>5. ASSUME NEW e \in entries, NEW f \in Fields(e) PROVE Meant(KeyEdit(e, f, Null))
  BY <1>1, <1>3, <1>4
<1>6. ASSUME NEW t \in roles(doc), NEW b \in Bucket
      PROVE  Meant(KeyEdit(t, b, {})) /\ Meant(alone(KeyEdit(t, b, {})))
  <2>1. t \in Entry /\ b \in Fields(t) /\ {} \in Value(t)
    BY <1>1, TeamIs
  <2> HIDE DEF Meant, alone
  <2> QED BY <2>1, <1>3, <1>4
<1>7. Meant(nobody)
  <2>1. nobody.op = "patch_scope"
    BY DEF Edit
  <2> QED BY <2>1, BackstopEditOK
<1>8. ASSUME NEW old \in set_feed PROVE Meant(fed(old))
  <2>1. PICK s \in Setting : old = Edit("set_feed", "source", [NoPatch EXCEPT !.source = s])
    BY <1>8 DEF set_feed
  <2>2. fed(old) = Edit("patch_scope", "source", [NoPatch EXCEPT !.source = s])
    BY <2>1 DEF Edit
  <2>3. Edit("patch_scope", "source", [NoPatch EXCEPT !.source = s]).op = "patch_scope"
    BY DEF Edit
  <2> QED BY <2>2, <2>3, FeedEditOK
<1>9. patch_scope(doc) = ({gone(e) : e \in entries} \cup (UNION {fewer(e) : e \in entries}))
                           \cup empty
                           \cup {alone(e) : e \in empty}
                           \cup {nobody}
                           \cup {fed(old) : old \in set_feed}
  BY DEF patch_scope
<1> HIDE DEF gone, alone, nobody, fed, entries, Meant
<1>10. \/ \E e \in entries : edit = gone(e)
       \/ \E e \in entries : edit \in fewer(e)
       \/ edit \in empty
       \/ \E e \in empty : edit = alone(e)
       \/ edit = nobody
       \/ \E old \in set_feed : edit = fed(old)
  <2> HIDE DEF fewer, empty
  <2> QED BY <1>9
<1>11. \A e \in entries : \A x \in fewer(e) : Meant(x)
  BY <1>5
<1>12. \A e \in empty : Meant(e) /\ Meant(alone(e))
  BY <1>6
<1>13. Meant(edit)
  <2> HIDE DEF fewer, empty
  <2> QED BY <1>2, <1>7, <1>8, <1>10, <1>11, <1>12
<1> QED BY <1>13 DEF Meant

\* Every edit that an endpoint decides on.
LEMMA EditsOK ==
  ASSUME NEW doc, IsDocument(doc), NEW edit \in Edits(doc)
  PROVE  EditOK(edit)
<1>1. people(doc) \subseteq Person /\ roles(doc) \subseteq Team
  BY DEF people, roles
<1>2. ASSUME NEW p \in Person, NEW c \in Contacts
      PROVE  c \in [Fields(p) -> Value(p) \cup {Absent, Null}] /\ p \in Entry
  BY ContactsIn, PersonIs
<1>3. CASE edit \in create_person(doc)
  <2>1. PICK p \in Person, c \in Contacts : edit = EntryEdit("create_person", p, c, c)
    BY <1>3 DEF create_person
  <2> QED BY <1>2, <2>1, EntryEditOK DEF Creates
<1>4. CASE edit \in update_person(doc)
  <2>1. PICK p \in people(doc), c \in Contacts :
          edit = EntryEdit("update_person", p, c,
                           [ch \in Channel |-> IF c[ch] = Absent THEN Null ELSE c[ch]])
    BY <1>4 DEF update_person
  <2> DEFINE node == [ch \in Channel |-> IF c[ch] = Absent THEN Null ELSE c[ch]]
  <2>2. p \in Person /\ Fields(p) = Channel /\ p \in Entry
    BY <1>1, PersonIs
  <2>3. c \in [Fields(p) -> Value(p) \cup {Absent, Null}]
    BY <1>2, <2>2
  <2>4. node \in [Fields(p) -> Value(p) \cup {Absent, Null}]
    BY <2>2, <2>3
  <2>5. IsObject(c) /\ IsObject(node)
    BY <2>2, <2>3, <2>4, Objects
  <2>6. Says(p, c, node)
    BY <2>2, <2>5, DocumentAssumption DEF Says, IsObject
  <2> QED BY <2>1, <2>2, <2>3, <2>6, EntryEditOK
<1>5. CASE edit \in delete_person(doc)
  <2>1. PICK p \in Person : edit = EntryEdit("delete_person", p, Null, Absent)
    BY <1>1, <1>5 DEF delete_person
  <2>2. Says(p, Null, Absent)
    BY DEF Says
  <2> QED BY <2>1, <2>2, PersonIs, EntryEditOK
<1>6. CASE edit \in create_team(doc)
  <2>1. PICK t \in Team, r \in Normalised(doc) : edit = EntryEdit("create_team", t, r, r)
    BY <1>6 DEF create_team
  <2>2. r \in [Fields(t) -> Value(t) \cup {Absent, Null}] /\ t \in Entry
    BY NormalisedIn, TeamIs
  <2> QED BY <2>1, <2>2, EntryEditOK DEF Creates
<1>7. CASE edit \in delete_team(doc)
  <2>1. PICK t \in Team : edit = EntryEdit("delete_team", t, Null, Absent)
    BY <1>1, <1>7 DEF delete_team
  <2>2. Says(t, Null, Absent)
    BY DEF Says
  <2> QED BY <2>1, <2>2, TeamIs, EntryEditOK
<1>8. CASE edit \in set_roster(doc)
  <2>1. PICK t \in roles(doc), r \in Normalised(doc) : edit = RosterEdit("set_roster", t, r)
    BY <1>8 DEF set_roster
  <2> QED BY <1>1, <2>1, NormalisedIn, RosterEditOK
<1>9. CASE edit \in add_to_shift(doc)
  BY <1>9, AddOK
<1>10. CASE edit \in remove_from_shift(doc)
  BY <1>10, RemoveOK
<1>11. CASE edit \in set_backstop(doc)
  <2>1. PICK p \in Person : edit = Edit("set_backstop", "routing",
                                        [NoPatch EXCEPT !.default_owner = p])
    BY <1>1, <1>11 DEF set_backstop
  <2> QED BY <2>1, BackstopEditOK
<1>12. CASE edit \in update_reason(doc) \cup create_reason(doc) \cup delete_reason(doc)
  BY <1>12, ReasonsOK, CodesEditOK
<1>13. CASE edit \in set_plan(doc)
  <2>1. PICK ts \in SUBSET Team : edit = Edit("set_plan", "escalation",
                                              [NoPatch EXCEPT !.plan = ts])
    BY <1>1, <1>13 DEF set_plan
  <2>2. Settled([NoPatch EXCEPT !.plan = ts])
    BY KeyPatches, DocumentAssumption
  <2>3. Within("escalation", [NoPatch EXCEPT !.plan = ts])
    BY DEF Within, NoPatch
  <2> QED BY <2>1, <2>2, <2>3, KeyEditOK DEF Scope
<1>15. CASE edit \in set_feed
  <2>1. PICK s \in Setting : edit = Edit("set_feed", "source", [NoPatch EXCEPT !.source = s])
    BY <1>15 DEF set_feed
  <2> QED BY <2>1, FeedEditOK
<1>16. CASE edit \in patch_scope(doc)
  BY <1>16, PatchScopeOK
<1>17. CASE edit \in delete_scope
  <2>1. PICK s \in Scope : edit = Edit("delete_scope", s, NoPatch)
    BY <1>17 DEF delete_scope
  <2>2. Within(s, NoPatch)
    BY DEF Within, NoPatch
  <2> QED BY <2>1, <2>2, NoPatchSettled, KeyEditOK
<1> QED BY <1>3, <1>4, <1>5, <1>6, <1>7, <1>8, <1>9, <1>10, <1>11, <1>12, <1>13, <1>15,
           <1>16, <1>17 DEF Edits

\* What an edit says is what is installed: a null removes, whatever the files say, and a
\* value replaces what was there (merge_patch after compose_patch).
LEMMA EditShown ==
  ASSUME NEW rows, Settled(rows), NEW edit, EditOK(edit), NEW source,
         edit.entry # Absent, edit.op \notin Creates
  PROVE  Shown(Installed(compose_patch(rows, edit.patch), source).entry[edit.entry], edit.node)
<1> DEFINE e == edit.entry
           patch == edit.patch.entry[e]
           both == compose_patch(rows, edit.patch)
           doc == Installed(both, source)
<1>1. e \in Entry /\ Says(e, patch, edit.node)
  BY DEF EditOK
<1>2. patch \in {Absent, Null} \cup [Fields(e) -> Value(e) \cup {Absent, Null}]
  BY <1>1, SettledIs DEF EditOK
<1>3. both.entry[e] = ComposeNode(e, rows.entry[e], patch)
  BY <1>1, ComposedIs
<1>4. doc.entry[e] = MergeNode(e, Base.entry[e], both.entry[e])
  BY <1>1, InstalledIs
<1> HIDE DEF e, both, doc
<1>5. CASE patch = Null /\ edit.node = Absent
  <2>1. both.entry[e] = Null
    BY <1>3, <1>5, DocumentAssumption DEF ComposeNode, ComposeLeaf, IsObject
  <2>2. doc.entry[e] = Absent
    BY <1>4, <2>1, DocumentAssumption DEF MergeNode, MergeLeaf, IsObject
  <2>3. Shown(doc.entry[e], edit.node)
    BY <1>5, <2>2 DEF Shown
  <2> QED BY <2>3 DEF doc, both, e
<1>6. ASSUME IsObject(patch), edit.node # Absent,
             \A f \in DOMAIN edit.node :
               /\ f \in Fields(e)
               /\ \/ edit.node[f] = Null
                  \/ patch[f] = IF edit.node[f] = Absent THEN Null ELSE edit.node[f]
      PROVE  Shown(doc.entry[e], edit.node)
  <2> DEFINE F == [Fields(e) -> Value(e) \cup {Absent, Null}]
  <2>1. patch \in F
    BY <1>2, <1>6 DEF IsObject
  <2>2. Object(e, rows.entry[e]) \in F
    BY <1>1, NodesOf, SettledIs
  <2>3. both.entry[e] = [f \in Fields(e) |-> ComposeLeaf(Object(e, rows.entry[e])[f], patch[f])]
    BY <1>3, <1>6 DEF ComposeNode
  <2>4. both.entry[e] \in F
    BY <2>1, <2>2, <2>3 DEF ComposeLeaf
  <2>5. IsObject(both.entry[e])
    BY <1>1, <2>4, Objects
  <2>6. Object(e, Base.entry[e]) \in F
    <3>1. Base.entry[e] \in {Absent} \cup [Fields(e) -> Value(e) \cup {Absent}]
      BY <1>1, DocumentAssumption DEF IsDocument, Shaped
    <3> QED BY <3>1 DEF Object, IsObject
  <2>7. doc.entry[e] = [f \in Fields(e) |->
                          MergeLeaf(Object(e, Base.entry[e])[f], both.entry[e][f])]
    BY <1>4, <2>5 DEF MergeNode
  <2>8. doc.entry[e] \in F
    BY <2>4, <2>6, <2>7 DEF MergeLeaf
  <2>9. doc.entry[e] # Absent
    BY <1>1, <2>8, Objects DEF IsObject
  <2>10. ASSUME NEW f \in DOMAIN edit.node, edit.node[f] # Null
         PROVE  doc.entry[e][f] = edit.node[f]
    <3>1. f \in Fields(e) /\ patch[f] = IF edit.node[f] = Absent THEN Null ELSE edit.node[f]
      BY <1>6, <2>10
    <3>2. patch[f] # Absent
      BY <3>1, DocumentAssumption
    <3>3. both.entry[e][f] = patch[f]
      BY <2>3, <3>1, <3>2 DEF ComposeLeaf
    <3>4. doc.entry[e][f] = MergeLeaf(Object(e, Base.entry[e])[f], patch[f])
      BY <2>7, <3>1, <3>3
    <3> QED BY <2>10, <3>1, <3>2, <3>4 DEF MergeLeaf
  <2> QED BY <1>6, <2>9, <2>10 DEF Shown
<1>7. Shown(doc.entry[e], edit.node)
  BY <1>1, <1>5, <1>6 DEF Says, doc, both, e
<1> QED BY <1>7 DEF doc, both, e

-----------------------------------------------------------------------------
(* Types, and what an edit that is answered with "ok" has done. *)

Tables ==
  /\ Settled(stored) /\ IsDocument(live)
  /\ up \in BOOLEAN /\ raced \in BOOLEAN /\ edits \in 0 .. MaxEdits

\* A thread holds an edit that some configuration allowed, and its snapshot is some
\* rows, not always those of now, with the edit composed onto them.
ThreadOK(t) ==
  /\ t.pc \in {"idle", "asked", "checked", "stored"}
  /\ Settled(t.overrides)
  /\ t.pc # "idle" => EditOK(t.edit)
  /\ t.pc \in {"checked", "stored"} /\ t.edit.op # "delete_scope" =>
       \E rows : Settled(rows) /\ t.overrides = compose_patch(rows, t.edit.patch)

TInv == /\ Threads /\ Tables
        /\ \A r \in Request : ThreadOK(req[r])

LEMMA IdleOK == ThreadOK(Idle)
  BY NoPatchSettled DEF ThreadOK, Idle

LEMMA TStart == Init => TInv
<1> SUFFICES ASSUME Init PROVE TInv
  OBVIOUS
<1>1. Threads
  BY DEF Init, Threads, Idle
<1>2. Tables
  <2>1. Settled(stored) /\ IsDocument(live)
    BY NoPatchSettled, DocumentAssumption DEF Init
  <2>2. up \in BOOLEAN /\ raced \in BOOLEAN
    BY DEF Init
  <2>3. edits \in 0 .. MaxEdits
    BY StoreAssumption DEF Init
  <2> QED BY <2>1, <2>2, <2>3 DEF Tables
<1>3. \A r \in Request : ThreadOK(req[r])
  BY IdleOK DEF Init
<1> QED BY <1>1, <1>2, <1>3 DEF TInv

\* What the other threads hold stays, and the one that moves holds what is said of it.
LEMMA OneMoves ==
  ASSUME Threads, \A q \in Request : ThreadOK(req[q]),
         NEW r \in Request, NEW pc, NEW edit, NEW overrides,
         req' = [req EXCEPT ![r] = [pc |-> pc, edit |-> edit, overrides |-> overrides]],
         ThreadOK([pc |-> pc, edit |-> edit, overrides |-> overrides])
  PROVE  Threads' /\ \A q \in Request : ThreadOK(req'[q])
<1> DEFINE t == [pc |-> pc, edit |-> edit, overrides |-> overrides]
<1>1. \A q \in Request : req'[q] = IF q = r THEN t ELSE req[q]
  BY DEF Threads
<1>2. \A q \in Request : ThreadOK(req'[q])
  <2> HIDE DEF t
  <2>1. ThreadOK(t)
    BY DEF t
  <2>2. ASSUME NEW q \in Request PROVE ThreadOK(req'[q])
    <3>1. CASE q = r
      <4>1. req'[q] = t
        BY <1>1, <3>1
      <4> QED BY <2>1, <4>1
    <3>2. CASE q # r
      <4>1. req'[q] = req[q]
        BY <1>1, <3>2
      <4> QED BY <4>1
    <3> QED BY <3>1, <3>2
  <2> QED BY <2>2
<1>3. Threads'
  <2>1. \A q \in Request : req'[q] = [pc |-> req'[q].pc, edit |-> req'[q].edit,
                                      overrides |-> req'[q].overrides]
    BY <1>1 DEF Threads
  <2>2. req' = [q \in Request |-> req'[q]]
    BY DEF Threads
  <2> QED BY <2>1, <2>2 DEF Threads
<1> QED BY <1>2, <1>3

\* What Propose would keep.
LEMMA ProposedSettled ==
  ASSUME Tables, NEW edit, EditOK(edit)
  PROVE  Settled(Proposed(edit))
  BY NoPatchSettled, WithRowSettled, ComposeSettled DEF Proposed, Tables, EditOK

LEMMA TSteps == TInv /\ [Next]_vars => TInv'
<1> SUFFICES ASSUME TInv, [Next]_vars PROVE TInv'
  OBVIOUS
<1> USE DEF TInv
<1> DEFINE Moved(r, pc, edit, overrides) ==
      [req EXCEPT ![r] = [pc |-> pc, edit |-> edit, overrides |-> overrides]]
           none == Edit("none", "none", NoPatch)
<1>1. ThreadOK([pc |-> "idle", edit |-> none, overrides |-> NoPatch])
  BY IdleOK DEF Idle
<1>2. CASE Restart
  <2>1. Threads' /\ \A q \in Request : ThreadOK(req'[q])
    <3>1. \A q \in Request : req'[q] = Idle
      BY <1>2 DEF Restart
    <3>2. req' = [q \in Request |-> req'[q]]
      BY <1>2 DEF Restart
    <3>3. Threads'
      BY <3>1, <3>2 DEF Threads, Idle
    <3> QED BY <3>1, <3>3, IdleOK
  <2>2. Base.source \in Setting
    BY DocumentAssumption DEF IsDocument
  <2>3. IsDocument(live')
    <3>1. IsDocument(Installed(stored, Base.source))
      BY <2>2, InstalledDocument DEF Tables
    <3> QED BY <1>2, <3>1, DocumentAssumption DEF Restart
  <2>4. up' \in BOOLEAN
    BY <1>2 DEF Restart, validate
  <2>5. Tables'
    BY <1>2, <2>3, <2>4 DEF Restart, Tables
  <2> QED BY <2>1, <2>5
<1>3. ASSUME NEW r \in Request, Ask(r) PROVE TInv'
  <2>1. PICK e \in Edits(live) : req' = Moved(r, "asked", e, NoPatch)
    BY <1>3 DEF Ask, Idle
  <2>2. EditOK(e)
    BY EditsOK DEF Tables
  <2>3. ThreadOK([pc |-> "asked", edit |-> e, overrides |-> NoPatch])
    BY <2>2, NoPatchSettled DEF ThreadOK
  <2>4. Threads' /\ \A q \in Request : ThreadOK(req'[q])
    BY <2>1, <2>3, OneMoves
  <2>5. Tables'
    BY <1>3, StoreAssumption DEF Ask, Tables
  <2> QED BY <2>4, <2>5
<1>4. ASSUME NEW r \in Request, Propose(r) PROVE TInv'
  <2> DEFINE edit == req[r].edit
             rows == Proposed(edit)
  <2>1. ThreadOK(req[r]) /\ req[r].pc = "asked"
    BY <1>4 DEF Propose
  <2>2. EditOK(edit)
    BY <2>1 DEF ThreadOK
  <2>3. Settled(rows)
    BY <2>2, ProposedSettled
  <2>4. edit.op # "delete_scope" => rows = compose_patch(stored, edit.patch)
    BY DEF Proposed
  <2>5. \/ req' = Moved(r, "idle", none, NoPatch)
        \/ req' = Moved(r, "checked", edit, rows)
    BY <1>4, ProposeMoves
  <2> HIDE DEF rows, edit
  <2>6. ThreadOK([pc |-> "checked", edit |-> edit, overrides |-> rows])
    BY <2>2, <2>3, <2>4 DEF ThreadOK, Tables
  <2>7. Threads' /\ \A q \in Request : ThreadOK(req'[q])
    BY <1>1, <2>5, <2>6, OneMoves
  <2>8. Tables'
    BY <1>4 DEF Propose, Tables
  <2> QED BY <2>7, <2>8
<1>5. ASSUME NEW r \in Request, Store(r) PROVE TInv'
  <2>1. ThreadOK(req[r]) /\ req[r].pc = "checked"
    BY <1>5 DEF Store
  <2>2. \/ req' = Moved(r, "idle", none, NoPatch)
        \/ req' = Moved(r, "stored", req[r].edit, req[r].overrides)
    BY <1>5, StoreMoves
  <2>3. ThreadOK([pc |-> "stored", edit |-> req[r].edit, overrides |-> req[r].overrides])
    BY <2>1 DEF ThreadOK
  <2>4. Threads' /\ \A q \in Request : ThreadOK(req'[q])
    BY <1>1, <2>2, <2>3, OneMoves
  <2>5. req[r].edit.scope \in Scope
    BY <2>1 DEF ThreadOK, EditOK
  <2>6. Settled(stored')
    BY <1>5, <2>1, <2>5, WithRowSettled DEF Store, Tables, Row, ThreadOK
  <2>7. Tables'
    BY <1>5, <2>6 DEF Store, Tables
  <2> QED BY <2>4, <2>7
<1>6. ASSUME NEW r \in Request, Reload(r) PROVE TInv'
  <2>1. req' = Moved(r, "idle", none, NoPatch)
    BY <1>6 DEF Reload, Idle
  <2>2. Threads' /\ \A q \in Request : ThreadOK(req'[q])
    BY <1>1, <2>1, OneMoves
  <2>3. IsDocument(live')
    <3>1. Settled(req[r].overrides) /\ live.source \in Setting
      BY DEF ThreadOK, Tables, IsDocument
    <3> QED BY <1>6, <3>1, InstalledDocument DEF Reload
  <2>4. Tables'
    BY <1>6, <2>3 DEF Reload, Tables
  <2> QED BY <2>2, <2>4
<1>7. CASE UNCHANGED vars
  BY <1>7 DEF vars, Tables, Threads
<1> QED BY <1>2, <1>3, <1>4, <1>5, <1>6, <1>7 DEF Next

\* The invariant about what the threads hold: edits that are meant, and rows that were.
THEOREM StoreTInv == Spec => []TInv
  BY TStart, TSteps, PTL DEF Spec

\* The rows and the snapshots are patches, the live configuration is a document, in which
\* no null is left.
THEOREM StoreTyped == Spec => []TypeOK
<1>1. TInv => TypeOK
  BY DEF TInv, Tables, ThreadOK, TypeOK, Settled
<1> QED BY <1>1, StoreTInv, PTL

\* What was answered with "ok" is what the process works with, however edits overlap.
THEOREM AcceptedEditsTakeEffect == Spec => EditsTakeEffect
<1> DEFINE Effect == \A r \in Request : LET edit == req[r].edit IN
             Reload(r) /\ edit.entry # Absent /\ edit.op \notin Creates
               => Shown(live'.entry[edit.entry], edit.node)
<1>1. TInv /\ [Next]_vars => [Effect]_vars
  <2>1. ASSUME TInv, NEW r \in Request, Reload(r), req[r].edit.entry # Absent,
               req[r].edit.op \notin Creates
        PROVE  Shown(live'.entry[req[r].edit.entry], req[r].edit.node)
    <3> DEFINE t == req[r]
    <3>1. ThreadOK(t) /\ t.pc = "stored" /\ live' = Installed(t.overrides, live.source)
      BY <2>1 DEF TInv, Reload
    <3>2. EditOK(t.edit)
      BY <3>1 DEF ThreadOK
    <3>3. t.edit.op # "delete_scope"
      BY <2>1, <3>2 DEF EditOK
    <3> QED BY <2>1, <3>1, <3>2, <3>3, EditShown DEF ThreadOK
  <2> QED BY <2>1
<1> QED BY <1>1, StoreTInv, PTL DEF Spec, EditsTakeEffect

-----------------------------------------------------------------------------
(* Edits that are made one after the other. *)

\* As long as no two edits have overlapped, a thread that is at work is the only one; its
\* edit is one that the live configuration allows; its snapshot is the table with the
\* edit composed onto it, and then the table itself.  Between edits the live
\* configuration is what the table gives.
Busy(r) == req[r].pc # "idle"

BusyUp == \A r \in Request : Busy(r) => up

OneAtATime == ~raced => \A q, r \in Request : Busy(q) /\ Busy(r) => q = r

\* What an edit was composed onto is what was live, and still is.
Composed(edit, overrides) ==
  edit.op # "delete_scope" =>
    \E rows : /\ Settled(rows) /\ live = Installed(rows, live.source)
              /\ overrides = compose_patch(rows, edit.patch)

AloneOK(t) ==
  /\ t.edit \in Edits(live)
  /\ t.pc = "checked" => t.overrides = Proposed(t.edit)
  /\ t.pc = "stored" => t.overrides = stored /\ Composed(t.edit, t.overrides)

Alone == ~raced => \A r \in Request : Busy(r) => AloneOK(req[r])

LiveIsTable ==
  up /\ ~raced /\ (\A r \in Request : req[r].pc # "stored") => live = Installed(stored, live.source)

AInv == BusyUp /\ OneAtATime /\ Alone /\ LiveIsTable

\* The files without a patch are the files.
LEMMA BaseInstalled == Installed(NoPatch, Base.source) = Base
<1>1. Base = [entry |-> [e \in Entry |-> Base.entry[e]], default_owner |-> Base.default_owner,
              plan |-> Base.plan, codes |-> Base.codes, source |-> Base.source]
  BY DocumentAssumption DEF IsDocument, Shaped
<1>2. /\ \A e \in Entry : NoPatch.entry[e] = Absent
      /\ NoPatch.default_owner = Absent /\ NoPatch.plan = Absent /\ NoPatch.codes = Absent
  BY DEF NoPatch
<1>3. /\ \A e \in Entry : MergeNode(e, Base.entry[e], NoPatch.entry[e]) = Base.entry[e]
      /\ MergeLeaf(Base.default_owner, NoPatch.default_owner) = Base.default_owner
      /\ MergeLeaf(Base.plan, NoPatch.plan) = Base.plan
      /\ MergeLeaf(Base.codes, NoPatch.codes) = Base.codes
  BY <1>2 DEF MergeNode, MergeLeaf, IsObject
<1>4. Installed(NoPatch, Base.source) =
        [entry |-> [e \in Entry |-> MergeNode(e, Base.entry[e], NoPatch.entry[e])],
         default_owner |-> MergeLeaf(Base.default_owner, NoPatch.default_owner),
         plan   |-> MergeLeaf(Base.plan, NoPatch.plan),
         codes  |-> MergeLeaf(Base.codes, NoPatch.codes),
         source |-> Base.source]
  BY InstalledIs
<1>5. [e \in Entry |-> MergeNode(e, Base.entry[e], NoPatch.entry[e])] =
        [e \in Entry |-> Base.entry[e]]
  BY <1>3
<1> QED BY <1>1, <1>3, <1>4, <1>5

LEMMA InstalledSource ==
  ASSUME NEW rows, NEW source
  PROVE  Installed(rows, source).source = source
  BY InstalledIs

\* What an edit writes is all it has changed: put in its row, it is the snapshot.
LEMMA RowOfProposed ==
  ASSUME Settled(stored), NEW edit, EditOK(edit)
  PROVE  WithRow(stored, edit.scope, Proposed(edit)) = Proposed(edit)
<1> DEFINE scope == edit.scope
           patch == edit.patch
<1>0. scope \in Scope /\ Within(scope, patch) /\ Settled(patch)
  BY DEF EditOK
<1>1. CASE edit.op = "delete_scope"
  <2> DEFINE rows == WithRow(stored, scope, NoPatch)
  <2>1. Settled(rows)
    BY <1>0, NoPatchSettled, WithRowSettled
  <2>2. rows = [entry |-> IF scope = "routing" THEN NoPatch.entry ELSE stored.entry,
                default_owner |-> IF scope = "routing" THEN NoPatch.default_owner
                                                       ELSE stored.default_owner,
                plan   |-> IF scope = "escalation" THEN NoPatch.plan ELSE stored.plan,
                codes  |-> IF scope = "reasons" THEN NoPatch.codes ELSE stored.codes,
                source |-> IF scope = "source" THEN NoPatch.source ELSE stored.source]
    BY <1>0, WithRowIs
  <2>3. Proposed(edit) = rows
    BY <1>1 DEF Proposed
  <2> HIDE DEF rows
  <2>4. WithRow(stored, scope, rows) =
          [entry |-> IF scope = "routing" THEN rows.entry ELSE stored.entry,
           default_owner |-> IF scope = "routing" THEN rows.default_owner
                                                  ELSE stored.default_owner,
           plan   |-> IF scope = "escalation" THEN rows.plan ELSE stored.plan,
           codes  |-> IF scope = "reasons" THEN rows.codes ELSE stored.codes,
           source |-> IF scope = "source" THEN rows.source ELSE stored.source]
    BY <1>0, WithRowIs
  <2> QED BY <2>2, <2>3, <2>4
<1>2. CASE edit.op # "delete_scope"
  <2> DEFINE rows == compose_patch(stored, patch)
             en == [e \in Entry |-> ComposeNode(e, stored.entry[e], patch.entry[e])]
  <2>1. rows = [entry |-> en,
                default_owner |-> ComposeLeaf(stored.default_owner, patch.default_owner),
                plan   |-> ComposeLeaf(stored.plan, patch.plan),
                codes  |-> ComposeLeaf(stored.codes, patch.codes),
                source |-> ComposeLeaf(stored.source, patch.source)]
    BY ComposedIs
  <2>2. Proposed(edit) = rows
    BY <1>2 DEF Proposed
  <2>3. /\ scope # "routing" => en = stored.entry
        /\ scope # "routing" =>
             ComposeLeaf(stored.default_owner, patch.default_owner) = stored.default_owner
        /\ scope # "escalation" => ComposeLeaf(stored.plan, patch.plan) = stored.plan
        /\ scope # "reasons" => ComposeLeaf(stored.codes, patch.codes) = stored.codes
        /\ scope # "source" => ComposeLeaf(stored.source, patch.source) = stored.source
    <3>1. scope # "routing" => en = stored.entry
      <4>1. SUFFICES ASSUME scope # "routing" PROVE en = stored.entry
        OBVIOUS
      <4>2. \A e \in Entry : patch.entry[e] = Absent
        BY <1>0, <4>1 DEF Within
      <4>3. \A e \in Entry : ComposeNode(e, stored.entry[e], patch.entry[e]) = stored.entry[e]
        BY <4>2 DEF ComposeNode, ComposeLeaf, IsObject
      <4>4. stored.entry = [e \in Entry |-> stored.entry[e]]
        <5>1. stored = [entry |-> [e \in Entry |-> stored.entry[e]],
                        default_owner |-> stored.default_owner, plan |-> stored.plan,
                        codes |-> stored.codes, source |-> stored.source]
          BY SettledIs
        <5> QED BY <5>1
      <4> QED BY <4>3, <4>4
    <3> QED BY <1>0, <3>1 DEF Within, ComposeLeaf
  <2> HIDE DEF en
  <2>4. WithRow(stored, scope, rows) =
          [entry |-> IF scope = "routing" THEN rows.entry ELSE stored.entry,
           default_owner |-> IF scope = "routing" THEN rows.default_owner
                                                  ELSE stored.default_owner,
           plan   |-> IF scope = "escalation" THEN rows.plan ELSE stored.plan,
           codes  |-> IF scope = "reasons" THEN rows.codes ELSE stored.codes,
           source |-> IF scope = "source" THEN rows.source ELSE stored.source]
    BY <1>0, WithRowIs
  <2> HIDE DEF rows
  <2> QED BY <2>1, <2>2, <2>3, <2>4
<1> QED BY <1>1, <1>2

\* The row of the feed is not looked at by reload_into.
LEMMA FeedRowIgnored ==
  ASSUME Settled(stored), NEW row, NEW source
  PROVE  Installed(WithRow(stored, "source", row), source) = Installed(stored, source)
<1> DEFINE rows == WithRow(stored, "source", row)
<1>1. /\ rows.entry = stored.entry /\ rows.default_owner = stored.default_owner
      /\ rows.plan = stored.plan /\ rows.codes = stored.codes
  <2>1. "source" \in Scope
    BY DEF Scope
  <2>2. rows = [entry |-> stored.entry, default_owner |-> stored.default_owner,
                plan |-> stored.plan, codes |-> stored.codes, source |-> row.source]
    BY <2>1, WithRowIs
  <2> QED BY <2>2
<1> HIDE DEF rows
<1>2. Installed(rows, source) = Installed(stored, source)
  BY <1>1, InstalledIs
<1> QED BY <1>2 DEF rows

LEMMA AStart == Init => AInv
<1> SUFFICES ASSUME Init PROVE AInv
  OBVIOUS
<1>1. \A r \in Request : req[r].pc = "idle"
  BY DEF Init, Idle
<1>2. live = Installed(stored, live.source)
  BY BaseInstalled DEF Init
<1> QED BY <1>1, <1>2 DEF AInv, BusyUp, OneAtATime, Alone, LiveIsTable, Busy

LEMMA ASteps == TInv /\ AInv /\ [Next]_vars => AInv'
<1> SUFFICES ASSUME TInv, AInv, [Next]_vars PROVE AInv'
  OBVIOUS
<1> DEFINE Moved(r, pc, edit, overrides) ==
      [req EXCEPT ![r] = [pc |-> pc, edit |-> edit, overrides |-> overrides]]
           none == Edit("none", "none", NoPatch)
<1>0. Threads /\ Tables /\ \A r \in Request : ThreadOK(req[r])
  BY DEF TInv
\* A thread that moves while it is alone leaves the others idle.
<1>7. ASSUME NEW r \in Request, Busy(r), ~raced
      PROVE  \A q \in Request \ {r} : req[q].pc = "idle"
  BY <1>7 DEF AInv, OneAtATime, Busy
<1>1. CASE Restart
  <2>1. \A q \in Request : req'[q].pc = "idle"
    BY <1>1 DEF Restart, Idle
  <2>2. up' => live' = Installed(stored', live'.source)
    <3>1. up' => live' = Installed(stored, Base.source) /\ stored' = stored
      BY <1>1 DEF Restart
    <3> QED BY <3>1, InstalledSource
  <2> QED BY <2>1, <2>2 DEF AInv, BusyUp, OneAtATime, Alone, LiveIsTable, Busy
<1>2. ASSUME NEW r \in Request, Ask(r) PROVE AInv'
  <2>1. PICK e \in Edits(live) : req' = Moved(r, "asked", e, NoPatch)
    BY <1>2 DEF Ask, Idle
  <2>2. /\ req'[r] = [pc |-> "asked", edit |-> e, overrides |-> NoPatch]
        /\ \A q \in Request \ {r} : req'[q] = req[q]
    BY <2>1, <1>0 DEF Threads
  <2>3. up /\ UNCHANGED <<stored, live, up>> /\ req[r].pc = "idle"
    BY <1>2 DEF Ask
  <2>4. ~raced' => ~raced /\ \A q \in Request \ {r} : req[q].pc = "idle"
    BY <1>2 DEF Ask
  <2>5. BusyUp'
    BY <2>2, <2>3 DEF AInv, BusyUp, Busy
  <2>6. OneAtATime'
    BY <2>2, <2>4 DEF OneAtATime, Busy
  <2>7. Alone'
    BY <2>2, <2>3, <2>4 DEF Alone, AloneOK, Busy
  <2>8. LiveIsTable'
    <3>1. SUFFICES ASSUME ~raced' PROVE live' = Installed(stored', live'.source)
      BY DEF LiveIsTable
    <3>2. \A q \in Request : req[q].pc # "stored"
      BY <2>3, <2>4, <3>1
    <3>3. live = Installed(stored, live.source)
      BY <2>3, <2>4, <3>1, <3>2 DEF AInv, LiveIsTable
    <3> QED BY <2>3, <3>3
  <2> QED BY <2>5, <2>6, <2>7, <2>8 DEF AInv
<1>3. ASSUME NEW r \in Request, Propose(r) PROVE AInv'
  <2> DEFINE rows == Proposed(req[r].edit)
  <2>1. \/ req' = Moved(r, "idle", none, NoPatch)
        \/ req' = Moved(r, "checked", req[r].edit, rows)
    BY <1>0, <1>3, ProposeMoves
  <2>2. UNCHANGED <<stored, live, up, raced>> /\ req[r].pc = "asked"
    BY <1>3 DEF Propose
  <2> HIDE DEF rows, none
  <2>3. \A q \in Request \ {r} : req'[q] = req[q]
    BY <2>1, <1>0 DEF Threads
  <2>4. \/ req'[r].pc = "idle"
        \/ req'[r] = [pc |-> "checked", edit |-> req[r].edit, overrides |-> rows]
    BY <2>1, <1>0 DEF Threads
  <2>5. BusyUp' /\ OneAtATime'
    BY <2>2, <2>3, <2>4 DEF AInv, BusyUp, OneAtATime, Busy
  <2>6. Alone'
    <3>1. SUFFICES ASSUME ~raced, NEW q \in Request, Busy(q)' PROVE AloneOK(req[q])'
      BY <2>2 DEF Alone
    <3>2. q = r
      BY <1>7, <2>2, <2>3, <3>1 DEF Busy
    <3>3. req'[q] = [pc |-> "checked", edit |-> req[r].edit, overrides |-> rows]
      BY <2>4, <3>1, <3>2 DEF Busy
    <3>4. req[r].edit \in Edits(live)
      BY <2>2, <3>1 DEF AInv, Alone, AloneOK, Busy
    <3>5. PICK edit : edit = req[r].edit
      OBVIOUS
    <3>7. rows = Proposed(edit)
      BY <3>5 DEF rows
    <3>8. req'[q].edit = edit /\ req'[q].overrides = rows /\ req'[q].pc = "checked"
      BY <3>3, <3>5
    <3>9. (req[q].overrides = Proposed(req[q].edit))'
      BY <2>2, <3>7, <3>8 DEF Proposed
    <3> QED BY <2>2, <3>4, <3>5, <3>8, <3>9 DEF AloneOK
  <2>7. LiveIsTable'
    <3>1. \A q \in Request : req'[q].pc # "stored" => req[q].pc # "stored"
      BY <2>2, <2>3
    <3> QED BY <2>2, <3>1 DEF AInv, LiveIsTable
  <2> QED BY <2>5, <2>6, <2>7 DEF AInv
<1>4. ASSUME NEW r \in Request, Store(r) PROVE AInv'
  <2> DEFINE edit == req[r].edit
             rows == req[r].overrides
             answers == edit.op = "patch_scope" /\ edit.scope = "source"
  <2>1. req' = IF answers THEN Moved(r, "idle", none, NoPatch)
               ELSE Moved(r, "stored", edit, rows)
    BY <1>0, <1>4, StoreMoves
  <2>2. /\ UNCHANGED <<live, up, raced>> /\ req[r].pc = "checked"
        /\ stored' = WithRow(stored, edit.scope, rows)
    BY <1>4 DEF Store, Row
  <2> HIDE DEF none, answers
  <2>3. \A q \in Request \ {r} : req'[q] = req[q]
    BY <2>1, <1>0 DEF Threads
  <2>4. /\ answers => req'[r].pc = "idle"
        /\ ~answers => req'[r] = [pc |-> "stored", edit |-> edit, overrides |-> rows]
    BY <2>1, <1>0 DEF Threads
  <2>5. BusyUp' /\ OneAtATime'
    BY <2>2, <2>3, <2>4 DEF AInv, BusyUp, OneAtATime, Busy
  <2>6. EditOK(edit) /\ Settled(stored)
    BY <1>0, <2>2 DEF ThreadOK, Tables
  <2>7. ASSUME ~raced
        PROVE  /\ edit \in Edits(live) /\ rows = Proposed(edit)
               /\ live = Installed(stored, live.source)
               /\ stored' = rows
    <3>1. Busy(r)
      BY <2>2 DEF Busy
    <3>2. edit \in Edits(live) /\ rows = Proposed(edit)
      BY <2>2, <2>7, <3>1 DEF AInv, Alone, AloneOK
    <3>3. \A q \in Request : req[q].pc # "stored"
      BY <1>7, <2>2, <2>7, <3>1
    <3>4. live = Installed(stored, live.source)
      BY <2>7, <3>1, <3>3 DEF AInv, LiveIsTable, BusyUp
    <3>5. stored' = rows
      BY <2>2, <2>6, <3>2, RowOfProposed
    <3> QED BY <3>2, <3>4, <3>5
  <2>8. Alone'
    <3>1. SUFFICES ASSUME ~raced, NEW q \in Request, Busy(q)' PROVE AloneOK(req[q])'
      BY <2>2 DEF Alone
    <3>2. q = r
      BY <1>7, <2>2, <2>3, <3>1 DEF Busy
    <3>3. req'[q] = [pc |-> "stored", edit |-> edit, overrides |-> rows]
      BY <2>4, <3>1, <3>2, Zenon DEF Busy
    <3>4. req'[q].pc = "stored" /\ req'[q].edit = edit /\ req'[q].overrides = rows
      BY <3>3
    <3>5. live' = live
      BY <2>2
    <3>6. edit.op # "delete_scope" => rows = compose_patch(stored, edit.patch)
      BY <2>7, <3>1 DEF Proposed
    <3>7. PICK before : before = stored
      OBVIOUS
    <3>8. edit.op # "delete_scope" =>
            /\ Settled(before) /\ live' = Installed(before, live'.source)
            /\ rows = compose_patch(before, edit.patch)
      BY <2>6, <2>7, <3>1, <3>5, <3>6, <3>7
    <3>9. /\ edit \in Edits(live)' /\ rows = stored'
      BY <2>7, <3>1, <3>5
    <3> HIDE DEF edit, rows
    <3> QED BY <3>4, <3>8, <3>9 DEF AloneOK, Composed
  <2>9. LiveIsTable'
    <3>1. SUFFICES ASSUME ~raced, \A q \in Request : req'[q].pc # "stored"
                   PROVE  live' = Installed(stored', live'.source)
      BY <2>2 DEF LiveIsTable
    <3>2. answers
      BY <2>4, <3>1
    <3>3. stored' = WithRow(stored, "source", rows)
      BY <2>2, <3>2 DEF answers
    <3>4. Installed(stored', live.source) = Installed(stored, live.source)
      BY <2>6, <3>3, FeedRowIgnored
    <3> QED BY <2>2, <2>7, <3>1, <3>4
  <2> QED BY <2>5, <2>8, <2>9 DEF AInv
<1>5. ASSUME NEW r \in Request, Reload(r) PROVE AInv'
  <2>1. req' = Moved(r, "idle", none, NoPatch)
    BY <1>5 DEF Reload, Idle
  <2>2. /\ UNCHANGED <<stored, up, raced>> /\ req[r].pc = "stored"
        /\ live' = Installed(req[r].overrides, live.source)
    BY <1>5 DEF Reload
  <2> HIDE DEF none
  <2>3. req'[r].pc = "idle" /\ \A q \in Request \ {r} : req'[q] = req[q]
    BY <2>1, <1>0 DEF Threads
  <2>4. BusyUp' /\ OneAtATime'
    BY <2>2, <2>3 DEF AInv, BusyUp, OneAtATime, Busy
  <2>5. ~raced => \A q \in Request : req'[q].pc = "idle"
    BY <1>7, <2>2, <2>3 DEF Busy
  <2>6. Alone'
    BY <2>2, <2>5 DEF Alone, Busy
  <2>7. LiveIsTable'
    <3>1. SUFFICES ASSUME ~raced PROVE live' = Installed(stored', live'.source)
      BY <2>2 DEF LiveIsTable
    <3>2. req[r].overrides = stored
      BY <2>2, <3>1 DEF AInv, Alone, AloneOK, Busy
    <3>3. live' = Installed(stored, live.source)
      BY <2>2, <3>2
    <3> QED BY <2>2, <3>3, InstalledSource
  <2> QED BY <2>4, <2>6, <2>7 DEF AInv
<1>6. CASE UNCHANGED vars
  <2>1. UNCHANGED <<stored, live, up, req, raced>>
    BY <1>6 DEF vars
  <2>2. Alone'
    BY <2>1 DEF AInv, Alone, AloneOK, Composed, Proposed, Busy
  <2>3. BusyUp' /\ OneAtATime' /\ LiveIsTable'
    BY <2>1 DEF AInv, BusyUp, OneAtATime, LiveIsTable, Busy
  <2> QED BY <2>2, <2>3 DEF AInv
<1> QED BY <1>1, <1>2, <1>3, <1>4, <1>5, <1>6 DEF Next

\* The invariant about edits that do not overlap.
THEOREM StoreAInv == Spec => []AInv
<1>1. Init => TInv /\ AInv
  BY TStart, AStart
<1>2. (TInv /\ AInv) /\ [Next]_vars => (TInv /\ AInv)'
  BY TSteps, ASteps
<1> QED BY <1>1, <1>2, PTL DEF Spec

\* Edits made one after the other survive: a restart works with what was live.
THEOREM RestartsKeepLive == Spec => []RestartKeepsLive
<1>1. AInv => RestartKeepsLive
  BY DEF AInv, LiveIsTable, RestartKeepsLive
<1> QED BY <1>1, StoreAInv, PTL

-----------------------------------------------------------------------------
(* Who is on duty. *)

\* What a patch does not mention stays as it is.
LEMMA Untouched ==
  ASSUME NEW rows, NEW patch, NEW source
  PROVE  LET old == Installed(rows, source)
             new == Installed(compose_patch(rows, patch), source)
         IN  /\ \A e \in Entry : patch.entry[e] = Absent => new.entry[e] = old.entry[e]
             /\ patch.plan = Absent => new.plan = old.plan
             /\ patch.codes = Absent => new.codes = old.codes
             /\ IsObject(patch.codes) => new.codes = patch.codes
<1> DEFINE both == compose_patch(rows, patch)
           old == Installed(rows, source)
           new == Installed(both, source)
<1>1. /\ \A e \in Entry : both.entry[e] = ComposeNode(e, rows.entry[e], patch.entry[e])
      /\ both.plan = ComposeLeaf(rows.plan, patch.plan)
      /\ both.codes = ComposeLeaf(rows.codes, patch.codes)
  BY ComposedIs
<1> HIDE DEF both
<1>2. /\ \A e \in Entry : new.entry[e] = MergeNode(e, Base.entry[e], both.entry[e])
      /\ new.plan = MergeLeaf(Base.plan, both.plan)
      /\ new.codes = MergeLeaf(Base.codes, both.codes)
  BY InstalledIs
<1>3. /\ \A e \in Entry : old.entry[e] = MergeNode(e, Base.entry[e], rows.entry[e])
      /\ old.plan = MergeLeaf(Base.plan, rows.plan)
      /\ old.codes = MergeLeaf(Base.codes, rows.codes)
  BY InstalledIs
<1> HIDE DEF old, new
<1>4. ASSUME NEW e \in Entry, patch.entry[e] = Absent PROVE new.entry[e] = old.entry[e]
  <2>1. both.entry[e] = rows.entry[e]
    BY <1>1, <1>4 DEF ComposeNode, ComposeLeaf, IsObject
  <2> QED BY <1>2, <1>3, <2>1
<1>5. patch.plan = Absent => new.plan = old.plan
  BY <1>1, <1>2, <1>3 DEF ComposeLeaf
<1>6. patch.codes = Absent => new.codes = old.codes
  BY <1>1, <1>2, <1>3 DEF ComposeLeaf
<1>7. IsObject(patch.codes) => new.codes = patch.codes
  BY <1>1, <1>2 DEF ComposeLeaf, MergeLeaf, IsObject
<1> QED BY <1>4, <1>5, <1>6, <1>7 DEF old, new, both

\* A roster that an edit sets is the whole roster (_roster_patch).
LEMMA RosterInstalled ==
  ASSUME NEW rows, Settled(rows), NEW source, NEW edit, EditOK(edit), NEW t \in Team,
         edit.entry = t, edit.op \notin Creates,
         NEW roster \in [Bucket -> (SUBSET Person) \cup {Absent}], edit.node = roster
  PROVE  \A b \in Bucket :
           Installed(compose_patch(rows, edit.patch), source).entry[t][b] = roster[b]
<1>1. t # Absent
  BY DocumentAssumption
<1>2. Shown(Installed(compose_patch(rows, edit.patch), source).entry[t], roster)
  BY <1>1, EditShown
<1>3. roster # Absent /\ DOMAIN roster = Bucket
  BY TeamIs, DocumentAssumption
<1>4. \A b \in Bucket : roster[b] # Null
  BY DocumentAssumption
<1> QED BY <1>2, <1>3, <1>4 DEF Shown

LEMMA CoveredByStaff ==
  ASSUME NEW doc, IsDocument(doc), NEW t \in roles(doc), Staffed(Roster(doc, t))
  PROVE  Covered(doc, t)
<1> DEFINE at == doc.entry[t]
<1>1. /\ "all" \in Bucket /\ \A s \in Shift : s \in Bucket /\ s # "all"
  BY DocumentAssumption DEF Bucket
<1>2. \A b \in Bucket : Roster(doc, t)[b] = IF at["all"] # Absent
                                            THEN IF b = "all" THEN at[b] ELSE Absent
                                            ELSE IF b = "all" THEN Absent
                                                 ELSE IF at[b] = Absent THEN {} ELSE at[b]
  BY DEF Roster
<1>3. \A b \in Bucket : Roster(doc, t)[b] # {}
  BY DEF Staffed
<1> HIDE DEF at
<1>4. IF at["all"] # Absent THEN at["all"] # {} ELSE \A s \in Shift : at[s] \notin {Absent, {}}
  BY <1>1, <1>2, <1>3
<1> QED BY <1>4 DEF Covered, at

\* The panel shows a covered team as one with somebody on every shift it has.
LEMMA ShownCover ==
  ASSUME NEW doc, NEW t, Covered(doc, t)
  PROVE  LET old == Roster(doc, t) IN
         \/ old["all"] \notin {Absent, {}}
         \/ old["all"] = Absent /\ \A s \in Shift : old[s] \notin {Absent, {}}
<1> DEFINE at == doc.entry[t]
<1>1. /\ "all" \in Bucket /\ \A s \in Shift : s \in Bucket /\ s # "all"
  BY DocumentAssumption DEF Bucket
<1>2. \A b \in Bucket : Roster(doc, t)[b] = IF at["all"] # Absent
                                            THEN IF b = "all" THEN at[b] ELSE Absent
                                            ELSE IF b = "all" THEN Absent
                                                 ELSE IF at[b] = Absent THEN {} ELSE at[b]
  BY DEF Roster
<1>3. IF at["all"] # Absent THEN at["all"] # {} ELSE \A s \in Shift : at[s] \notin {Absent, {}}
  BY DEF Covered
<1> HIDE DEF at
<1>4. \/ Roster(doc, t)["all"] \notin {Absent, {}}
      \/ /\ Roster(doc, t)["all"] = Absent
         /\ \A s \in Shift : Roster(doc, t)[s] \notin {Absent, {}}
  BY <1>1, <1>2, <1>3
<1> QED BY <1>4

\* A roster as it is given, for the whole day or by shift, with nobody missing.
LEMMA StaffedCover ==
  ASSUME NEW doc, NEW new, NEW t, NEW roster \in Normalised(doc), Staffed(roster),
         \A b \in Bucket : new.entry[t][b] = roster[b]
  PROVE  Covered(new, t)
<1>1. /\ "all" \in Bucket /\ \A s \in Shift : s \in Bucket /\ s # "all"
  BY DocumentAssumption DEF Bucket
<1>2. \A b \in Bucket : roster[b] # {}
  BY DEF Staffed
<1>3. people(doc) \subseteq Person
  BY DEF people
<1>4. ASSUME NEW m \in SUBSET people(doc), roster = AllDay(m) PROVE Covered(new, t)
  <2>1. roster["all"] = m /\ m # Absent
    BY <1>1, <1>3, <1>4, DocumentAssumption DEF AllDay
  <2> QED BY <1>1, <1>2, <2>1 DEF Covered
<1>5. ASSUME NEW m \in [Shift -> SUBSET people(doc)], roster = ByShift(m) PROVE Covered(new, t)
  <2>1. roster["all"] = Absent /\ \A s \in Shift : roster[s] = m[s]
    BY <1>1, <1>5 DEF ByShift
  <2>2. \A s \in Shift : m[s] # Absent
    BY <1>3, DocumentAssumption
  <2> QED BY <1>1, <1>2, <2>1, <2>2 DEF Covered
<1> QED BY <1>4, <1>5 DEF Normalised

\* An edit of a shift of a team that is routed to takes nobody's last colleague away.
LEMMA ShiftCover ==
  ASSUME NEW doc, NEW new, NEW t, NEW roster,
         Covered(doc, t), t \in Targeted(doc), ShiftEdited(doc, t, roster),
         \A b \in Bucket : new.entry[t][b] = roster[b]
  PROVE  Covered(new, t)
<1> DEFINE old == Roster(doc, t)
           at == new.entry[t]
<1>1. /\ "all" \in Bucket /\ \A s \in Shift : s \in Bucket /\ s # "all"
  BY DocumentAssumption DEF Bucket
<1>2. \/ old["all"] \notin {Absent, {}}
      \/ old["all"] = Absent /\ \A s \in Shift : old[s] \notin {Absent, {}}
  BY ShownCover
<1>3. \A b \in Bucket : \/ roster[b] = old[b]
                        \/ old[b] # Absent /\ roster[b] # Absent /\ roster[b] # {}
  BY DEF ShiftEdited
<1> HIDE DEF old, at
<1>4. \A b \in Bucket : at[b] = roster[b]
  BY DEF at
<1>5. IF at["all"] # Absent THEN at["all"] # {} ELSE \A s \in Shift : at[s] \notin {Absent, {}}
  BY <1>1, <1>2, <1>3, <1>4
<1> QED BY <1>5 DEF Covered, at

\* One edit of the panel, on a configuration that passes validate.
LEMMA CoverKept ==
  ASSUME NEW rows, Settled(rows), NEW source, NEW doc, doc = Installed(rows, source),
         IsDocument(doc), validate(doc),
         NEW edit \in Edits(doc), edit.op \notin Unguarded,
         NEW new, new = Installed(compose_patch(rows, edit.patch), source),
         NEW t \in Targeted(new)
  PROVE  Covered(new, t) \/ (t \in Targeted(doc) /\ ~Covered(doc, t))
<1> DEFINE patch == edit.patch
           Goal == Covered(new, t) \/ (t \in Targeted(doc) /\ ~Covered(doc, t))
<1>1. Targeted(doc) \subseteq roles(doc) /\ roles(doc) \subseteq Team
  BY DEF validate, Targeted, roles
<1>2. EditOK(edit)
  BY EditsOK
<1>3. /\ \A e \in Entry : patch.entry[e] = Absent => new.entry[e] = doc.entry[e]
      /\ patch.plan = Absent => new.plan = doc.plan
      /\ patch.codes = Absent => new.codes = doc.codes
      /\ IsObject(patch.codes) => new.codes = patch.codes
  BY Untouched
<1>4. \A x \in Team : x \in Entry
  BY TeamIs
\* Who is routed to stays the same, and so does who is on duty, where nothing is said of it.
<1>5. patch.plan = Absent /\ patch.codes = Absent => t \in Targeted(doc)
  BY <1>3 DEF Targeted, Owners
<1>6. ASSUME t \in Targeted(doc), patch.entry[t] = Absent PROVE Goal
  <2>1. new.entry[t] = doc.entry[t]
    BY <1>1, <1>3, <1>4, <1>6
  <2> QED BY <1>6, <2>1 DEF Covered
<1> HIDE DEF patch
<1>7. ASSUME NEW op, NEW p \in Person, NEW c \in {Absent, Null} \cup [Channel -> Number \cup {Absent, Null}],
             NEW node, edit = EntryEdit(op, p, c, node)
      PROVE  Goal
  <2>1. patch = [entry |-> [x \in Entry |-> IF x = p THEN c ELSE Absent],
                 default_owner |-> Absent, plan |-> Absent, codes |-> Absent,
                 source |-> Absent]
    BY <1>7, EntryEditIs, PersonIs DEF patch
  <2>2. patch.plan = Absent /\ patch.codes = Absent
        /\ \A x \in Team : patch.entry[x] = Absent
    BY <1>4, <2>1, TeamIs
  <2> QED BY <1>1, <1>5, <1>6, <2>2
<1>8. ASSUME NEW op, NEW x \in Team, NEW node, TeamEdit(edit, op, x, node)
      PROVE  t \in Targeted(doc) /\ (t # x => Goal)
  BY <1>1, <1>5, <1>6, <1>8 DEF TeamEdit, patch
<1>9. CASE edit \in create_person(doc)
  <2>1. PICK p \in Person, c \in Contacts : edit = EntryEdit("create_person", p, c, c)
    BY <1>9 DEF create_person
  <2> QED BY <1>7, <2>1, ContactsIn
<1>10. CASE edit \in update_person(doc)
  <2> DEFINE node(c) == [ch \in Channel |-> IF c[ch] = Absent THEN Null ELSE c[ch]]
  <2>1. update_person(doc) = {EntryEdit("update_person", p, c, node(c)) :
                                p \in people(doc), c \in Contacts}
    BY DEF update_person
  <2> HIDE DEF node
  <2>2. PICK p \in people(doc), c \in Contacts :
          edit = EntryEdit("update_person", p, c, node(c))
    BY <1>10, <2>1
  <2> QED BY <1>7, <2>2, ContactsIn DEF people
<1>11. CASE edit \in delete_person(doc)
  <2>1. PICK p \in Person : edit = EntryEdit("delete_person", p, Null, Absent)
    BY <1>11 DEF delete_person, people
  <2> QED BY <1>7, <2>1
<1>12. CASE edit \in create_team(doc)
  <2>1. PICK x \in Team \ roles(doc), r \in Normalised(doc) :
          edit = EntryEdit("create_team", x, r, r)
    BY <1>12 DEF create_team
  <2>2. r \in [Fields(x) -> Value(x) \cup {Absent, Null}]
    BY NormalisedIn, TeamIs
  <2>3. TeamEdit(edit, "create_team", x, r)
    BY <2>1, <2>2, TeamEditIs
  <2> QED BY <1>1, <1>8, <2>1, <2>3
<1>13. CASE edit \in delete_team(doc)
  <2>1. PICK x \in Team \ Targeted(doc) : edit = EntryEdit("delete_team", x, Null, Absent)
    BY <1>1, <1>13 DEF delete_team
  <2>2. TeamEdit(edit, "delete_team", x, Null)
    BY <2>1, TeamEditIs
  <2> QED BY <1>8, <2>1, <2>2
<1>14. CASE edit \in set_roster(doc)
  <2>1. PICK x \in roles(doc), r \in Normalised(doc) :
          edit = RosterEdit("set_roster", x, r) /\ (Staffed(r) \/ x \notin Targeted(doc))
    BY <1>14 DEF set_roster
  <2>2. x \in Team /\ r \in [Bucket -> (SUBSET Person) \cup {Absent}]
    BY <1>1, NormalisedIn
  <2>3. TeamEdit(edit, "set_roster", x, RosterPatch(r)) /\ edit.node = r
    BY <2>1, <2>2, RosterPatchIs, TeamEditIs DEF RosterEdit, EntryEdit
  <2>4. \A b \in Bucket : new.entry[x][b] = r[b]
    BY <1>2, <2>2, <2>3, RosterInstalled DEF TeamEdit, Creates
  <2>5. t \in Targeted(doc) /\ (t # x => Goal)
    BY <1>8, <2>2, <2>3
  <2>6. CASE t = x
    BY <2>1, <2>4, <2>5, <2>6, StaffedCover
  <2> QED BY <2>5, <2>6
<1>15. CASE edit \in add_to_shift(doc) \cup remove_from_shift(doc)
  <2>1. PICK op \in {"add_to_shift", "remove_from_shift"}, x \in roles(doc),
             roster \in [Bucket -> (SUBSET Person) \cup {Absent}] :
          /\ TeamEdit(edit, op, x, RosterPatch(roster))
          /\ edit.node = roster /\ ShiftEdited(doc, x, roster)
    BY <1>15, AddOK, RemoveOK
  <2>2. x \in Team
    BY <1>1
  <2>3. \A b \in Bucket : new.entry[x][b] = roster[b]
    BY <1>2, <2>1, <2>2, RosterInstalled DEF TeamEdit, Creates
  <2>4. t \in Targeted(doc) /\ (t # x => Goal)
    BY <1>8, <2>1, <2>2
  <2>5. CASE t = x /\ Covered(doc, t)
    BY <2>1, <2>3, <2>4, <2>5, ShiftCover
  <2> QED BY <2>4, <2>5
<1>16. CASE edit \in set_backstop(doc) \cup set_feed
  <2>1. ASSUME edit \in set_backstop(doc)
        PROVE  patch.plan = Absent /\ patch.codes = Absent /\ \A x \in Entry : patch.entry[x] = Absent
    <3>1. PICK x : edit = Edit("set_backstop", "routing", [NoPatch EXCEPT !.default_owner = x])
      BY <2>1 DEF set_backstop
    <3>2. patch = [NoPatch EXCEPT !.default_owner = x]
      BY <3>1 DEF Edit, patch
    <3> QED BY <3>2 DEF NoPatch
  <2>2. ASSUME edit \in set_feed
        PROVE  patch.plan = Absent /\ patch.codes = Absent /\ \A x \in Entry : patch.entry[x] = Absent
    <3>1. PICK x : edit = Edit("set_feed", "source", [NoPatch EXCEPT !.source = x])
      BY <2>2 DEF set_feed
    <3>2. patch = [NoPatch EXCEPT !.source = x]
      BY <3>1 DEF Edit, patch
    <3> QED BY <3>2 DEF NoPatch
  <2>3. patch.plan = Absent /\ patch.codes = Absent /\ \A x \in Entry : patch.entry[x] = Absent
    BY <1>16, <2>1, <2>2
  <2> QED BY <1>1, <1>4, <1>5, <1>6, <2>3
<1>17. CASE edit \in update_reason(doc) \cup create_reason(doc) \cup delete_reason(doc)
  <2>1. PICK codes \in Codings, op \in {"update_reason", "create_reason", "delete_reason"} :
          /\ edit = CodesEdit(op, codes)
          /\ \A c \in DOMAIN codes : \/ c \in DOMAIN doc.codes /\ codes[c] = doc.codes[c]
                                     \/ codes[c] \in StaffedTeams(doc) \cup {Absent}
    BY <1>17, ReasonsOK
  <2>2. patch = [NoPatch EXCEPT !.codes = codes]
    BY <2>1 DEF CodesEdit, Edit, patch
  <2>3. patch.plan = Absent /\ patch.codes = codes /\ \A x \in Entry : patch.entry[x] = Absent
    BY <2>2 DEF NoPatch
  <2>4. IsObject(codes)
    BY DocumentAssumption DEF IsObject
  <2>5. new.codes = codes /\ new.plan = doc.plan
    BY <1>3, <2>3, <2>4 DEF patch
  <2>6. t \in Targeted(doc) \/ t \in StaffedTeams(doc)
    BY <2>1, <2>5 DEF Targeted, Owners
  <2>7. CASE t \in StaffedTeams(doc)
    <3>1. t \in roles(doc) /\ Staffed(Roster(doc, t))
      BY <2>7 DEF StaffedTeams
    <3>2. Covered(doc, t)
      BY <3>1, CoveredByStaff
    <3>3. new.entry[t] = doc.entry[t]
      BY <1>1, <1>3, <1>4, <2>3, <3>1 DEF patch
    <3> QED BY <3>2, <3>3 DEF Covered
  <2>8. CASE t \in Targeted(doc)
    BY <1>1, <1>4, <1>6, <2>3, <2>8
  <2> QED BY <2>6, <2>7, <2>8
<1>18. edit \notin set_plan(doc) \cup patch_scope(doc) \cup delete_scope
  <2>1. edit \in set_plan(doc) => edit.op = "set_plan"
    BY DEF set_plan, Edit
  <2>2. edit \in delete_scope => edit.op = "delete_scope"
    BY DEF delete_scope, Edit
  <2>3. edit \in patch_scope(doc) => edit.op = "patch_scope"
    BY PatchScopeOK
  <2> QED BY <2>1, <2>2, <2>3 DEF Unguarded
<1> QED BY <1>9, <1>10, <1>11, <1>12, <1>13, <1>14, <1>15, <1>16, <1>17, <1>18 DEF Edits

\* No edit of the panel, made on its own, takes the last person off a shift that faults
\* are routed to, or routes faults to a shift without one (set_roster, update_reason):
\* whatever the rosters, and whatever was edited before.
THEOREM RostersKeepCover == Spec => CoverIsKept
<1> DEFINE Kept == \A r \in Request :
             Reload(r) /\ ~raced /\ req[r].edit.op \notin Unguarded
               => \A t \in Targeted(live') :
                    Covered(live', t) \/ (t \in Targeted(live) /\ ~Covered(live, t))
<1>1. IInv /\ TInv /\ AInv /\ [Next]_vars => [Kept]_vars
  <2>1. ASSUME IInv, TInv, AInv, NEW r \in Request, Reload(r), ~raced,
               req[r].edit.op \notin Unguarded, NEW t \in Targeted(live')
        PROVE  Covered(live', t) \/ (t \in Targeted(live) /\ ~Covered(live, t))
    <3>1. /\ req[r].pc = "stored" /\ live' = Installed(req[r].overrides, live.source)
          /\ Busy(r)
      BY <2>1 DEF Reload, Busy
    <3>2. up /\ AloneOK(req[r])
      BY <2>1, <3>1 DEF AInv, BusyUp, Alone
    <3>3. req[r].edit \in Edits(live) /\ Composed(req[r].edit, req[r].overrides)
      BY <3>1, <3>2 DEF AloneOK
    <3>4. PICK rows : /\ Settled(rows) /\ live = Installed(rows, live.source)
                      /\ req[r].overrides = compose_patch(rows, req[r].edit.patch)
      BY <2>1, <3>3 DEF Composed, Unguarded
    <3>5. IsDocument(live) /\ validate(live)
      BY <2>1, <3>2 DEF IInv, TInv, Tables, LiveValid
    <3>6. PICK doc, new, edit, source :
            doc = live /\ new = live' /\ edit = req[r].edit /\ source = live.source
      OBVIOUS
    <3>7. new = Installed(compose_patch(rows, edit.patch), source)
      BY <3>1, <3>4, <3>6
    <3>8. /\ doc = Installed(rows, source) /\ IsDocument(doc) /\ validate(doc)
          /\ edit \in Edits(doc) /\ edit.op \notin Unguarded /\ t \in Targeted(new)
      BY <2>1, <3>3, <3>4, <3>5, <3>6
    <3>9. Covered(new, t) \/ (t \in Targeted(doc) /\ ~Covered(doc, t))
      BY <3>4, <3>7, <3>8, CoverKept
    <3> QED BY <3>6, <3>9
  <2> QED BY <2>1
<1> QED BY <1>1, StoreIInv, StoreTInv, StoreAInv, PTL DEF Spec, CoverIsKept
-----------------------------------------------------------------------------
(* There is somebody to page, if there is a backstop and no endpoint that drops it. *)

\* An edit that does not drop the backstop.
Backed(edit) == edit.patch.default_owner # Null

BackstopStays ==
  /\ stored.default_owner # Null /\ live.default_owner # Absent
  /\ \A r \in Request : req[r].overrides.default_owner # Null /\ Backed(req[r].edit)

LEMMA NoneBacked == NoPatch.default_owner # Null /\ Backed(Edit("none", "none", NoPatch))
<1>1. NoPatch.default_owner # Null
  BY DocumentAssumption DEF NoPatch
<1> QED BY <1>1 DEF Backed, Edit

LEMMA EntryBacked ==
  ASSUME NEW op, NEW e \in Entry, NEW node,
         NEW patch \in {Absent, Null} \cup [Fields(e) -> Value(e) \cup {Absent, Null}]
  PROVE  Backed(EntryEdit(op, e, patch, node))
<1> DEFINE edit == EntryEdit(op, e, patch, node)
<1>1. edit.patch = [entry |-> [x \in Entry |-> IF x = e THEN patch ELSE Absent],
                    default_owner |-> Absent, plan |-> Absent, codes |-> Absent,
                    source |-> Absent]
  BY EntryEditIs
<1> HIDE DEF edit
<1>2. Backed(edit)
  BY <1>1, DocumentAssumption DEF Backed
<1> QED BY <1>2 DEF edit

\* An edit of another key.
LEMMA OtherKeyBacked ==
  ASSUME NEW op, NEW scope, NEW x
  PROVE  /\ Backed(Edit(op, scope, [NoPatch EXCEPT !.plan = x]))
         /\ Backed(Edit(op, scope, [NoPatch EXCEPT !.codes = x]))
         /\ Backed(Edit(op, scope, [NoPatch EXCEPT !.source = x]))
         /\ x # Null => Backed(Edit(op, scope, [NoPatch EXCEPT !.default_owner = x]))
<1>1. \A patch : patch.default_owner # Null => Backed(Edit(op, scope, patch))
  BY DEF Backed, Edit
<1>2. /\ [NoPatch EXCEPT !.plan = x].default_owner = Absent
      /\ [NoPatch EXCEPT !.codes = x].default_owner = Absent
      /\ [NoPatch EXCEPT !.source = x].default_owner = Absent
      /\ [NoPatch EXCEPT !.default_owner = x].default_owner = x
  BY DEF NoPatch
<1>3. Absent # Null
  BY DocumentAssumption
<1> QED BY <1>1, <1>2, <1>3

LEMMA PanelBacked ==
  ASSUME "api" \notin Doors, NEW doc, IsDocument(doc), NEW edit \in Edits(doc)
  PROVE  Backed(edit)
<1>1. people(doc) \subseteq Person /\ roles(doc) \subseteq Team
  BY DEF people, roles
<1>2. CASE edit \in create_person(doc) \cup update_person(doc)
  <2>1. PICK p \in Person, c \in Contacts : \E op, node : edit = EntryEdit(op, p, c, node)
    <3>1. CASE edit \in create_person(doc)
      BY <3>1 DEF create_person
    <3>2. CASE edit \in update_person(doc)
      <4>1. PICK p \in people(doc), c \in Contacts :
              edit = EntryEdit("update_person", p, c,
                               [ch \in Channel |-> IF c[ch] = Absent THEN Null ELSE c[ch]])
        BY <3>2 DEF update_person
      <4>2. PICK node : edit = EntryEdit("update_person", p, c, node)
        BY <4>1
      <4> QED BY <1>1, <4>2
    <3> QED BY <1>2, <3>1, <3>2
  <2>2. p \in Entry /\ c \in [Fields(p) -> Value(p) \cup {Absent, Null}]
    BY ContactsIn, PersonIs
  <2> QED BY <2>1, <2>2, EntryBacked
<1>3. CASE edit \in delete_person(doc) \cup delete_team(doc)
  <2>1. PICK e \in Entry : \E op : edit = EntryEdit(op, e, Null, Absent)
    <3>1. CASE edit \in delete_person(doc)
      BY <1>1, <3>1 DEF delete_person, Entry
    <3>2. CASE edit \in delete_team(doc)
      BY <1>1, <3>2 DEF delete_team, Entry
    <3> QED BY <1>3, <3>1, <3>2
  <2> QED BY <2>1, EntryBacked
<1>4. CASE edit \in create_team(doc)
  <2>1. PICK t \in Team, r \in Normalised(doc) : edit = EntryEdit("create_team", t, r, r)
    BY <1>4 DEF create_team
  <2>2. r \in [Fields(t) -> Value(t) \cup {Absent, Null}] /\ t \in Entry
    BY NormalisedIn, TeamIs
  <2> QED BY <2>1, <2>2, EntryBacked
<1>5. CASE edit \in set_roster(doc)
  <2>1. PICK t \in roles(doc), r \in Normalised(doc) :
          edit = EntryEdit("set_roster", t, RosterPatch(r), r)
    BY <1>5 DEF set_roster, RosterEdit
  <2>2. t \in Entry /\ RosterPatch(r) \in [Fields(t) -> Value(t) \cup {Absent, Null}]
    BY <1>1, NormalisedIn, RosterPatchIs, TeamIs
  <2> QED BY <2>1, <2>2, EntryBacked
<1>6. CASE edit \in add_to_shift(doc) \cup remove_from_shift(doc)
  <2>1. edit.patch.default_owner = Absent
    BY <1>6, AddOK, RemoveOK DEF TeamEdit
  <2> QED BY <2>1, DocumentAssumption DEF Backed
<1>7. CASE edit \in set_backstop(doc)
  <2>1. PICK p \in Person : edit = Edit("set_backstop", "routing",
                                        [NoPatch EXCEPT !.default_owner = p])
    BY <1>1, <1>7 DEF set_backstop
  <2>2. p # Null
    BY DocumentAssumption
  <2> QED BY <2>1, <2>2, OtherKeyBacked
<1>8. CASE edit \in update_reason(doc) \cup create_reason(doc) \cup delete_reason(doc)
  <2>1. PICK codes \in Codings, op \in {"update_reason", "create_reason", "delete_reason"} :
          edit = Edit(op, "reasons", [NoPatch EXCEPT !.codes = codes])
    BY <1>8, ReasonsOK DEF CodesEdit
  <2> QED BY <2>1, OtherKeyBacked
<1>9. CASE edit \in set_plan(doc)
  BY <1>9, OtherKeyBacked DEF set_plan
<1>10. CASE edit \in set_feed
  BY <1>10, OtherKeyBacked DEF set_feed
<1> QED BY <1>2, <1>3, <1>4, <1>5, <1>6, <1>7, <1>8, <1>9, <1>10 DEF Edits

\* Rows without a null backstop make a configuration with the backstop of the files, or
\* with another one.
LEMMA InstalledBacked ==
  ASSUME Base.default_owner # Absent,
         NEW rows, Settled(rows), rows.default_owner # Null, NEW source
  PROVE  Installed(rows, source).default_owner # Absent
<1>1. Installed(rows, source).default_owner = MergeLeaf(Base.default_owner, rows.default_owner)
  BY InstalledIs
<1> QED BY <1>1 DEF MergeLeaf

LEMMA ProposedBacked ==
  ASSUME Tables, stored.default_owner # Null, NEW edit, EditOK(edit), Backed(edit)
  PROVE  Proposed(edit).default_owner # Null
<1>1. CASE edit.op = "delete_scope"
  <2>1. WithRow(stored, edit.scope, NoPatch).default_owner
          = IF edit.scope = "routing" THEN NoPatch.default_owner ELSE stored.default_owner
    BY WithRowIs DEF Tables, EditOK
  <2> QED BY <1>1, <2>1, NoneBacked DEF Proposed
<1>2. CASE edit.op # "delete_scope"
  <2>1. compose_patch(stored, edit.patch).default_owner
          = ComposeLeaf(stored.default_owner, edit.patch.default_owner)
    BY ComposedIs
  <2> QED BY <1>2, <2>1 DEF Proposed, ComposeLeaf, Backed
<1> QED BY <1>1, <1>2

\* What the other threads hold stays.
LEMMA BackedMoves ==
  ASSUME Threads, BackstopStays,
         NEW r \in Request, NEW pc, NEW edit, NEW overrides,
         req' = [req EXCEPT ![r] = [pc |-> pc, edit |-> edit, overrides |-> overrides]],
         Backed(edit), overrides.default_owner # Null
  PROVE  \A q \in Request : req'[q].overrides.default_owner # Null /\ Backed(req'[q].edit)
<1> DEFINE t == [pc |-> pc, edit |-> edit, overrides |-> overrides]
<1>1. \A q \in Request : req'[q] = IF q = r THEN t ELSE req[q]
  BY DEF Threads
<1>2. t.edit = edit /\ t.overrides = overrides
  OBVIOUS
<1> HIDE DEF t
<1> QED BY <1>1, <1>2 DEF BackstopStays

LEMMA BackstopSteps ==
  ASSUME "api" \notin Doors, Base.default_owner # Absent
  PROVE  TInv /\ BackstopStays /\ [Next]_vars => BackstopStays'
<1> SUFFICES ASSUME TInv, BackstopStays, [Next]_vars PROVE BackstopStays'
  OBVIOUS
<1> USE DEF TInv
<1> DEFINE Held == \A q \in Request : /\ req'[q].overrides.default_owner # Null
                                      /\ Backed(req'[q].edit)
           none == Edit("none", "none", NoPatch)
<1>1. CASE Restart
  <2>1. \A q \in Request : req'[q].overrides = NoPatch /\ req'[q].edit = none
    BY <1>1 DEF Restart, Idle
  <2>2. Held
    BY <2>1, NoneBacked
  <2>3. stored' = stored /\ (live' = Installed(stored, Base.source) \/ live' = Base)
    BY <1>1 DEF Restart
  <2>4. live'.default_owner # Absent
    BY <2>3, InstalledBacked DEF BackstopStays, Tables
  <2> QED BY <2>2, <2>3, <2>4 DEF BackstopStays
<1>2. ASSUME NEW r \in Request, Ask(r) PROVE BackstopStays'
  <2>1. PICK e \in Edits(live) :
          req' = [req EXCEPT ![r] = [pc |-> "asked", edit |-> e, overrides |-> NoPatch]]
    BY <1>2 DEF Ask, Idle
  <2>2. Backed(e)
    BY PanelBacked DEF Tables
  <2>3. Held
    BY <2>1, <2>2, BackedMoves, NoneBacked
  <2>4. UNCHANGED <<stored, live>>
    BY <1>2 DEF Ask
  <2> QED BY <2>3, <2>4 DEF BackstopStays
<1>3. ASSUME NEW r \in Request, Propose(r) PROVE BackstopStays'
  <2> DEFINE rows == Proposed(req[r].edit)
  <2>1. \/ req' = [req EXCEPT ![r] = [pc |-> "idle", edit |-> none, overrides |-> NoPatch]]
        \/ req' = [req EXCEPT ![r] = [pc |-> "checked", edit |-> req[r].edit,
                                      overrides |-> rows]]
    BY <1>3, ProposeMoves
  <2>2. rows.default_owner # Null
    <3>1. EditOK(req[r].edit)
      BY <1>3 DEF Propose, ThreadOK
    <3> QED BY <3>1, ProposedBacked DEF BackstopStays
  <2> HIDE DEF rows
  <2>3. Held
    BY <2>1, <2>2, BackedMoves, NoneBacked DEF BackstopStays
  <2>4. UNCHANGED <<stored, live>>
    BY <1>3 DEF Propose
  <2> QED BY <2>3, <2>4 DEF BackstopStays
<1>4. ASSUME NEW r \in Request, Store(r) PROVE BackstopStays'
  <2>1. \/ req' = [req EXCEPT ![r] = [pc |-> "idle", edit |-> none, overrides |-> NoPatch]]
        \/ req' = [req EXCEPT ![r] = [pc |-> "stored", edit |-> req[r].edit,
                                      overrides |-> req[r].overrides]]
    BY <1>4, StoreMoves
  <2>2. Held
    BY <2>1, BackedMoves, NoneBacked DEF BackstopStays
  <2>3. stored'.default_owner # Null
    <3>1. req[r].edit.scope \in Scope /\ stored' = WithRow(stored, req[r].edit.scope, Row(r))
      BY <1>4 DEF Store, ThreadOK, EditOK
    <3>2. PICK scope \in Scope : scope = req[r].edit.scope
      BY <3>1
    <3>3. PICK rows, row : rows = stored /\ row = req[r].overrides
      OBVIOUS
    <3>4. WithRow(rows, scope, row).default_owner
            = IF scope = "routing" THEN row.default_owner ELSE rows.default_owner
      BY <3>3, WithRowIs DEF Tables
    <3> QED BY <3>1, <3>2, <3>3, <3>4 DEF Row, BackstopStays
  <2>4. live' = live
    BY <1>4 DEF Store
  <2> QED BY <2>2, <2>3, <2>4 DEF BackstopStays
<1>5. ASSUME NEW r \in Request, Reload(r) PROVE BackstopStays'
  <2>1. req' = [req EXCEPT ![r] = [pc |-> "idle", edit |-> none, overrides |-> NoPatch]]
    BY <1>5 DEF Reload, Idle
  <2>2. Held
    BY <2>1, BackedMoves, NoneBacked
  <2>3. stored' = stored /\ live' = Installed(req[r].overrides, live.source)
    BY <1>5 DEF Reload
  <2>4. PICK rows, source : rows = req[r].overrides /\ source = live.source
    OBVIOUS
  <2>5. Settled(rows) /\ rows.default_owner # Null
    BY <2>4 DEF ThreadOK, BackstopStays
  <2>6. live'.default_owner # Absent
    BY <2>3, <2>4, <2>5, InstalledBacked
  <2> QED BY <2>2, <2>3, <2>6 DEF BackstopStays
<1>6. CASE UNCHANGED vars
  BY <1>6 DEF vars, BackstopStays
<1> QED BY <1>1, <1>2, <1>3, <1>4, <1>5, <1>6 DEF Next

\* With a backstop in the YAML files and without the configuration API, whose patches can
\* drop it, a fault of a team that faults are routed to is paged to somebody on every
\* shift, whatever edits the panel makes and however they overlap: "it never becomes
\* 'accept a config that routes nothing to nobody at 3am'" (config_api.py) is true of the
\* panel.
THEOREM PanelRoutesToSomebody ==
  ASSUME "api" \notin Doors, Base.default_owner # Absent
  PROVE  Spec => []RoutesToSomebody
<1>1. Init => BackstopStays
  BY NoneBacked DEF Init, Idle, BackstopStays
<1>2. TInv /\ BackstopStays /\ [Next]_vars => BackstopStays'
  BY BackstopSteps
<1>3. BackstopStays => RoutesToSomebody
  BY DEF BackstopStays, RoutesToSomebody, resolve
<1> QED BY <1>1, <1>2, <1>3, StoreTInv, PTL DEF Spec

=============================================================================
