---------------------------- MODULE CatalogueProofs ----------------------------
(***************************************************************************)
(* What the audit log explains, what a deployment holds and what the rate  *)
(* of a device rests on, for any number of patches, devices, requests,     *)
(* workers and faults.                                                     *)
(***************************************************************************)
EXTENDS Catalogue, FiniteSetTheorems, TLAPS

PatchRows == [status : Status \cup {"absent"}, key : Nat]
Operations == DOMAIN Transitions \cup {"idle", "partial_update", "create_deployment"}

RowTypes ==
    /\ status \in [Patches -> Status \cup {"absent"}]
    /\ key \in [Patches -> Nat]
    /\ op \in [Users -> Operations]
    /\ left \in [Users -> SUBSET Patches]
    /\ copy \in [Users -> [Patches -> PatchRows]]
    /\ unlogged \in [Users -> SUBSET (Patches \X Nat \X Status \X Status)]

(* A row that may be stored for patch p when the transitions M were made.  *)
Sound(M, p, row) ==
    row.status \notin {"absent", Imported} => Explained(M, p, row.key, row.status)

(* The rows that requests still hold are as sound as the stored ones, so   *)
(* that saving an old one does no harm; what they still have to save was   *)
(* there when they read it; and a transition that is saved is logged, or   *)
(* lost with its request, before the next one.                             *)
CatalogueInv ==
    /\ RowTypes
    /\ \A p \in Patches : Sound(Made, p, Row(p))
    /\ \A u \in Users, p \in Patches :
         Sound(Made, p, copy[u][p]) /\ (p \in left[u] => copy[u][p].status # "absent")
    /\ deployed \subseteq Patches /\ DeployedWasApproved
    /\ \A u \in Users : unlogged[u] # {} =>
         op[u] \in DOMAIN Transitions /\ \E e \in unlogged[u] : unlogged[u] = {e}
-----------------------------------------------------------------------------
LEMMA SoundGrows ==
    ASSUME NEW M, NEW N, M \subseteq N, NEW p, NEW row, Sound(M, p, row)
    PROVE  Sound(N, p, row)
BY DEF Sound, Explained

LEMMA NoCopySound == ASSUME NEW p \in Patches, NEW M PROVE Sound(M, p, NoCopy[p])
BY DEF Sound, NoCopy

LEMMA NoCopyType == NoCopy \in [Patches -> PatchRows]
BY DEF NoCopy, PatchRows

LEMMA RowType ==
    ASSUME RowTypes, NEW p \in Patches
    PROVE  Row(p) \in PatchRows /\ Row(p).status = status[p] /\ Row(p).key = key[p]
BY DEF RowTypes, Row, PatchRows

LEMMA InitInv == Init => CatalogueInv
<1> SUFFICES ASSUME Init PROVE CatalogueInv
    OBVIOUS
<1>1. RowTypes
    BY NoCopyType DEF Init, RowTypes, Status, Operations
<1>2. \A p \in Patches : Sound(Made, p, Row(p))
    BY <1>1, RowType DEF Init, Sound, Imported
<1>3. \A u \in Users, p \in Patches :
        Sound(Made, p, copy[u][p]) /\ (p \in left[u] => copy[u][p].status # "absent")
    BY NoCopySound DEF Init
<1> QED BY <1>1, <1>2, <1>3 DEF Init, CatalogueInv, DeployedWasApproved

(* What the steps have in common.                                          *)
LEMMA Preserved ==
    ASSUME CatalogueInv, RowTypes', Made \subseteq Made',
           \A p \in Patches : \/ status'[p] = status[p] /\ key'[p] = key[p]
                              \/ Sound(Made', p, Row(p)'),
           \A u \in Users, p \in Patches :
                \/ copy'[u][p] = copy[u][p] /\ (p \in left'[u] => p \in left[u])
                \/ Sound(Made', p, copy'[u][p]) /\ (p \in left'[u] => copy'[u][p].status # "absent"),
           \A p \in deployed' :
                /\ p \in Patches /\ status'[p] # "absent"
                /\ (p \in deployed /\ key'[p] = key[p]) \/ Explained(Made', p, key'[p], "approved"),
           \A u \in Users : unlogged'[u] = {} \/ (unlogged'[u] = unlogged[u] /\ op'[u] = op[u])
                \/ (op'[u] \in DOMAIN Transitions /\ \E e \in unlogged'[u] : unlogged'[u] = {e})
    PROVE  CatalogueInv'
<1>1. ASSUME NEW p \in Patches PROVE Sound(Made', p, Row(p)')
    <2>1. CASE status'[p] = status[p] /\ key'[p] = key[p]
        <3>1. Row(p)'.status = Row(p).status /\ Row(p)'.key = Row(p).key
            BY <2>1 DEF Row
        <3>2. Sound(Made, p, Row(p))
            BY DEF CatalogueInv
        <3> QED BY <3>1, <3>2 DEF Sound, Explained
    <2> QED BY <2>1
<1>2. ASSUME NEW u \in Users, NEW p \in Patches
      PROVE  Sound(Made', p, copy'[u][p]) /\ (p \in left'[u] => copy'[u][p].status # "absent")
    <2>1. Sound(Made, p, copy[u][p]) /\ (p \in left[u] => copy[u][p].status # "absent")
        BY DEF CatalogueInv
    <2> QED BY <2>1, SoundGrows
<1>3. deployed' \subseteq Patches /\ DeployedWasApproved'
    <2>1. ASSUME NEW p \in deployed' PROVE Explained(Made', p, key'[p], "approved")
        BY DEF CatalogueInv, DeployedWasApproved, Explained
    <2> QED BY <2>1 DEF DeployedWasApproved
<1>4. \A u \in Users : unlogged'[u] # {} =>
        op'[u] \in DOMAIN Transitions /\ \E e \in unlogged'[u] : unlogged'[u] = {e}
    BY DEF CatalogueInv
<1> QED BY <1>1, <1>2, <1>3, <1>4 DEF CatalogueInv

LEMMA ReadStep ==
    ASSUME CatalogueInv, NEW u \in Users, NEW o \in Operations, NEW S \in SUBSET Patches, Read(u, o, S)
    PROVE  CatalogueInv'
<1>1. copy'[u] = [p \in Patches |-> IF p \in S THEN Row(p) ELSE NoCopy[p]] /\ left'[u] = S
    BY DEF Read, CatalogueInv, RowTypes
<1>2. copy'[u] \in [Patches -> PatchRows]
    BY <1>1, RowType, NoCopyType DEF CatalogueInv
<1>3. RowTypes'
    BY <1>1, <1>2 DEF Read, CatalogueInv, RowTypes, rowVars
<1>4. Made' = Made
    BY DEF Read, Made
<1>5. ASSUME NEW v \in Users, NEW p \in Patches
      PROVE  \/ copy'[v][p] = copy[v][p] /\ (p \in left'[v] => p \in left[v])
             \/ Sound(Made', p, copy'[v][p]) /\ (p \in left'[v] => copy'[v][p].status # "absent")
    <2>1. CASE v = u /\ p \in S
        <3>1. copy'[v][p] = Row(p) /\ Sound(Made, p, Row(p))
            BY <1>1, <2>1 DEF CatalogueInv
        <3>2. Row(p).status # "absent"
            BY <2>1, RowType DEF Read, CatalogueInv
        <3> QED BY <1>4, <3>1, <3>2
    <2>2. CASE v = u /\ p \notin S
        BY <1>1, <2>2, NoCopySound
    <2>3. CASE v # u
        BY <2>3 DEF Read, CatalogueInv, RowTypes
    <2> QED BY <2>1, <2>2, <2>3
<1>6. \A v \in Users : unlogged'[v] = {} \/ (unlogged'[v] = unlogged[v] /\ op'[v] = op[v])
    BY DEF Read, CatalogueInv, RowTypes, Transitions
<1>7. UNCHANGED <<status, key, deployed>>
    BY DEF Read, rowVars
<1>8. \A p \in deployed' : p \in Patches /\ status'[p] # "absent" /\ p \in deployed /\ key'[p] = key[p]
    BY <1>7 DEF CatalogueInv, DeployedWasApproved
<1> QED BY <1>3, <1>4, <1>5, <1>6, <1>7, <1>8, Preserved

LEMMA ArriveStep == ASSUME CatalogueInv, NEW u \in Users, Arrive(u) PROVE CatalogueInv'
<1>1. PICK o \in Operations, S \in SUBSET Patches : Read(u, o, S)
    BY DEF Arrive, approve, reject, review, bulk_approve, bulk_reject, partial_update,
        create_deployment, Operations, Transitions
<1> QED BY <1>1, ReadStep

(* The end of a request loses no transition.                               *)
LEMMA EndFacts ==
    ASSUME CatalogueInv, NEW u \in Users, End(u), audit \subseteq audit'
    PROVE  /\ Made \subseteq Made'
           /\ op' \in [Users -> Operations] /\ left' \in [Users -> SUBSET Patches]
           /\ copy' \in [Users -> [Patches -> PatchRows]]
           /\ unlogged' \in [Users -> SUBSET (Patches \X Nat \X Status \X Status)]
           /\ \A v \in Users, p \in Patches :
                \/ copy'[v][p] = copy[v][p] /\ (p \in left'[v] => p \in left[v])
                \/ Sound(Made', p, copy'[v][p]) /\ (p \in left'[v] => copy'[v][p].status # "absent")
           /\ \A v \in Users : unlogged'[v] = {} \/ (unlogged'[v] = unlogged[v] /\ op'[v] = op[v])
<1>1. Made \subseteq Made'
    BY DEF End, Made, CatalogueInv, RowTypes
<1>2. /\ op' \in [Users -> Operations] /\ left' \in [Users -> SUBSET Patches]
      /\ copy' \in [Users -> [Patches -> PatchRows]]
      /\ unlogged' \in [Users -> SUBSET (Patches \X Nat \X Status \X Status)]
    BY NoCopyType DEF End, CatalogueInv, RowTypes, Operations
<1>3. \A v \in Users, p \in Patches :
        \/ copy'[v][p] = copy[v][p] /\ (p \in left'[v] => p \in left[v])
        \/ Sound(Made', p, copy'[v][p]) /\ (p \in left'[v] => copy'[v][p].status # "absent")
    BY NoCopySound DEF End, CatalogueInv, RowTypes
<1>4. \A v \in Users : unlogged'[v] = {} \/ (unlogged'[v] = unlogged[v] /\ op'[v] = op[v])
    BY DEF End, CatalogueInv, RowTypes
<1> QED BY <1>1, <1>2, <1>3, <1>4

(* Nor does going on with the next patch, if the last transition is on     *)
(* record.                                                                 *)
LEMMA HandledFacts ==
    ASSUME CatalogueInv, NEW u \in Users, NEW p, Handled(u, p), audit \cup unlogged[u] \subseteq audit'
    PROVE  /\ Made \subseteq Made'
           /\ op' \in [Users -> Operations] /\ left' \in [Users -> SUBSET Patches]
           /\ copy' \in [Users -> [Patches -> PatchRows]]
           /\ unlogged' \in [Users -> SUBSET (Patches \X Nat \X Status \X Status)]
           /\ \A v \in Users, q \in Patches :
                \/ copy'[v][q] = copy[v][q] /\ (q \in left'[v] => q \in left[v])
                \/ Sound(Made', q, copy'[v][q]) /\ (q \in left'[v] => copy'[v][q].status # "absent")
           /\ \A v \in Users : unlogged'[v] = {} \/ (unlogged'[v] = unlogged[v] /\ op'[v] = op[v])
<1>1. Made \subseteq Made'
    BY DEF Handled, Made, CatalogueInv, RowTypes
<1>2. /\ op' \in [Users -> Operations] /\ left' \in [Users -> SUBSET Patches]
      /\ copy' \in [Users -> [Patches -> PatchRows]]
      /\ unlogged' \in [Users -> SUBSET (Patches \X Nat \X Status \X Status)]
    BY NoCopyType DEF Handled, CatalogueInv, RowTypes, Operations
<1>3. ASSUME NEW v \in Users, NEW q \in Patches
      PROVE  \/ copy'[v][q] = copy[v][q] /\ (q \in left'[v] => q \in left[v])
             \/ Sound(Made', q, copy'[v][q]) /\ (q \in left'[v] => copy'[v][q].status # "absent")
    <2>1. CASE v = u /\ left[u] = {p}
        BY <2>1, NoCopySound DEF Handled, CatalogueInv, RowTypes
    <2>2. CASE v # u \/ left[u] # {p}
        BY <2>2 DEF Handled, CatalogueInv, RowTypes
    <2> QED BY <2>1, <2>2
<1>4. \A v \in Users : unlogged'[v] = {} \/ (unlogged'[v] = unlogged[v] /\ op'[v] = op[v])
    BY DEF Handled, CatalogueInv, RowTypes
<1> QED BY <1>1, <1>2, <1>3, <1>4

LEMMA Kept ==
    ASSUME CatalogueInv, UNCHANGED <<status, key, deployed>>
    PROVE  \A p \in deployed' : /\ p \in Patches /\ status'[p] # "absent"
                                /\ p \in deployed /\ key'[p] = key[p]
BY DEF CatalogueInv, DeployedWasApproved

LEMMA RefuseStep == ASSUME CatalogueInv, NEW u \in Users, NEW p \in Patches, Refuse(u, p) PROVE CatalogueInv'
<1>1. audit \cup unlogged[u] \subseteq audit' /\ Handled(u, p)
      /\ UNCHANGED <<status, key, deployed>>
    BY DEF Refuse, Transitioning, rowVars
<1>2. RowTypes'
    BY <1>1, HandledFacts DEF CatalogueInv, RowTypes
<1> QED BY <1>1, <1>2, HandledFacts, Kept, Preserved

LEMMA transitionStep ==
    ASSUME CatalogueInv, NEW u \in Users, NEW p \in Patches, transition(u, p) PROVE CatalogueInv'
<1> DEFINE to == Transitions[op[u]]
           old == copy[u][p]
           e == <<p, old.key, old.status, to>>
<1>1. op[u] \in DOMAIN Transitions /\ to \in {"approved", "rejected", "reviewed"}
      /\ old \in PatchRows /\ unlogged[u] = {}
    BY DEF transition, Transitioning, Transitions, CatalogueInv, RowTypes
<1>2. old.status \in Status
    BY <1>1 DEF transition, can_transition, ValidTransitions, PatchRows, Imported, Status
<1>3. old.key \in Nat
    BY <1>1 DEF PatchRows
<1>4. /\ status' = [status EXCEPT ![p] = to]
      /\ key' = [key EXCEPT ![p] = old.key]
      /\ unlogged' = [unlogged EXCEPT ![u] = {e}]
      /\ UNCHANGED <<audit, deployed, op, left, copy, forgotten>>
    BY DEF transition, Save
<1>5. e \in Patches \X Nat \X Status \X Status
    BY <1>1, <1>2, <1>3 DEF Status
<1>6. RowTypes'
    BY <1>1, <1>3, <1>4, <1>5 DEF CatalogueInv, RowTypes, Status
<1>7. Made \subseteq Made' /\ e \in Made'
    BY <1>1, <1>4 DEF Made, CatalogueInv, RowTypes
<1>8. ASSUME NEW q \in Patches
      PROVE  (status'[q] = status[q] /\ key'[q] = key[q]) \/ Sound(Made', q, Row(q)')
    <2>1. CASE q = p
        <3>1. Row(q)'.status = to /\ Row(q)'.key = old.key
            BY <1>4, <2>1 DEF Row, CatalogueInv, RowTypes
        <3>2. Explained(Made', q, old.key, to)
            BY <1>7, <2>1 DEF Explained
        <3> QED BY <3>1, <3>2 DEF Sound
    <2>2. CASE q # p
        BY <1>4, <2>2 DEF CatalogueInv, RowTypes
    <2> QED BY <2>1, <2>2
<1>9. ASSUME NEW q \in deployed'
      PROVE  q \in Patches /\ status'[q] # "absent" /\ q \in deployed /\ key'[q] = key[q]
    <2>1. q \in Patches /\ q \in deployed /\ status[q] # "absent"
        BY <1>4 DEF CatalogueInv, DeployedWasApproved
    <2>2. q = p => key[q] = old.key
        BY <2>1 DEF transition, Taken
    <2> QED BY <1>1, <1>4, <2>1, <2>2 DEF CatalogueInv, RowTypes
<1>10. \A v \in Users : \/ unlogged'[v] = unlogged[v] /\ op'[v] = op[v]
                        \/ /\ op'[v] \in DOMAIN Transitions
                           /\ \E x \in unlogged'[v] : unlogged'[v] = {x}
    BY <1>1, <1>4 DEF CatalogueInv, RowTypes
<1> HIDE DEF to, old, e
<1> QED BY <1>4, <1>6, <1>7, <1>8, <1>9, <1>10, Preserved

LEMMA LogStep == ASSUME CatalogueInv, NEW u \in Users, Log(u) PROVE CatalogueInv'
<1>1. PICK e \in unlogged[u] : audit' = audit \cup {e} /\ Handled(u, e[1])
    BY DEF Log
<1>2. unlogged[u] = {e}
    BY DEF CatalogueInv
<1>3. audit \cup unlogged[u] \subseteq audit' /\ UNCHANGED <<status, key, deployed>>
    BY <1>1, <1>2 DEF Log, rowVars
<1>4. RowTypes'
    BY <1>1, <1>3, HandledFacts DEF CatalogueInv, RowTypes
<1> QED BY <1>1, <1>3, <1>4, HandledFacts, Kept, Preserved

LEMMA SaveUpdateStep ==
    ASSUME CatalogueInv, NEW u \in Users, NEW p \in Patches, SaveUpdate(u, p) PROVE CatalogueInv'
<1> DEFINE old == copy[u][p]
<1>1. old \in PatchRows /\ Sound(Made, p, old) /\ old.status # "absent"
    BY DEF SaveUpdate, CatalogueInv, RowTypes
<1>2. old.status \in Status \cup {"absent"} /\ old.key \in Nat
    BY <1>1 DEF PatchRows
<1>3. /\ status' = [status EXCEPT ![p] = old.status]
      /\ key' = [key EXCEPT ![p] = old.key]
      /\ Handled(u, p) /\ UNCHANGED <<audit, deployed>>
    BY DEF SaveUpdate, Save
<1>4. unlogged[u] = {}
    BY DEF SaveUpdate, CatalogueInv, Transitions
<1>5. audit \cup unlogged[u] \subseteq audit'
    BY <1>3, <1>4
<1>6. RowTypes'
    BY <1>2, <1>3, <1>5, HandledFacts DEF CatalogueInv, RowTypes
<1>7. Made \subseteq Made'
    BY <1>3, <1>5, HandledFacts
<1>8. ASSUME NEW q \in Patches
      PROVE  (status'[q] = status[q] /\ key'[q] = key[q]) \/ Sound(Made', q, Row(q)')
    <2>1. CASE q = p
        <3>1. Row(q)'.status = old.status /\ Row(q)'.key = old.key
            BY <1>3, <2>1 DEF Row, CatalogueInv, RowTypes
        <3>2. Sound(Made', q, old)
            BY <1>1, <1>7, <2>1, SoundGrows
        <3> QED BY <3>1, <3>2 DEF Sound
    <2>2. CASE q # p
        BY <1>3, <2>2 DEF CatalogueInv, RowTypes
    <2> QED BY <2>1, <2>2
<1>9. ASSUME NEW q \in deployed'
      PROVE  q \in Patches /\ status'[q] # "absent" /\ q \in deployed /\ key'[q] = key[q]
    <2>1. q \in Patches /\ q \in deployed /\ status[q] # "absent"
        BY <1>3 DEF CatalogueInv, DeployedWasApproved
    <2>2. q = p => key[q] = old.key
        BY <2>1 DEF SaveUpdate, Taken
    <2> QED BY <1>1, <1>3, <2>1, <2>2 DEF CatalogueInv, RowTypes
<1> HIDE DEF old
<1> QED BY <1>3, <1>5, <1>6, <1>7, <1>8, <1>9, HandledFacts, Preserved

LEMMA EndStep ==
    ASSUME CatalogueInv, NEW u \in Users,
           Deploy(u) \/ Kill(u) \/ LogFails(u) \/ \E p \in Patches : SaveFails(u, p)
    PROVE  CatalogueInv'
<1>1. End(u) /\ audit' = audit /\ UNCHANGED <<status, key>>
    BY DEF Deploy, Kill, LogFails, SaveFails, rowVars
<1>2. ASSUME NEW p \in deployed'
      PROVE  /\ p \in Patches /\ status'[p] # "absent"
             /\ (p \in deployed /\ key'[p] = key[p]) \/ Explained(Made', p, key'[p], "approved")
    <2>1. CASE p \in deployed
        BY <1>1, <2>1 DEF CatalogueInv, DeployedWasApproved
    <2>2. CASE p \notin deployed
        <3>1. p \in left[u] /\ copy[u][p].status = "approved" /\ status[p] # "absent" /\ ~Taken(u, p)
            BY <2>2 DEF Deploy, Approved, Kill, LogFails, SaveFails
        <3>2. p \in Patches /\ key[p] = copy[u][p].key
            BY <3>1 DEF CatalogueInv, RowTypes, Taken
        <3>3. Explained(Made, p, key[p], "approved")
            BY <3>1, <3>2 DEF CatalogueInv, Sound, Imported
        <3> QED BY <1>1, <3>1, <3>2, <3>3, EndFacts DEF Explained
    <2> QED BY <2>1, <2>2
<1>3. RowTypes'
    BY <1>1, EndFacts DEF CatalogueInv, RowTypes
<1> QED BY <1>1, <1>2, <1>3, EndFacts, Preserved

(* Steps that insert a row, delete one, or touch neither rows nor          *)
(* requests.                                                               *)
LEMMA RowStep ==
    ASSUME CatalogueInv, UNCHANGED <<requestVars, forgotten, audit>>, deployed' \subseteq deployed,
           \/ UNCHANGED rowVars
           \/ \E p : Insert(p)
           \/ \E p \in Patches : /\ status' = [status EXCEPT ![p] = "absent"] /\ key' = key
                                 /\ p \notin deployed'
    PROVE  CatalogueInv'
<1>1. Made' = Made
    BY DEF Made, requestVars
<1>2. RowTypes'
    <2>1. status' \in [Patches -> Status \cup {"absent"}] /\ key' \in [Patches -> Nat]
        <3>1. CASE UNCHANGED rowVars
            BY <3>1 DEF CatalogueInv, RowTypes, rowVars
        <3>2. ASSUME NEW p, Insert(p)
              PROVE  status' \in [Patches -> Status \cup {"absent"}] /\ key' \in [Patches -> Nat]
            <4>1. status' \in [Patches -> Status \cup {"absent"}]
                BY <3>2 DEF CatalogueInv, RowTypes, Insert, Status
            <4>2. key' \in [Patches -> Nat]
                <5>1. key \in [Patches -> Nat] /\ key' = [key EXCEPT ![p] = key[p] + 1]
                    BY <3>2 DEF CatalogueInv, RowTypes, Insert
                <5>2. p \in Patches => key[p] + 1 \in Nat
                    BY <5>1
                <5> QED BY <5>1, <5>2
            <4> QED BY <4>1, <4>2
        <3>3. ASSUME NEW p \in Patches, status' = [status EXCEPT ![p] = "absent"], key' = key
              PROVE  status' \in [Patches -> Status \cup {"absent"}] /\ key' \in [Patches -> Nat]
            BY <3>3 DEF CatalogueInv, RowTypes
        <3> QED BY <3>1, <3>2, <3>3
    <2> QED BY <2>1 DEF CatalogueInv, RowTypes, requestVars
<1>3. ASSUME NEW q \in Patches
      PROVE  (status'[q] = status[q] /\ key'[q] = key[q]) \/ status'[q] \in {"absent", Imported}
    BY DEF rowVars, Insert, CatalogueInv, RowTypes
<1>4. ASSUME NEW q \in Patches, status'[q] \in {"absent", Imported}
      PROVE  Sound(Made', q, Row(q)')
    BY <1>4 DEF Row, Sound, Imported
<1>5. ASSUME NEW q \in deployed'
      PROVE  q \in Patches /\ status'[q] # "absent" /\ q \in deployed /\ key'[q] = key[q]
    <2>1. q \in deployed /\ q \in Patches /\ status[q] # "absent"
        BY DEF CatalogueInv, DeployedWasApproved
    <2> QED BY <2>1 DEF rowVars, Insert, CatalogueInv, RowTypes
<1> QED BY <1>1, <1>2, <1>3, <1>4, <1>5, Preserved DEF requestVars

LEMMA InvStep == CatalogueInv /\ [Next]_vars => CatalogueInv'
<1> SUFFICES ASSUME CatalogueInv, [Next]_vars PROVE CatalogueInv'
    OBVIOUS
<1>1. ASSUME NEW u \in Users, Request(u) PROVE CatalogueInv'
    BY <1>1, RefuseStep, transitionStep, SaveUpdateStep, EndStep, LogStep DEF Request
<1>2. ASSUME NEW p \in Patches, create(p) \/ destroy(p) PROVE CatalogueInv'
    BY <1>2, RowStep DEF create, destroy, approvalVars
<1>3. ASSUME NEW d \in Devices, ingest_scan(d) \/ ingest_slow_lane(d) PROVE CatalogueInv'
    BY <1>3, RowStep DEF ingest_scan, ingest_slow_lane, Enqueue, approvalVars
<1>4. CASE Recount
    BY <1>4, RowStep DEF Recount, approvalVars
<1>5. ASSUME NEW w \in Workers, Work(w) \/ Lose(w) PROVE CatalogueInv'
    <2>1. CASE StartScan(w) \/ NextItem(w)
        BY <2>1, RowStep DEF StartScan, NextItem, GetOrCreatePatch, approvalVars
    <2>2. CASE UpdateOrCreateState(w) \/ StartRefresh(w) \/ CountTotal(w) \/ CountInstalled(w)
               \/ SaveRate(w) \/ Lose(w)
        BY <2>2, RowStep DEF UpdateOrCreateState, StartRefresh, CountTotal, CountInstalled,
            SaveRate, Lose, approvalVars
    <2> QED BY <1>5, <2>1, <2>2 DEF Work
<1>6. CASE UNCHANGED vars
    BY <1>6, RowStep DEF vars, approvalVars
<1> QED BY <1>1, <1>2, <1>3, <1>4, <1>5, <1>6, ArriveStep, EndStep DEF Next

LEMMA Invariance == Spec => []CatalogueInv
BY InitInv, InvStep, PTL DEF Spec

(* A patch that is not as imported is in a state that a transition of its  *)
(* row led to, which is on record or was lost with its request:            *)
(* PatchStateMachine.transition saves and logs in two steps.               *)
THEOREM AuditExplainsHolds == Spec => []AuditExplains
<1>1. CatalogueInv => AuditExplains
    BY RowType DEF CatalogueInv, Sound, Explained, AuditExplains
<1> QED BY <1>1, Invariance, PTL

(* Deployments hold patches that exist and were approved once, in the row  *)
(* they have, although the approval is read before the deployment is       *)
(* saved: DeploymentCreateSerializer.                                      *)
THEOREM DeployedWasApprovedHolds == Spec => []DeployedWasApproved
<1>1. CatalogueInv => DeployedWasApproved
    BY DEF CatalogueInv
<1> QED BY <1>1, Invariance, PTL
-----------------------------------------------------------------------------
(* Rates *)

Waits(d) == d \in refreshQ \/ \E m \in inbox : m[1] = d

(* A task is about one device, that of the scan it stores.                 *)
Shape(t) ==
    /\ t.pc \in {"idle", "patch", "state", "total", "installed", "save"}
    /\ t.pc \in {"patch", "state"} => t.scan # {} /\ \A m, n \in t.scan : m[1] = n[1]
    /\ t.pc \in {"total", "installed", "save"} => \A m \in t.scan : m[1] = t.device

(* What a count has read of device d is still so.                          *)
Fresh(t, d) ==
    /\ t.pc = "installed" => t.total = Cardinality(Rows(d))
    /\ t.pc = "save" => t.rate = Exact(d)

RateInv ==
    /\ state = [x \in Devices \X Patches |-> state[x]]
    /\ rate = [d \in Devices |-> rate[d]] /\ task = [w \in Workers |-> task[w]]
    /\ \A w \in Workers : Shape(task[w])
    /\ \A w \in Workers, d \in Devices \ disturbed : Counts(task[w], d) => Fresh(task[w], d)
    /\ RateExplained

LEMMA PendingMeans ==
    ASSUME NEW d, Pending(d) PROVE Waits(d) \/ \E w \in Workers : d \in Subject(task[w])
BY DEF Pending, Waits

LEMMA InitRates == Init => RateInv
<1> SUFFICES ASSUME Init PROVE RateInv
    OBVIOUS
<1>1. ASSUME NEW d \in Devices PROVE rate[d] = Exact(d)
    <2>1. Rows(d) = {}
        BY DEF Init, Rows
    <2> QED BY <2>1, FS_EmptySet DEF Init, Exact, RateOf
<1>2. \A w \in Workers : task[w] = Idle
    BY DEF Init
<1> QED BY <1>1, <1>2 DEF Init, RateInv, Shape, Counts, Idle, RateExplained

(* Steps that leave rows, rates and tasks alone.                           *)
LEMMA OtherStep ==
    ASSUME RateInv, UNCHANGED <<state, rate, task, disturbed>>,
           inbox \subseteq inbox', refreshQ \cap Devices \subseteq refreshQ'
    PROVE  RateInv'
<1>1. \A d \in Devices : Rows(d)' = Rows(d) /\ Exact(d)' = Exact(d)
    BY DEF Rows, Exact, Installed
<1>2. \A d \in Devices : Pending(d) => Pending(d)'
    BY DEF Pending
<1> QED BY <1>1, <1>2 DEF RateInv, Fresh, RateExplained

(* What the steps of a worker have in common.                              *)
Same(d) == Rows(d)' = Rows(d) /\ Exact(d)' = Exact(d)

LEMMA TaskStep ==
    ASSUME RateInv, NEW w \in Workers, NEW t, Task(w, t), Shape(t),
           state' = [x \in Devices \X Patches |-> state'[x]],
           rate' = [d \in Devices |-> rate'[d]],
           \A d \in Devices \ disturbed' :
             /\ (d \notin disturbed /\ Same(d)) \/ \A v \in Workers \ {w} : ~Counts(task[v], d)
             /\ Counts(t, d) => Fresh(t, d)'
             /\ \/ rate'[d] = Exact(d)' \/ d \in Subject(t)
                \/ /\ d \notin disturbed /\ Same(d) /\ rate'[d] = rate[d]
                   /\ Waits(d) \/ d \in Subject(task[w]) => Waits(d)'
    PROVE  RateInv'
<1>1. /\ task'[w] = t /\ task' = [v \in Workers |-> task'[v]]
      /\ \A v \in Workers \ {w} : task'[v] = task[v]
    BY DEF Task, RateInv
<1>2. \A v \in Workers : Shape(task'[v])
    BY <1>1 DEF RateInv
<1>3. ASSUME NEW v \in Workers, NEW d \in Devices \ disturbed', Counts(task'[v], d)
      PROVE  Fresh(task[v], d)'
    <2>1. CASE v = w
        BY <1>1, <1>3, <2>1
    <2>2. CASE v # w
        <3>1. task'[v] = task[v] /\ d \notin disturbed /\ Same(d)
            BY <1>1, <1>3, <2>2
        <3>2. Fresh(task[v], d)
            BY <1>3, <3>1 DEF RateInv
        <3> QED BY <3>1, <3>2 DEF Fresh, Same
    <2> QED BY <2>1, <2>2
<1>4. ASSUME NEW d \in Devices \ disturbed', rate'[d] # Exact(d)' PROVE Pending(d)'
    <2>1. CASE d \in Subject(t)
        BY <1>1, <2>1 DEF Pending
    <2>2. CASE d \notin Subject(t)
        <3>1. d \notin disturbed /\ rate[d] # Exact(d)
              /\ (Waits(d) \/ d \in Subject(task[w]) => Waits(d)')
            BY <1>4, <2>2 DEF Same
        <3>2. Pending(d)
            BY <3>1 DEF RateInv, RateExplained
        <3>3. Waits(d)' \/ \E v \in Workers \ {w} : d \in Subject(task[v])
            BY <3>1, <3>2, PendingMeans
        <3> QED BY <1>1, <3>3 DEF Pending, Waits
    <2> QED BY <2>1, <2>2
<1>5. RateExplained'
    BY <1>4 DEF RateExplained
<1> QED BY <1>1, <1>2, <1>3, <1>5 DEF RateInv

LEMMA SameRows == ASSUME UNCHANGED state PROVE \A d : Same(d)
BY DEF Same, Rows, Exact, Installed

LEMMA ScanStep ==
    ASSUME RateInv, NEW w \in Workers, StartScan(w) \/ NextItem(w) PROVE RateInv'
<1>1. PICK scan, items :
        /\ GetOrCreatePatch(w, scan, items) /\ scan # {} /\ \A m, n \in scan : m[1] = n[1]
        /\ \A d : Waits(d) \/ d \in Subject(task[w]) => Waits(d)' \/ \E m \in scan : m[1] = d
    <2>1. CASE StartScan(w)
        BY <2>1 DEF StartScan, Waits, Subject, Free
    <2>2. CASE NextItem(w)
        BY <2>2 DEF NextItem, Waits, Subject, RateInv, Shape
    <2> QED BY <2>1, <2>2
<1>2. UNCHANGED <<state, rate, disturbed>>
    BY DEF StartScan, NextItem
<1>3. PICK t : Task(w, t) /\ t.pc = "state" /\ t.scan = scan
    BY <1>1 DEF GetOrCreatePatch
<1>4. Shape(t) /\ Subject(t) = {m[1] : m \in scan} /\ \A d : ~Counts(t, d)
    BY <1>1, <1>3 DEF Shape, Subject, Counts
<1>5. \A d : Same(d)
    BY <1>2, SameRows
<1>6. \A d \in Devices : d \in Subject(t) \/ (Waits(d) \/ d \in Subject(task[w]) => Waits(d)')
    BY <1>1, <1>4
<1> QED BY <1>2, <1>3, <1>4, <1>5, <1>6, TaskStep DEF RateInv

LEMMA UpdateStep == ASSUME RateInv, NEW w \in Workers, UpdateOrCreateState(w) PROVE RateInv'
<1> DEFINE t == task[w]
           p == t.patch
<1>1. t.pc = "state" /\ UNCHANGED <<rate, inbox, refreshQ>>
    BY DEF UpdateOrCreateState
<1>2. PICK m \in t.scan :
        \/ Task(w, Idle) /\ disturbed' = disturbed \cup {m[1]} /\ UNCHANGED state
        \/ /\ state' = [state EXCEPT ![<<m[1], p>>] = IF m[2][p] THEN "installed" ELSE "missing"]
           /\ disturbed' = IF state' # state /\ Counted(w, m[1]) THEN disturbed \cup {m[1]}
                           ELSE disturbed
           /\ Task(w, IF t.items = {p} THEN [pc |-> "total", scan |-> t.scan, device |-> m[1]]
                      ELSE [pc |-> "patch", scan |-> t.scan, items |-> t.items \ {p}])
    BY DEF UpdateOrCreateState
<1>3. t.scan # {} /\ (\A n \in t.scan : n[1] = m[1]) /\ Subject(t) = {m[1]}
    BY <1>1, <1>2 DEF RateInv, Shape, Subject
<1>4. \A d : Waits(d)' = Waits(d)
    BY <1>1 DEF Waits
<1>5. CASE Task(w, Idle) /\ disturbed' = disturbed \cup {m[1]} /\ UNCHANGED state
    <2>1. Shape(Idle) /\ Subject(Idle) = {} /\ \A d : ~Counts(Idle, d)
        BY DEF Shape, Subject, Counts, Idle
    <2>2. \A d : Same(d)
        BY <1>5, SameRows
    <2>3. \A d \in Devices \ disturbed' :
            d \notin disturbed /\ (Waits(d) \/ d \in Subject(task[w]) => Waits(d)')
        BY <1>3, <1>4, <1>5
    <2> QED BY <1>1, <1>5, <2>1, <2>2, <2>3, TaskStep DEF RateInv
<1>6. ASSUME NEW to, Task(w, to), to.pc \in {"patch", "total"}, to.scan = t.scan,
             to.pc = "total" => to.device = m[1],
             state' = [state EXCEPT ![<<m[1], p>>] = IF m[2][p] THEN "installed" ELSE "missing"],
             disturbed' = IF state' # state /\ Counted(w, m[1]) THEN disturbed \cup {m[1]}
                          ELSE disturbed
      PROVE  RateInv'
    <2>1. Shape(to) /\ Subject(to) = {m[1]} /\ \A d : ~Counts(to, d)
        BY <1>3, <1>6 DEF Shape, Subject, Counts
    <2>2. ASSUME NEW d \in Devices, d # m[1] PROVE Same(d)
        <3>1. \A q \in Patches : state'[<<d, q>>] = state[<<d, q>>]
            BY <1>6, <2>2 DEF RateInv
        <3> QED BY <3>1 DEF Same, Rows, Exact, Installed
    <2>3. ASSUME NEW d \in Devices \ disturbed', d = m[1]
          PROVE  (d \notin disturbed /\ Same(d)) \/ \A v \in Workers \ {w} : ~Counts(task[v], d)
        BY <1>6, <2>3, SameRows DEF Counted
    <2>4. state' = [x \in Devices \X Patches |-> state'[x]]
        BY <1>6 DEF RateInv
    <2>5. \A d \in Devices \ disturbed' : d \notin disturbed
        BY <1>6
    <2>6. \A d : d # m[1] /\ (Waits(d) \/ d \in Subject(task[w])) => Waits(d)'
        BY <1>3, <1>4
    <2> QED BY <1>1, <1>6, <2>1, <2>2, <2>3, <2>4, <2>5, <2>6, TaskStep DEF RateInv
<1>7. CASE /\ state' = [state EXCEPT ![<<m[1], p>>] = IF m[2][p] THEN "installed" ELSE "missing"]
           /\ disturbed' = IF state' # state /\ Counted(w, m[1]) THEN disturbed \cup {m[1]}
                           ELSE disturbed
           /\ Task(w, IF t.items = {p} THEN [pc |-> "total", scan |-> t.scan, device |-> m[1]]
                      ELSE [pc |-> "patch", scan |-> t.scan, items |-> t.items \ {p}])
    <2> DEFINE to == IF t.items = {p} THEN [pc |-> "total", scan |-> t.scan, device |-> m[1]]
                     ELSE [pc |-> "patch", scan |-> t.scan, items |-> t.items \ {p}]
    <2>1. to.pc \in {"patch", "total"} /\ to.scan = t.scan /\ (to.pc = "total" => to.device = m[1])
        OBVIOUS
    <2>2. Task(w, to)
        BY <1>7
    <2> HIDE DEF to
    <2> QED BY <1>6, <1>7, <2>1, <2>2
<1> QED BY <1>2, <1>5, <1>7

LEMMA CountStep ==
    ASSUME RateInv, NEW w \in Workers, StartRefresh(w) \/ CountTotal(w) PROVE RateInv'
<1>1. PICK scan, d : /\ CountRows(w, scan, d) /\ \A m \in scan : m[1] = d
                     /\ \A c : c # d /\ (Waits(c) \/ c \in Subject(task[w])) => Waits(c)'
    <2>1. CASE StartRefresh(w)
        BY <2>1 DEF StartRefresh, Waits, Subject, Free
    <2>2. CASE CountTotal(w)
        BY <2>2 DEF CountTotal, Waits, Subject, RateInv, Shape
    <2> QED BY <2>1, <2>2
<1>2. UNCHANGED <<state, rate>>
    BY DEF StartRefresh, CountTotal
<1>3. PICK t : /\ t = [pc |-> "installed", scan |-> scan, device |-> d, total |-> Cardinality(Rows(d))]
               /\ Task(w, t)
    BY <1>1 DEF CountRows
<1>4. Shape(t) /\ Subject(t) = {d}
    BY <1>1, <1>3 DEF Shape, Subject
<1>5. \A c : Same(c)
    BY <1>2, SameRows
<1>6. \A c \in Devices : Counts(t, c) => Fresh(t, c)'
    BY <1>3, <1>5 DEF Counts, Fresh, Same
<1>7. \A c \in Devices \ disturbed' :
        c \notin disturbed \/ (c = d /\ \A v \in Workers \ {w} : ~Counts(task[v], c))
    BY <1>1 DEF CountRows, Counted
<1> QED BY <1>1, <1>2, <1>3, <1>4, <1>5, <1>6, <1>7, TaskStep DEF RateInv

LEMMA CountInstalledStep == ASSUME RateInv, NEW w \in Workers, CountInstalled(w) PROVE RateInv'
<1> PICK d : d = task[w].device
    OBVIOUS
<1> PICK t : t = [pc |-> "save", scan |-> task[w].scan, device |-> d,
                  rate |-> RateOf(Cardinality(Installed(d)), task[w].total)]
    OBVIOUS
<1>1. /\ task[w].pc = "installed" /\ Task(w, t)
      /\ UNCHANGED <<state, rate, inbox, refreshQ, disturbed>>
    BY DEF CountInstalled
<1>2. \A c : Same(c) /\ Waits(c)' = Waits(c)
    BY <1>1, SameRows DEF Waits
<1>3. Shape(t) /\ Subject(t) = {d} /\ Subject(task[w]) = {d}
    BY <1>1 DEF Shape, Subject, RateInv
<1>4. ASSUME NEW c \in Devices \ disturbed, Counts(t, c) PROVE Fresh(t, c)'
    <2>1. c = d /\ Fresh(task[w], c)
        BY <1>1, <1>4 DEF RateInv, Counts
    <2>2. t.rate = Exact(c)
        BY <1>1, <2>1 DEF Fresh, Exact
    <2> QED BY <1>2, <2>2 DEF Fresh, Same
<1> QED BY <1>1, <1>2, <1>3, <1>4, TaskStep DEF RateInv

LEMMA SaveStep == ASSUME RateInv, NEW w \in Workers, SaveRate(w) PROVE RateInv'
<1> DEFINE d == task[w].device
<1>1. /\ task[w].pc = "save" /\ Task(w, Idle) /\ rate' = [rate EXCEPT ![d] = task[w].rate]
      /\ UNCHANGED <<state, inbox, refreshQ, disturbed>>
    BY DEF SaveRate
<1>2. \A c : Same(c) /\ Waits(c)' = Waits(c)
    BY <1>1, SameRows DEF Waits
<1>3. Shape(Idle) /\ (\A c : ~Counts(Idle, c)) /\ Subject(task[w]) = {d}
    BY <1>1 DEF Shape, Subject, Counts, Idle
<1>4. ASSUME NEW c \in Devices \ disturbed PROVE rate'[c] = Exact(c)' \/ (c # d /\ rate'[c] = rate[c])
    <2>1. CASE c = d
        <3>1. task[w].rate = Exact(c)
            BY <1>1, <2>1 DEF RateInv, Counts, Fresh
        <3>2. rate'[c] = task[w].rate
            BY <1>1, <2>1 DEF RateInv
        <3> QED BY <1>2, <3>1, <3>2 DEF Same
    <2>2. CASE c # d
        BY <1>1, <2>2 DEF RateInv
    <2> QED BY <2>1, <2>2
<1>5. rate' = [c \in Devices |-> rate'[c]]
    BY <1>1 DEF RateInv
<1> HIDE DEF d
<1> QED BY <1>1, <1>2, <1>3, <1>4, <1>5, TaskStep DEF RateInv

LEMMA LoseStep == ASSUME RateInv, NEW w \in Workers, Lose(w) PROVE RateInv'
<1>1. Task(w, Idle) /\ task[w].pc # "idle" /\ UNCHANGED <<state, rate>>
    BY DEF Lose
<1>2. Shape(Idle) /\ Subject(Idle) = {} /\ \A c : ~Counts(Idle, c)
    BY DEF Shape, Subject, Counts, Idle
<1>3. \A c : Same(c)
    BY <1>1, SameRows
<1>4. ASSUME NEW c \in Devices \ disturbed'
      PROVE  c \notin disturbed /\ (Waits(c) \/ c \in Subject(task[w]) => Waits(c)')
    <2>1. CASE disturbed' = disturbed \cup Subject(task[w]) /\ UNCHANGED <<inbox, refreshQ>>
        BY <2>1 DEF Waits
    <2>2. CASE /\ inbox' = inbox \cup task[w].scan /\ UNCHANGED disturbed
               /\ refreshQ' = IF task[w].scan = {} THEN refreshQ \cup Subject(task[w]) ELSE refreshQ
        <3>1. ASSUME c \in Subject(task[w]), task[w].scan # {} PROVE \E m \in task[w].scan : m[1] = c
            BY <1>1, <3>1 DEF Subject, RateInv, Shape
        <3> QED BY <2>2, <3>1 DEF Waits
    <2> QED BY <2>1, <2>2 DEF Lose
<1> QED BY <1>1, <1>2, <1>3, <1>4, TaskStep DEF RateInv

LEMMA destroyStep == ASSUME RateInv, NEW p \in Patches, destroy(p) PROVE RateInv'
<1>1. /\ state' = [x \in Devices \X Patches |-> IF x[2] = p THEN "none" ELSE state[x]]
      /\ disturbed' = disturbed \cup {d \in Devices : p \in Rows(d)}
      /\ UNCHANGED <<rate, task, inbox, refreshQ>>
    BY DEF destroy
<1>2. ASSUME NEW d \in Devices \ disturbed' PROVE d \notin disturbed /\ Same(d)
    <2>1. \A q \in Patches : state'[<<d, q>>] = state[<<d, q>>]
        BY <1>1 DEF Rows
    <2> QED BY <1>1, <2>1 DEF Same, Rows, Exact, Installed
<1>3. \A d : Pending(d)' = Pending(d)
    BY <1>1 DEF Pending
<1>4. state' = [x \in Devices \X Patches |-> state'[x]]
    BY <1>1
<1> QED BY <1>1, <1>2, <1>3, <1>4 DEF RateInv, RateExplained, Fresh, Same

LEMMA RateStep == RateInv /\ [Next]_vars => RateInv'
<1> SUFFICES ASSUME RateInv, [Next]_vars PROVE RateInv'
    OBVIOUS
<1>1. ASSUME NEW u \in Users, Arrive(u) \/ Request(u) \/ Kill(u) PROVE RateInv'
    <2>1. UNCHANGED <<complianceVars, state>>
        BY <1>1 DEF Arrive, approve, reject, review, bulk_approve, bulk_reject, partial_update,
            create_deployment, Read, Request, Refuse, transition, SaveUpdate, SaveFails, Log,
            LogFails, Deploy, Kill
    <2> QED BY <2>1, OtherStep DEF complianceVars
<1>2. ASSUME NEW p \in Patches, create(p) PROVE RateInv'
    BY <1>2, OtherStep DEF create, complianceVars
<1>3. ASSUME NEW d \in Devices, ingest_scan(d) \/ ingest_slow_lane(d) PROVE RateInv'
    BY <1>3, OtherStep DEF ingest_scan, ingest_slow_lane, Enqueue
<1>4. CASE Recount
    <2>1. refreshQ \cap Devices \subseteq refreshQ'
        BY <1>4 DEF Recount
    <2> QED BY <1>4, <2>1, OtherStep DEF Recount
<1>5. ASSUME NEW w \in Workers, Work(w) PROVE RateInv'
    BY <1>5, ScanStep, UpdateStep, CountStep, CountInstalledStep, SaveStep DEF Work
<1>6. CASE UNCHANGED vars
    BY <1>6, OtherStep DEF vars, complianceVars
<1> QED BY <1>1, <1>2, <1>3, <1>4, <1>5, <1>6, LoseStep, destroyStep DEF Next

(* A wrong rate has a cause: a count is due, rows changed under a count, a *)
(* patch was deleted, or a task was lost or failed.  Counts of a device    *)
(* that do not overlap with a change of its rows store what they say:      *)
(* process_scan_results and refresh_device_compliance.                     *)
THEOREM RateExplainedHolds == Spec => []RateExplained
<1>1. RateInv => RateExplained
    BY DEF RateInv
<1> QED BY <1>1, InitRates, RateStep, PTL DEF Spec
===============================================================================
