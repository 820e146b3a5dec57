---------------------------- MODULE AccountsProofs ----------------------------
(***************************************************************************)
(* The lockout of Accounts holds for any number of requests and attempts.  *)
(***************************************************************************)
EXTENDS Accounts, TLAPS

(* A row whose attempts were used up by failures is locked.                *)
Armed(row) == (row.failed >= MaxAttempts /\ ~row.given) => row.locked # "no"

(* The columns that only make sense together.                              *)
Lockout == {"locked"} \cup Counter

(* What a request may write of its row keeps the stored one armed: lock    *)
(* and counter, neither, or a permanent lock.  One that found a permanent lock *)
(* and does not unlock still holds it.                                     *)
SafeSave(q) ==
    /\ q.pc \in {"hook", "write", "insert"} => Armed(q.copy)
    /\ q.pc \in {"hook", "write"} =>
         \/ Lockout \subseteq q.saves
         \/ Lockout \cap q.saves = {}
         \/ q.saves = {"locked"} /\ q.copy.locked = "permanent"
    /\ q.pc \in {"hook", "write"} /\ q.does # "unlock" /\ q.started = "permanent" =>
         q.copy.locked = "permanent"
    /\ q.pc \in {"authenticate", "count", "reset"} => q.started # "permanent"

ArmedInv ==
    /\ TypeOK
    /\ Armed(user)
    /\ \A r \in Requests : SafeSave(request[r])

-----------------------------------------------------------------------------
(* Rows *)

LEMMA NewUserArmed ==
    ASSUME NEW key \in Nat, NEW must \in BOOLEAN
    PROVE  NewUser(key, must) \in Users /\ Armed(NewUser(key, must))
BY BoundsAssumption DEF NewUser, Users, Armed, Locks

(* The values that a handler sets fit the columns.                         *)
Fits(sets) ==
    /\ "key" \notin DOMAIN sets
    /\ "password" \in DOMAIN sets => sets.password \in Nat
    /\ "must" \in DOMAIN sets => sets.must \in BOOLEAN
    /\ "active" \in DOMAIN sets => sets.active \in BOOLEAN
    /\ "failed" \in DOMAIN sets => sets.failed \in Int
    /\ "given" \in DOMAIN sets => sets.given \in BOOLEAN
    /\ "locked" \in DOMAIN sets => sets.locked \in Locks

LEMMA AssignType ==
    ASSUME NEW row \in Users, NEW sets, Fits(sets)
    PROVE  /\ Assign(row, sets) \in Users
           /\ Assign(row, sets).failed = IF "failed" \in DOMAIN sets THEN sets.failed ELSE row.failed
           /\ Assign(row, sets).given = IF "given" \in DOMAIN sets THEN sets.given ELSE row.given
           /\ Assign(row, sets).locked = IF "locked" \in DOMAIN sets THEN sets.locked ELSE row.locked
BY DEF Assign, Users, Columns, Counter, Fits

(* The rows that views begin to save.                                      *)
SafeHandler(h) ==
    /\ h.does \in {"login", "save", "unlock", "reset"}
    /\ h.saves \subseteq Columns
    /\ Fits(h.sets)
    /\ \/ Lockout \subseteq h.saves
       \/ Lockout \cap h.saves = {}
       \/ h.saves = {"locked"} /\ "locked" \in DOMAIN h.sets /\ h.sets.locked = "permanent"
    /\ \/ {"failed", "given", "locked"} \cap DOMAIN h.sets = {}
       \/ "locked" \in DOMAIN h.sets /\ h.sets.locked # "no"
       \/ "failed" \in DOMAIN h.sets /\ h.sets.failed = 0
       \/ "given" \in DOMAIN h.sets /\ h.sets.given
    /\ h.does # "unlock" /\ "locked" \in DOMAIN h.sets => h.sets.locked = "permanent"

LEMMA ChangesSafe ==
    ASSUME inputs \in Nat, NEW h \in Changes
    PROVE  SafeHandler(h)
<1>1. CASE h \in {update_profile, auth_change_role, provision_saml_user}
    BY <1>1 DEF SafeHandler, Fits, Handler, None, Columns, Counter, Lockout, update_profile,
        auth_change_role, provision_saml_user
<1>5. CASE h \in {auth_lock, lock}
    BY <1>5 DEF SafeHandler, Fits, Handler, Columns, Counter, Lockout, Locks, auth_lock, lock
<1>6. CASE h \in {auth_unlock, unlock}
    <2>1. Fits(NoFailures) /\ NoFailures.failed = 0 /\ "failed" \in DOMAIN NoFailures
        BY DEF Fits, NoFailures, Locks
    <2> QED BY <1>6, <2>1 DEF SafeHandler, Handler, Columns, Counter, Lockout, auth_unlock, unlock
<1>2. CASE h \in {change_password(inputs + 1), auth_reset_password(inputs + 1),
                   reset_password(inputs + 1)}
    <2>1. inputs + 1 \in Nat
        OBVIOUS
    <2>2. \E must \in BOOLEAN, does \in {"save", "reset"} :
            h = Handler(does, [password |-> inputs + 1, must |-> must], Columns)
        BY <1>2 DEF change_password, auth_reset_password, reset_password
    <2> QED BY <2>1, <2>2 DEF SafeHandler, Fits, Handler, Columns, Counter, Lockout
<1>3. CASE \E a \in BOOLEAN : h \in {auth_partial_update(a), partial_update(a)}
    BY <1>3 DEF SafeHandler, Fits, Handler, Columns, Counter, Lockout, auth_partial_update,
        partial_update
<1>4. CASE \E a \in BOOLEAN, n \in Numbers : h = auth_update(a, n)
    <2>1. PICK a \in BOOLEAN, n \in Numbers : h = auth_update(a, n)
        BY <1>4
    <2>2. n \in Int
        BY BoundsAssumption
    <2> DEFINE sets == [active |-> a, failed |-> n, given |-> TRUE]
    <2>3. Fits(sets) /\ "given" \in DOMAIN sets /\ sets.given /\ "locked" \notin DOMAIN sets
        BY <2>2 DEF Fits
    <2>4. h.sets = sets /\ h.does = "save" /\ h.saves = Columns
        BY <2>1 DEF auth_update, Handler
    <2> HIDE DEF sets
    <2> QED BY <2>3, <2>4 DEF SafeHandler, Columns, Counter, Lockout
<1> QED BY <1>1, <1>2, <1>3, <1>4, <1>5, <1>6 DEF Changes

LEMMA SavingSafe ==
    ASSUME user \in Users, NEW h, SafeHandler(h), NEW started \in Locks,
           Armed(Assign(user, h.sets)),
           h.does # "unlock" /\ started = "permanent" => Assign(user, h.sets).locked = "permanent"
    PROVE  Saving(h, started) \in Saves /\ SafeSave(Saving(h, started))
<1>1. /\ Assign(user, h.sets) \in Users
      /\ "locked" \in DOMAIN h.sets => Assign(user, h.sets).locked = h.sets.locked
    BY AssignType DEF SafeHandler
<1> QED BY <1>1 DEF Saving, Saves, SafeSave, SafeHandler

-----------------------------------------------------------------------------
(* Steps *)

LEMMA InitArmed == Init => ArmedInv
<1> SUFFICES ASSUME Init PROVE ArmedInv
    OBVIOUS
<1>1. user \in Users /\ Armed(user)
    BY NewUserArmed DEF Init
<1>2. \A r \in Requests : SafeSave(request[r])
    BY DEF Init, SafeSave, Idle
<1>3. exists \in BOOLEAN
    BY DEF Init
<1>4. inputs \in 0 .. MaxInputs
    BY BoundsAssumption DEF Init
<1>5. request \in [Requests -> {Idle} \cup Attempts \cup Saves \cup Inserts]
    BY DEF Init
<1> QED BY <1>1, <1>2, <1>3, <1>4, <1>5 DEF ArmedInv, TypeOK

(* Steps that put a safe state in a request's place and leave the row      *)
(* armed.                                                                  *)
RequestStates == {Idle} \cup Attempts \cup Saves \cup Inserts

LEMMA RequestStep ==
    ASSUME ArmedInv, NEW r \in Requests, NEW next \in RequestStates, SafeSave(next), Step(r, next),
           exists' \in BOOLEAN, inputs' \in 0 .. MaxInputs,
           user' \in Users, Armed(user')
    PROVE  ArmedInv'
<1>1. request' = [request EXCEPT ![r] = next]
    BY DEF Step
<1>2. request' \in [Requests -> RequestStates]
    BY <1>1 DEF ArmedInv, TypeOK, RequestStates
<1>3. \A q \in Requests : SafeSave(request'[q])
    BY <1>1 DEF ArmedInv, TypeOK
<1> QED BY <1>2, <1>3 DEF ArmedInv, TypeOK, RequestStates, Armed, SafeSave

LEMMA AttemptSafe ==
    ASSUME NEW pc \in {"authenticate", "count", "reset"}, NEW number \in Nat,
           NEW started \in Locks \ {"permanent"}
    PROVE  Attempt(pc, started, number) \in RequestStates /\ SafeSave(Attempt(pc, started, number))
BY DEF Attempt, Attempts, RequestStates, SafeSave

LEMMA IdleSafe == Idle \in RequestStates /\ SafeSave(Idle)
BY DEF Idle, RequestStates, SafeSave

(* A request in the given state is of the given kind.                      *)
LEMMA Kinds ==
    ASSUME ArmedInv, NEW r \in Requests
    PROVE  /\ request[r].pc \in {"authenticate", "count", "reset"} => request[r] \in Attempts
           /\ request[r].pc \in {"hook", "write"} => request[r] \in Saves
           /\ request[r].pc = "insert" => request[r] \in Inserts
           /\ SafeSave(request[r])
BY DEF ArmedInv, TypeOK, Idle, Attempts, Saves, Inserts

LEMMA ReadStep == ASSUME ArmedInv, NEW r \in Requests, NEW h \in Changes, Read(r, h) PROVE ArmedInv'
<1>1. user \in Users /\ Armed(user) /\ inputs \in Nat /\ inputs' \in 0 .. MaxInputs
    BY BoundsAssumption DEF ArmedInv, TypeOK, Read, Arrives
<1>2. SafeHandler(h)
    BY <1>1, ChangesSafe
<1>3. Armed(Assign(user, h.sets))
    BY <1>1, <1>2, AssignType, BoundsAssumption DEF Armed, SafeHandler
<1>4. user.locked \in Locks
    BY <1>1 DEF Users
<1>5. h.does # "unlock" /\ user.locked = "permanent" => Assign(user, h.sets).locked = "permanent"
    BY <1>1, <1>2, AssignType DEF SafeHandler
<1>6. Saving(h, user.locked) \in RequestStates /\ SafeSave(Saving(h, user.locked))
    BY <1>1, <1>2, <1>3, <1>4, <1>5, SavingSafe DEF RequestStates
<1> QED BY <1>1, <1>6, RequestStep DEF Read, ArmedInv, TypeOK

LEMMA LoginStep == ASSUME ArmedInv, NEW r \in Requests, Login(r) PROVE ArmedInv'
<1>1. user \in Users /\ Armed(user) /\ inputs' \in 0 .. MaxInputs /\ inputs' \in Nat
    BY BoundsAssumption DEF ArmedInv, TypeOK, Login, Arrives
<1> DEFINE next == IF exists /\ IsLocked(user.locked) THEN Idle
                   ELSE Attempt("authenticate", IF exists THEN user.locked ELSE "no", inputs')
<1>2. next \in RequestStates /\ SafeSave(next)
    <2>1. CASE exists /\ IsLocked(user.locked)
        BY <2>1, IdleSafe
    <2>2. CASE ~(exists /\ IsLocked(user.locked))
        <3>1. (IF exists THEN user.locked ELSE "no") \in Locks \ {"permanent"}
            BY <1>1, <2>2 DEF Users, Locks, IsLocked
        <3> QED BY <1>1, <2>2, <3>1, AttemptSafe
    <2> QED BY <2>1, <2>2
<1>3. Step(r, next)
    BY DEF Login
<1> HIDE DEF next
<1> QED BY <1>1, <1>2, <1>3, RequestStep DEF Login, ArmedInv, TypeOK

LEMMA AuthenticateStep ==
    ASSUME ArmedInv, NEW r \in Requests, Authenticate(r) \/ AuthenticateLdap(r)
    PROVE  ArmedInv'
<1>1. /\ request[r] \in Attempts /\ user \in Users /\ Armed(user)
      /\ exists \in BOOLEAN /\ inputs \in 0 .. MaxInputs
    BY Kinds DEF Authenticate, AuthenticateLdap, ArmedInv, TypeOK
<1>2. request[r].started \in Locks \ {"permanent"} /\ request[r].number \in Nat
    BY <1>1, Kinds DEF Attempts, SafeSave
<1>3. CASE Authenticate(r)
    <2>1. PICK right \in BOOLEAN :
            Step(r, Attempt(IF right THEN "reset" ELSE "count", request[r].started,
                            request[r].number))
        BY <1>3 DEF Authenticate
    <2>2. (IF right THEN "reset" ELSE "count") \in {"authenticate", "count", "reset"}
        OBVIOUS
    <2> QED BY <1>1, <1>2, <1>3, <2>1, <2>2, AttemptSafe, RequestStep DEF Authenticate
<1>4. CASE AuthenticateLdap(r)
    <2>1. user' \in Users /\ Armed(user')
        <3>1. CASE exists
            BY <1>1, <1>4, <3>1 DEF AuthenticateLdap, Users, Armed
        <3>2. CASE ~exists
            BY <1>2, <1>4, <3>2, NewUserArmed DEF AuthenticateLdap
        <3> QED BY <3>1, <3>2
    <2>2. (IF user'.active THEN "reset" ELSE "count") \in {"authenticate", "count", "reset"}
        OBVIOUS
    <2>3. /\ Step(r, Attempt(IF user'.active THEN "reset" ELSE "count", request[r].started,
                             request[r].number))
          /\ exists' \in BOOLEAN /\ inputs' = inputs
        BY <1>4 DEF AuthenticateLdap
    <2> QED BY <1>1, <1>2, <2>1, <2>2, <2>3, AttemptSafe, RequestStep
<1> QED BY <1>3, <1>4

LEMMA OutcomeStep ==
    ASSUME ArmedInv, NEW r \in Requests, CountFailure(r) \/ ResetFailures(r)
    PROVE  ArmedInv'
<1>1. /\ request[r] \in Attempts /\ user \in Users /\ Armed(user)
      /\ exists \in BOOLEAN /\ inputs \in 0 .. MaxInputs
    BY Kinds DEF CountFailure, ResetFailures, ArmedInv, TypeOK
<1>2. request[r].started \in Locks \ {"permanent"}
    BY <1>1, Kinds DEF Attempts, SafeSave
<1> DEFINE counted == Handler("login", Failure, Lockout)
           reset == Handler("login", NoFailures, Lockout)
<1>3. /\ Saving(counted, request[r].started) \in RequestStates
      /\ SafeSave(Saving(counted, request[r].started))
    <2>1. Fits(Failure) /\ Armed(Failure) /\ {"failed", "given", "locked"} = DOMAIN Failure
        BY <1>1 DEF Failure, Fits, Armed, Users, Locks
    <2>2. counted.sets = Failure /\ counted.saves = Lockout /\ counted.does = "login"
        BY DEF Handler
    <2>3. /\ Assign(user, Failure) \in Users
          /\ Assign(user, Failure).failed = Failure.failed
          /\ Assign(user, Failure).given = Failure.given
          /\ Assign(user, Failure).locked = Failure.locked
        BY <1>1, <2>1, AssignType
    <2>4. Armed(Assign(user, Failure))
        BY <2>1, <2>3 DEF Armed
    <2> HIDE DEF counted
    <2> QED BY <1>2, <2>2, <2>3, <2>4 DEF Saving, Saves, SafeSave, RequestStates, Columns, Lockout, Counter
<1>4. /\ Saving(reset, request[r].started) \in RequestStates
      /\ SafeSave(Saving(reset, request[r].started))
    <2> DEFINE zero == NoFailures
    <2>1. Fits(zero) /\ "failed" \in DOMAIN zero /\ zero.failed = 0
        BY DEF NoFailures, Fits, Locks
    <2>2. reset.sets = zero /\ reset.saves = Lockout /\ reset.does = "login"
        BY DEF Handler
    <2>3. Assign(user, zero) \in Users /\ Assign(user, zero).failed = 0
        BY <1>1, <2>1, AssignType
    <2>4. Armed(Assign(user, zero))
        BY <2>3, BoundsAssumption DEF Armed
    <2> HIDE DEF reset, zero
    <2> QED BY <1>2, <2>2, <2>3, <2>4 DEF Saving, Saves, SafeSave, RequestStates, Columns, Lockout, Counter
<1>5. \E next \in {Saving(counted, request[r].started), Saving(reset, request[r].started), Idle} :
        Step(r, next)
    BY DEF CountFailure, ResetFailures, Lockout
<1> HIDE DEF counted, reset
<1> QED BY <1>1, <1>3, <1>4, <1>5, IdleSafe, RequestStep DEF CountFailure, ResetFailures

LEMMA HookStep == ASSUME ArmedInv, NEW r \in Requests, Hook(r) PROVE ArmedInv'
<1>1. /\ request[r] \in Saves /\ SafeSave(request[r]) /\ user \in Users /\ Armed(user)
      /\ request[r].pc = "hook"
    BY Kinds DEF Hook, ArmedInv, TypeOK
<1> DEFINE copy == request[r].copy
           next == [request[r] EXCEPT !.pc = "write", !.copy = Hooked(copy)]
<1>2. copy \in Users
    BY <1>1 DEF Saves
<1>3. /\ Hooked(copy) \in Users /\ Hooked(copy).failed = copy.failed
      /\ Hooked(copy).given = copy.given /\ Hooked(copy).locked = copy.locked
    BY <1>2 DEF Hooked, Users
<1>4. /\ next.pc = "write" /\ next.copy = Hooked(copy) /\ next.saves = request[r].saves
      /\ next.does = request[r].does /\ next.started = request[r].started
      /\ next \in Saves
    BY <1>1, <1>3 DEF Saves
<1>5. SafeSave(next)
    BY <1>1, <1>3, <1>4 DEF SafeSave, Armed
<1>6. Step(r, next)
    BY DEF Hook
<1> HIDE DEF next
<1> QED BY <1>1, <1>4, <1>5, <1>6, RequestStep DEF Hook, ArmedInv, TypeOK, RequestStates

LEMMA WriteStep == ASSUME ArmedInv, NEW r \in Requests, Write(r) PROVE ArmedInv'
<1>1. /\ request[r] \in Saves /\ SafeSave(request[r]) /\ user \in Users /\ Armed(user)
      /\ request[r].pc = "write" /\ exists \in BOOLEAN
    BY Kinds DEF Write, ArmedInv, TypeOK
<1> DEFINE copy == request[r].copy
           saves == request[r].saves
<1>2. copy \in Users /\ saves \subseteq Columns /\ Armed(copy)
    BY <1>1 DEF Saves, SafeSave
<1>3. user' \in Users /\ Armed(user')
    <2>1. CASE user' = [c \in Columns |-> IF c \in saves THEN copy[c] ELSE user[c]]
        <3>1. /\ user' \in Users
              /\ user'.failed = IF "failed" \in saves THEN copy.failed ELSE user.failed
              /\ user'.given = IF "given" \in saves THEN copy.given ELSE user.given
              /\ user'.locked = IF "locked" \in saves THEN copy.locked ELSE user.locked
            BY <1>1, <1>2, <2>1 DEF Users, Columns, Counter
        <3> QED BY <1>1, <1>2, <3>1 DEF SafeSave, Armed, Lockout, Counter
    <2>2. CASE user' = copy \/ user' = user
        BY <1>1, <1>2, <2>2 DEF Armed
    <2> QED BY <2>1, <2>2 DEF Write
<1>4. Step(r, Idle) /\ exists' \in BOOLEAN /\ inputs' = inputs
    BY DEF Write
<1> QED BY <1>3, <1>4, IdleSafe, RequestStep DEF ArmedInv, TypeOK

LEMMA CreateStep ==
    ASSUME ArmedInv, NEW r \in Requests, (\E h \in Creations : CheckFree(r, h)) \/ Insert(r)
    PROVE  ArmedInv'
<1>1. /\ user \in Users /\ Armed(user) /\ exists \in BOOLEAN
      /\ inputs \in 0 .. MaxInputs
    BY DEF ArmedInv, TypeOK
<1>2. ASSUME NEW h \in Creations, CheckFree(r, h) PROVE ArmedInv'
    <2>1. h.sets.must \in BOOLEAN
        <3>1. \E must \in BOOLEAN : h = Handler("create", [must |-> must], Columns)
            BY DEF Creations, register, auto_create, import_csv, create
        <3> QED BY <3>1 DEF Handler
    <2>2. inputs' \in 0 .. MaxInputs /\ inputs' \in Nat
        BY <1>1, <1>2, BoundsAssumption DEF CheckFree, Arrives
    <2> DEFINE new == NewUser(inputs', h.sets.must)
               next == [pc |-> "insert", copy |-> new]
    <2>3. new \in Users /\ Armed(new)
        BY <2>1, <2>2, NewUserArmed
    <2>4. Step(r, next)
        BY <1>2 DEF CheckFree
    <2> HIDE DEF new
    <2>5. next \in RequestStates /\ SafeSave(next)
        BY <2>3 DEF RequestStates, Inserts, SafeSave
    <2> HIDE DEF next
    <2> QED BY <1>1, <1>2, <2>2, <2>4, <2>5, RequestStep DEF CheckFree
<1>3. CASE Insert(r)
    <2>1. request[r].copy \in Users /\ Armed(request[r].copy)
        BY <1>3, Kinds DEF Insert, Inserts, SafeSave
    <2>2. user' \in Users /\ Armed(user')
        BY <1>1, <1>3, <2>1 DEF Insert, Armed
    <2>3. Step(r, Idle) /\ exists' \in BOOLEAN /\ inputs' = inputs
        BY <1>3 DEF Insert
    <2> QED BY <1>1, <2>2, <2>3, IdleSafe, RequestStep
<1> QED BY <1>2, <1>3

LEMMA ExpireStep == ASSUME ArmedInv, Expire PROVE ArmedInv'
<1>1. ASSUME NEW row \in Users, Armed(row)
      PROVE  /\ Lapsed(row) \in Users /\ Armed(Lapsed(row))
             /\ row.locked = "permanent" => Lapsed(row).locked = "permanent"
    BY <1>1 DEF Lapsed, Users, Armed, Locks
<1>2. user' \in Users /\ Armed(user')
    BY <1>1 DEF Expire, ArmedInv, TypeOK
<1>3. ASSUME NEW r \in Requests PROVE request'[r] \in RequestStates /\ SafeSave(request'[r])
    <2>1. request[r] \in RequestStates /\ SafeSave(request[r])
        BY DEF ArmedInv, TypeOK, RequestStates
    <2>2. CASE request[r] \in Saves \cup Inserts
        <3>1. request'[r] = [request[r] EXCEPT !.copy = Lapsed(@)]
            BY <2>2 DEF Expire, Saves, Inserts
        <3>2. request[r].copy \in Users /\ Armed(request[r].copy)
            BY <2>1, <2>2 DEF Saves, Inserts, SafeSave
        <3>3. CASE request[r] \in Saves
            BY <1>1, <2>1, <3>1, <3>2, <3>3 DEF Saves, RequestStates, SafeSave
        <3>4. CASE request[r] \in Inserts
            BY <1>1, <3>1, <3>2, <3>4 DEF Inserts, RequestStates, SafeSave
        <3> QED BY <2>2, <3>3, <3>4
    <2>3. CASE request[r] \in {Idle} \cup Attempts
        BY <2>1, <2>3 DEF Expire, Idle, Attempts
    <2> QED BY <2>1, <2>2, <2>3 DEF RequestStates
<1>4. request' \in [Requests -> RequestStates]
    BY <1>3 DEF Expire
<1> QED BY <1>2, <1>3, <1>4 DEF Expire, ArmedInv, TypeOK, RequestStates, Armed, SafeSave

LEMMA ArmedStep == ArmedInv /\ [Next]_vars => ArmedInv'
<1> SUFFICES ASSUME ArmedInv, [Next]_vars PROVE ArmedInv'
    OBVIOUS
<1>1. ASSUME NEW r \in Requests, Destroy(r) PROVE ArmedInv'
    <2>1. exists' \in BOOLEAN /\ UNCHANGED <<user, request>>
        BY <1>1 DEF Destroy
    <2>2. inputs' \in 0 .. MaxInputs
        BY <1>1, BoundsAssumption DEF Destroy, Arrives, ArmedInv, TypeOK
    <2> QED BY <2>1, <2>2 DEF ArmedInv, TypeOK, Armed, SafeSave
<1>2. CASE UNCHANGED vars
    BY <1>2 DEF vars, ArmedInv, TypeOK, Armed, SafeSave
<1> QED BY <1>1, <1>2, LoginStep, AuthenticateStep, OutcomeStep, ReadStep, CreateStep, HookStep,
           WriteStep, ExpireStep DEF Next

-----------------------------------------------------------------------------
(* The results                                                             *)

(* Whatever views, logins and provisioning save over each other, the row   *)
(* keeps its columns' types: accounts/models.py, User.                     *)
THEOREM TypeCorrect == Spec => []TypeOK
<1>1. ArmedInv => TypeOK
    BY DEF ArmedInv
<1> QED BY <1>1, InitArmed, ArmedStep, PTL DEF Spec

(* An account whose attempts are used up was locked for it, whatever rows  *)
(* and pairs of columns are saved over each other: accounts/serializers.py *)
(* counts, and every view releases lock and counter together.              *)
THEOREM LockoutArmedHolds == Spec => []LockoutArmed
<1>1. ArmedInv => LockoutArmed
    BY DEF ArmedInv, Armed, LockoutArmed
<1> QED BY <1>1, InitArmed, ArmedStep, PTL DEF Spec

(* A permanent lock is lifted by unlocking, or overwritten by a request    *)
(* that had read the account before: users/views.py, UserViewSet.lock.     *)
THEOREM PermanentLock == Spec => PermanentLockHolds
<1> DEFINE Lifted == /\ exists /\ exists' /\ user.key = user'.key
                     /\ user.locked = "permanent" /\ user'.locked # "permanent"
           By(r) == /\ request[r] # request'[r]
                    /\ request[r].does = "unlock" \/ request[r].started # "permanent"
<1>1. ArmedInv /\ [Next]_vars => (Lifted => \E r \in Requests : By(r))
    <2> SUFFICES ASSUME ArmedInv, [Next]_vars, Lifted PROVE \E r \in Requests : By(r)
        OBVIOUS
    <2>1. ASSUME NEW r \in Requests, Write(r) PROVE By(r)
        <3>1. request[r] \in Saves /\ SafeSave(request[r]) /\ request[r].pc = "write"
            BY <2>1, Kinds DEF Write
        <3>2. request'[r] = Idle
            BY <2>1 DEF Write, Step, ArmedInv, TypeOK
        <3>3. request[r].copy.locked # "permanent"
            BY <2>1 DEF Write, Columns
        <3> QED BY <3>1, <3>2, <3>3 DEF SafeSave, Idle
    <2>2. ASSUME NEW r \in Requests, AuthenticateLdap(r) PROVE FALSE
        BY <2>2 DEF AuthenticateLdap, ArmedInv, TypeOK, Users
    <2>3. CASE Expire
        BY <2>3 DEF Expire
    <2>4. ASSUME NEW r \in Requests, Insert(r) PROVE FALSE
        BY <2>4 DEF Insert
    <2>5. user' # user
        OBVIOUS
    <2>6. ASSUME NEW r \in Requests,
                 \/ Login(r) \/ Authenticate(r) \/ CountFailure(r) \/ ResetFailures(r)
                 \/ (\E h \in Changes : Read(r, h)) \/ (\E h \in Creations : CheckFree(r, h))
                 \/ Hook(r) \/ Destroy(r)
          PROVE  FALSE
        BY <2>5, <2>6 DEF Login, Authenticate, CountFailure, ResetFailures, Read, CheckFree, Hook,
            Destroy
    <2> HIDE DEF Lifted, By
    <2> QED BY <2>1, <2>2, <2>3, <2>4, <2>5, <2>6 DEF Next, vars
<1>2. ArmedInv /\ [Next]_vars => [Lifted => \E r \in Requests : By(r)]_vars
    BY <1>1
<1> QED BY <1>2, InitArmed, ArmedStep, PTL DEF Spec, PermanentLockHolds

=============================================================================
