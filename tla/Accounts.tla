------------------------------- MODULE Accounts -------------------------------
(***************************************************************************)
(* One user account and the requests that read and save it: logins with    *)
(* the lockout that counts their failures, the endpoints of both user view *)
(* sets, of which some save the columns they change and some the whole row *)
(* they read, the save() hook, and the provisioning by LDAP and SAML.      *)
(* Every action is one database access with the local computation around   *)
(* it.  Left out is what no guard reads: roles, names, preferences, where  *)
(* an account is from (source, is_ldap_user).                              *)
(***************************************************************************)
EXTENDS Integers

CONSTANTS
    MaxAttempts,   \* AUTH_MAX_FAILED_ATTEMPTS
    MaxRequests,   \* bound: requests that are served at the same time
    MaxInputs,     \* bound: requests
    Numbers        \* the numbers of failures that an update may set

ASSUME BoundsAssumption ==
    /\ MaxAttempts \in Nat \ {0} /\ MaxRequests \in Nat /\ MaxInputs \in Nat
    /\ Numbers \subseteq Int

VARIABLES
    exists,   \* whether the account has a row
    user,     \* that row
    request,  \* what each request is about to do, and the row it has read
    inputs    \* requests so far

vars == <<exists, user, request, inputs>>

Requests == 1 .. MaxRequests
(* failed_login_attempts, with whether an administrator's update gave the  *)
(* number.                                                                 *)
Counter == {"failed", "given"}
Columns == {"key", "password", "must", "active", "locked"} \cup Counter
(* locked_until: not set, 30 minutes, 100 years, or over.                  *)
Locks == {"no", "timed", "permanent", "expired"}

IsLocked(l) == l \in {"timed", "permanent"}
Idle == [pc |-> "idle"]

(* A new account: its first password is 0, which it may have to change.    *)
NewUser(key, must) ==
    [key |-> key, password |-> 0, must |-> must, active |-> TRUE,
     failed |-> 0, given |-> FALSE, locked |-> "no"]

Users ==
    [key : Nat, password : Nat, must : BOOLEAN, active : BOOLEAN,
     failed : Int, given : BOOLEAN, locked : Locks]

Attempts == [pc : {"authenticate", "count", "reset"}, started : Locks, number : Nat]
Saves ==
    [pc : {"hook", "write"}, does : {"login", "save", "unlock", "reset"}, started : Locks,
     copy : Users, saves : SUBSET Columns]
Inserts == [pc : {"insert"}, copy : Users]

TypeOK ==
    /\ exists \in BOOLEAN
    /\ user \in Users
    /\ request \in [Requests -> {Idle} \cup Attempts \cup Saves \cup Inserts]
    /\ inputs \in 0 .. MaxInputs

Init ==
    /\ exists = TRUE
    /\ user = NewUser(0, TRUE)
    /\ request = [r \in Requests |-> Idle]
    /\ inputs = 0
-----------------------------------------------------------------------------
(* Handlers: the columns they set, and those that their save() writes.     *)

Handler(does, sets, saves) == [does |-> does, sets |-> sets, saves |-> saves]
None == [c \in {} |-> 0]

NoFailures == [failed |-> 0, given |-> FALSE, locked |-> "no"]

login == Handler("login", None, {})
(* The user that authentication read is saved whole.                       *)
change_password(p) == Handler("save", [password |-> p, must |-> FALSE], Columns)
update_profile == Handler("save", None, Columns)

(* /api/auth/users: every action saves the whole row.                      *)
auth_lock == Handler("save", [locked |-> "permanent"], Columns)
auth_unlock == Handler("unlock", NoFailures, Columns)
auth_reset_password(p) == Handler("reset", [password |-> p, must |-> TRUE], Columns)
auth_change_role == Handler("save", None, Columns)
(* A body may change is_active, and also failed_login_attempts, which      *)
(* UserSerializer takes as well.                                           *)
auth_partial_update(a) == Handler("save", [active |-> a], Columns)
auth_update(a, n) == Handler("save", [active |-> a, failed |-> n, given |-> TRUE], Columns)

(* Mutant of unlock: the failures stay.                                    *)
unlock_only == Handler("unlock", [locked |-> "no"], {"locked"})

(* /api/v1/users: lock and unlock save their columns only.                 *)
lock == Handler("save", [locked |-> "permanent"], {"locked"})
unlock == Handler("unlock", NoFailures, {"locked"} \cup Counter)
reset_password(p) == Handler("reset", [password |-> p, must |-> TRUE], Columns)
partial_update(a) == Handler("save", [active |-> a], Columns)

(* provision_saml_user saves the source of the account found by its email. *)
provision_saml_user == Handler("save", None, {})

(* New accounts, if there is none with the name.                           *)
register == Handler("create", [must |-> TRUE], Columns)
create(must) == Handler("create", [must |-> must], Columns)
import_csv == Handler("create", [must |-> TRUE], Columns)
auto_create == Handler("create", [must |-> FALSE], Columns)

destroy == Handler("destroy", None, {})

Changes ==
    {update_profile, auth_lock, auth_unlock, auth_change_role, lock, unlock, provision_saml_user}
    \cup {change_password(inputs + 1), auth_reset_password(inputs + 1), reset_password(inputs + 1)}
    \cup {auth_partial_update(a) : a \in BOOLEAN}
    \cup {auth_update(a, n) : a \in BOOLEAN, n \in Numbers}
    \cup {partial_update(a) : a \in BOOLEAN}

Creations == {register, auto_create, import_csv} \cup {create(must) : must \in BOOLEAN}
-----------------------------------------------------------------------------
(* Requests *)

Step(r, next) == request' = [request EXCEPT ![r] = next]

Arrives(r) ==
    /\ inputs < MaxInputs /\ inputs' = inputs + 1
    /\ request[r] = Idle /\ \A q \in 1 .. r - 1 : request[q] # Idle

Assign(row, sets) == [c \in Columns |-> IF c \in DOMAIN sets THEN sets[c] ELSE row[c]]

(* started: the lock that the request found.                               *)
Saving(h, started) ==
    [pc |-> "hook", does |-> h.does, started |-> started, copy |-> Assign(user, h.sets),
     saves |-> h.saves]

Read(r, h) ==
    /\ Arrives(r) /\ exists
    /\ Step(r, Saving(h, user.locked))
    /\ UNCHANGED <<exists, user>>

Attempt(pc, started, number) == [pc |-> pc, started |-> started, number |-> number]

(* Mutant of Login: no look at the lock.                                   *)
LoginAnyway(r) ==
    /\ Arrives(r)
    /\ Step(r, Attempt("authenticate", user.locked, inputs'))
    /\ UNCHANGED <<exists, user>>

(* A login first looks at the lock of the account, if there is one.        *)
Login(r) ==
    /\ Arrives(r)
    /\ Step(r, IF exists /\ IsLocked(user.locked) THEN Idle
               ELSE Attempt("authenticate", IF exists THEN user.locked ELSE "no", inputs'))
    /\ UNCHANGED <<exists, user>>

(* The credentials may be right; an inactive account has none.             *)
Authenticate(r) ==
    LET q == request[r]
    IN  /\ q.pc = "authenticate"
        /\ \E right \in BOOLEAN :
             /\ right => exists /\ user.active
             /\ Step(r, Attempt(IF right THEN "reset" ELSE "count", q.started, q.number))
        /\ UNCHANGED <<exists, user, inputs>>

(* LDAPBackend: update_or_create locks the row while it changes it, or     *)
(* makes one.                                                              *)
AuthenticateLdap(r) ==
    LET q == request[r]
    IN  /\ q.pc = "authenticate"
        /\ user' = IF exists THEN [user EXCEPT !.must = FALSE] ELSE NewUser(q.number, FALSE)
        /\ exists' = TRUE
        /\ Step(r, Attempt(IF user'.active THEN "reset" ELSE "count", q.started, q.number))
        /\ UNCHANGED inputs

Failure ==
    LET n == user.failed + 1
    IN  [failed |-> n, given |-> FALSE, locked |-> IF n >= MaxAttempts THEN "timed" ELSE user.locked]

(* validate() reads the row again and counts the failure.                  *)
CountFailure(r) ==
    /\ request[r].pc = "count"
    /\ Step(r, IF exists THEN Saving(Handler("login", Failure, {"locked"} \cup Counter),
                                     request[r].started)
               ELSE Idle)
    /\ UNCHANGED <<exists, user, inputs>>

(* Success resets the counter and the lock.                                *)
ResetFailures(r) ==
    /\ request[r].pc = "reset"
    /\ Step(r, IF exists
               THEN Saving(Handler("login", NoFailures, {"locked"} \cup Counter),
                           request[r].started)
               ELSE Idle)
    /\ UNCHANGED <<exists, user, inputs>>

(* User.save(): a password that is not the stored one was changed.         *)
Hooked(copy) ==
    [copy EXCEPT !.must = IF exists /\ user.key = copy.key /\ user.password # copy.password
                          THEN FALSE ELSE @]

Hook(r) ==
    /\ request[r].pc = "hook"
    /\ Step(r, [request[r] EXCEPT !.pc = "write", !.copy = Hooked(request[r].copy)])
    /\ UNCHANGED <<exists, user, inputs>>

(* The save: of some columns it fails without the row; of all it inserts   *)
(* the row again, unless the name was given to a new account.              *)
Write(r) ==
    LET q == request[r]
    IN  /\ q.pc = "write"
        /\ IF exists /\ user.key = q.copy.key
           THEN user' = [c \in Columns |-> IF c \in q.saves THEN q.copy[c] ELSE user[c]]
           ELSE user' = IF ~exists /\ q.saves = Columns THEN q.copy ELSE user
        /\ exists' = (exists \/ q.saves = Columns)
        /\ Step(r, Idle)
        /\ UNCHANGED inputs

(* The check that the name is free, and the insert, which it may fail.     *)
CheckFree(r, h) ==
    /\ Arrives(r) /\ ~exists
    /\ Step(r, [pc |-> "insert", copy |-> NewUser(inputs', h.sets.must)])
    /\ UNCHANGED <<exists, user>>

Insert(r) ==
    /\ request[r].pc = "insert"
    /\ user' = IF exists THEN user ELSE request[r].copy
    /\ exists' = TRUE
    /\ Step(r, Idle)
    /\ UNCHANGED inputs

Destroy(r) ==
    /\ Arrives(r) /\ exists
    /\ exists' = FALSE
    /\ UNCHANGED <<user, request>>

(* Thirty minutes pass.                                                    *)
Lapsed(row) == [row EXCEPT !.locked = IF @ = "timed" THEN "expired" ELSE @]

Expire ==
    /\ user.locked = "timed"
    /\ user' = Lapsed(user)
    /\ request' = [r \in Requests |->
         IF "copy" \in DOMAIN request[r] THEN [request[r] EXCEPT !.copy = Lapsed(@)]
         ELSE request[r]]
    /\ UNCHANGED <<exists, inputs>>

Next ==
    \/ \E r \in Requests :
         \/ Login(r) \/ Authenticate(r) \/ AuthenticateLdap(r)
         \/ CountFailure(r) \/ ResetFailures(r)
         \/ \E h \in Changes : Read(r, h)
         \/ \E h \in Creations : CheckFree(r, h)
         \/ Hook(r) \/ Write(r) \/ Insert(r) \/ Destroy(r)
    \/ Expire

Spec == Init /\ [][Next]_vars
-----------------------------------------------------------------------------
(* An account that has used up its attempts was locked for it, and not     *)
(* released by anything that left the counter as it was: whole rows,       *)
(* columns and pairs of columns are saved over each other.  Only an        *)
(* administrator's update may give a number that locks nobody, and no      *)
(* longer than until the next failure is counted.                          *)
LockoutArmed ==
    (exists /\ user.failed >= MaxAttempts /\ ~user.given) => user.locked # "no"

(* A permanent lock is lifted by unlocking; anything else that overwrites  *)
(* it is a request that had read the account before it was locked.         *)
PermanentLockHolds ==
    [][(exists /\ exists' /\ user.key = user'.key
        /\ user.locked = "permanent" /\ user'.locked # "permanent")
       => \E r \in Requests :
            /\ request[r] # request'[r]
            /\ request[r].does = "unlock" \/ request[r].started # "permanent"]_vars

(* reset_password answers must_change_password: True (users/views.py:197): *)
(* a user whose password was reset has to change it.                       *)
ResetMustChange ==
    [][\A r \in Requests :
         (request[r].pc = "write" /\ request[r].does = "reset" /\ request'[r] = Idle
          /\ exists' /\ user'.password = request[r].copy.password) => user'.must]_vars

=============================================================================
