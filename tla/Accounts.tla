------------------------------ MODULE Accounts ------------------------------
(***************************************************************************)
(* Users and roles: their administration, the ways to an access token, and *)
(* the role initializer of every process that starts.                      *)
(*                                                                         *)
(* A step ends at an await.  Requests interleave freely; each may fail at  *)
(* any await, and what it has written stays.  Answers are reduced to done  *)
(* or failed, passwords to whether a hash of it is stored.                 *)
(***************************************************************************)
EXTENDS Naturals, Sequences

CONSTANTS Requests, Starts,    \* GraphQL mutations, and processes that start
          RoleIds, Users,      \* _id values, of which a new one is fresh
          Names, Emails,
          Staff, Managers,     \* the names @auth lets touch roles, and users
          Baseline,            \* rolesToEnsure
          None

(* A time is named by the request that put it there.                       *)
Times == Requests \union {None}

Role == [name: Names, deletedAt: Times]
User == [email: Emails, role: RoleIds, hashed: BOOLEAN, deletedAt: Times]

ASSUME AccountsAssumption ==
    /\ Managers \subseteq Staff /\ Staff \subseteq Names
    /\ Baseline \in Seq(Names) /\ Baseline # <<>>
    /\ None \notin RoleIds \union Users \union Names \union Emails \union Requests
    /\ None \notin Role \union User

VARIABLES roles, users,   \* the collections
          purged,         \* roles whose document is gone
          claims,         \* userId and role of the access tokens handed out
          req,            \* the requests
          start,          \* the initializers
          given, bore     \* history: the roles of a user, the names of a role

collections == <<roles, users, purged>>
history == <<given, bore>>
vars == <<collections, claims, req, start, history>>

RoleOps == {"createRole", "updateRole", "softDeleteRole", "deleteRolePermanent"}
UserOps == {"createUser", "updateUser", "softDeleteUser"}

Idle == [at |-> "none", op |-> None, id |-> None, name |-> None, email |-> None,
         role |-> None, plain |-> FALSE, doc |-> None, gone |-> {}]

Init ==
    /\ \E r \in RoleIds, u \in Users, n \in Managers, e \in Emails :
         /\ roles = [x \in RoleIds |-> IF x = r THEN [name |-> n, deletedAt |-> None] ELSE None]
         /\ users = [x \in Users |-> IF x = u THEN [email |-> e, role |-> r, hashed |-> TRUE,
                                                    deletedAt |-> None] ELSE None]
         /\ claims = {[user |-> u, role |-> n]}
         /\ given = [x \in Users |-> IF x = u THEN {r} ELSE {}]
         /\ bore = [x \in RoleIds |-> IF x = r THEN {n} ELSE {}]
    /\ purged = {}
    /\ req = [q \in Requests |-> Idle]
    /\ start = [p \in Starts |-> [at |-> "none", next |-> 1, failed |-> FALSE, freed |-> {}]]

LiveRole(r) == roles[r] # None /\ roles[r].deletedAt = None
LiveUser(u) == users[u] # None /\ users[u].deletedAt = None

(* Mistake: a name is free again once its bearer was deleted.              *)
FreeNameLive(n) == \A r \in RoleIds : LiveRole(r) => roles[r].name # n

(* Mistake: the check before the insertion is all there is.                *)
FreeEmailUnindexed(e) == e \in Emails

(* The unique indexes know nothing of deletedAt.                           *)
FreeName(n) == \A r \in RoleIds : roles[r] # None => roles[r].name # n
FreeEmail(e) == \A u \in Users : users[u] # None => users[u].email # e

FreshRoles == {r \in RoleIds : roles[r] = None /\ r \notin purged}
FreshUsers == {u \in Users : users[u] = None}

At(q, stage) == req[q].at = stage
Go(q, stage) == req' = [req EXCEPT ![q].at = stage]
Done(q) == Go(q, "done")
Failed(q) == Go(q, "failed")

----------------------------------------------------------------------------
(* Arrivals.                                                               *)

Arrive(q, call) ==
    /\ At(q, "none")
    /\ req' = [req EXCEPT ![q] = call]
    /\ UNCHANGED <<collections, claims, start, history>>

(* @auth looks at the role in the token, as it was when it was signed.     *)
Bears(roleNames) == \E c \in claims : c.role \in roleNames

(* _id values that were handed out; with any other the answer is 404.      *)
RoleArgs == RoleIds \ FreshRoles
UserArgs == Users \ FreshUsers
GoneRoles == {r \in RoleArgs : ~LiveRole(r)}

ArriveRoleOp(q) ==
    /\ Bears(Staff)
    /\ \/ \E n \in Names :
            Arrive(q, [Idle EXCEPT !.at = "insertRole", !.op = "createRole", !.name = n])
       \/ \E r \in RoleArgs, n \in Names :
            Arrive(q, [Idle EXCEPT !.at = "setRole", !.op = "updateRole", !.id = r, !.name = n])
       \/ \E r \in RoleArgs :
            \/ Arrive(q, [Idle EXCEPT !.at = "find", !.op = "softDeleteRole", !.id = r])
            \/ Arrive(q, [Idle EXCEPT !.at = "purge", !.op = "deleteRolePermanent", !.id = r])

(* validateIdExistence looks at a role only when one is given.             *)
ArriveUserOp(q) ==
    /\ Bears(Managers)
    /\ \/ \E e \in Emails, r \in RoleArgs :
            Arrive(q, [Idle EXCEPT !.at = "checkRole", !.op = "createUser", !.email = e,
                                   !.role = r, !.plain = TRUE, !.gone = GoneRoles])
       \/ \E u \in UserArgs, e \in Emails \union {None}, r \in RoleArgs \union {None},
             plain \in BOOLEAN :
            Arrive(q, [Idle EXCEPT !.at = IF r = None THEN "setUser" ELSE "checkRole",
                                   !.op = "updateUser", !.id = u, !.email = e, !.role = r,
                                   !.plain = plain, !.gone = GoneRoles])
       \/ \E u \in UserArgs :
            Arrive(q, [Idle EXCEPT !.at = "find", !.op = "softDeleteUser", !.id = u])

(* register, login, and refreshToken from the load of the user on.         *)
ArriveAuthOp(q) ==
    \/ \E e \in Emails, n \in Names :
         Arrive(q, [Idle EXCEPT !.at = "checkEmail", !.op = "register", !.email = e,
                                !.name = n, !.gone = GoneRoles])
    \/ \E e \in Emails :
         Arrive(q, [Idle EXCEPT !.at = "findUser", !.op = "login", !.email = e])
    \/ \E c \in claims :
         Arrive(q, [Idle EXCEPT !.at = "loadUser", !.op = "refreshToken", !.id = c.user])

----------------------------------------------------------------------------
(* Roles.  Base service: create, updateById, softDeleteById, deleteById.   *)

NewRole(r, n) ==
    /\ roles' = [roles EXCEPT ![r] = [name |-> n, deletedAt |-> None]]
    /\ bore' = [bore EXCEPT ![r] = @ \union {n}]
    /\ UNCHANGED <<users, purged, given>>

InsertRole(q) ==
    /\ At(q, "insertRole")
    /\ \/ ~FreeName(req[q].name) /\ Failed(q) /\ UNCHANGED <<collections, history>>
       \/ /\ FreeName(req[q].name) /\ Done(q)
          /\ \E r \in FreshRoles : NewRole(r, req[q].name)
    /\ UNCHANGED <<claims, start>>

(* A name loses its bearer while an initializer is at work, or after it.   *)
Freed(n) == start' = [p \in Starts |->
    IF start[p].at = "none" THEN start[p] ELSE [start[p] EXCEPT !.freed = @ \union {n}]]

MayUpdate(doc) == doc # None /\ doc.deletedAt = None

SetRole(q) ==
    LET r == req[q].id
        n == req[q].name
        set == MayUpdate(roles[r]) /\ (FreeName(n) \/ roles[r].name = n)
    IN  /\ At(q, "setRole")
        /\ \/ ~set /\ Failed(q) /\ UNCHANGED <<roles, bore, start>>
           \/ /\ set /\ Done(q)
              /\ roles' = [roles EXCEPT ![r].name = n]
              /\ bore' = [bore EXCEPT ![r] = @ \union {n}]
              /\ IF roles[r].name = n THEN UNCHANGED start ELSE Freed(roles[r].name)
        /\ UNCHANGED <<users, purged, claims, given>>

(* findByIdAndDelete: nobody looks for users of the role.                  *)
Purge(q) ==
    LET r == req[q].id
    IN  /\ At(q, "purge")
        /\ \/ roles[r] = None /\ Failed(q) /\ UNCHANGED <<roles, purged, start>>
           \/ /\ roles[r] # None /\ Done(q)
              /\ roles' = [roles EXCEPT ![r] = None] /\ purged' = purged \union {r}
              /\ Freed(roles[r].name)
        /\ UNCHANGED <<users, claims, history>>

(* softDeleteById: findById does not look at deletedAt.                    *)
Find(q) ==
    LET doc == IF req[q].op = "softDeleteRole" THEN roles[req[q].id] ELSE users[req[q].id]
    IN  /\ At(q, "find")
        /\ IF doc = None THEN Failed(q)
           ELSE req' = [req EXCEPT ![q].at = "save", ![q].doc = doc]
        /\ UNCHANGED <<collections, claims, start, history>>

(* Mistake: the document is written back as it was read.                   *)
DeletionOfSnapshot(doc, read, now) == [read EXCEPT !.deletedAt = now]

(* save() writes the paths that were changed: deletedAt, be it set or not. *)
Deletion(doc, read, now) == [doc EXCEPT !.deletedAt = now]

(* A document that is gone by now makes save() fail.                       *)
Save(q) ==
    LET id == req[q].id
        read == req[q].doc
    IN  /\ At(q, "save")
        /\ \/ /\ req[q].op = "softDeleteRole"
              /\ IF roles[id] = None THEN Failed(q) /\ UNCHANGED roles
                 ELSE roles' = [roles EXCEPT ![id] = Deletion(@, read, q)] /\ Done(q)
              /\ UNCHANGED users
           \/ /\ req[q].op = "softDeleteUser"
              /\ users' = [users EXCEPT ![id] = Deletion(@, read, q)] /\ Done(q)
              /\ UNCHANGED roles
        /\ UNCHANGED <<purged, claims, start, history>>

----------------------------------------------------------------------------
(* Users.                                                                  *)

(* Mistake: the role of the input may be a deleted one.                    *)
CheckStoredRole(q) ==
    /\ At(q, "checkRole")
    /\ IF roles[req[q].role] = None THEN Failed(q)
       ELSE Go(q, IF req[q].op = "createUser" THEN "insertUser" ELSE "setUser")
    /\ UNCHANGED <<collections, claims, start, history>>

(* idExist.validate.js                                                     *)
CheckRole(q) ==
    /\ At(q, "checkRole")
    /\ IF ~LiveRole(req[q].role) THEN Failed(q)
       ELSE Go(q, IF req[q].op = "createUser" THEN "insertUser" ELSE "setUser")
    /\ UNCHANGED <<collections, claims, start, history>>

Give(u, r) == given' = [given EXCEPT ![u] = @ \union {r}]

(* create() of createUser and of register, which alone hashes the password.*)
InsertUser(q) ==
    /\ At(q, "insertUser")
    /\ \/ ~FreeEmail(req[q].email) /\ Failed(q) /\ UNCHANGED <<users, given>>
       \/ /\ FreeEmail(req[q].email)
          /\ \E u \in FreshUsers :
               /\ users' = [users EXCEPT ![u] =
                     [email |-> req[q].email, role |-> req[q].role,
                      hashed |-> ~req[q].plain, deletedAt |-> None]]
               /\ Give(u, req[q].role)
               /\ req' = [req EXCEPT ![q].id = u, ![q].at =
                     IF req[q].op = "register" THEN "loadUser" ELSE "reread"]
    /\ UNCHANGED <<roles, purged, claims, start, bore>>

(* The answer needs a user that is live, and whose role is there.          *)
Reread(q) ==
    /\ At(q, "reread")
    /\ IF LiveUser(req[q].id) /\ roles[users[req[q].id].role] # None
       THEN Done(q) ELSE Failed(q)
    /\ UNCHANGED <<collections, claims, start, history>>

SetUser(q) ==
    LET u == req[q].id
        new(old, input) == IF input = None THEN old ELSE input
        email == new(users[u].email, req[q].email)
        set == MayUpdate(users[u]) /\ (FreeEmail(email) \/ users[u].email = email)
    IN  /\ At(q, "setUser")
        /\ \/ ~set /\ Failed(q) /\ UNCHANGED <<users, given>>
           \/ /\ set /\ Done(q)
              /\ users' = [users EXCEPT ![u].email = email,
                                        ![u].role = new(@, req[q].role),
                                        ![u].hashed = @ /\ ~req[q].plain]
              /\ Give(u, users'[u].role)
        /\ UNCHANGED <<roles, purged, claims, start, bore>>

----------------------------------------------------------------------------
(* register(), login() and refreshToken().                                 *)

(* A lookup that fails lets register() pass, too.                          *)
CheckEmail(q) ==
    /\ At(q, "checkEmail")
    /\ \/ Go(q, "lookupRole")
       \/ (\E u \in Users : LiveUser(u) /\ users[u].email = req[q].email) /\ Failed(q)
    /\ UNCHANGED <<collections, claims, start, history>>

LookupRole(q) ==
    /\ At(q, "lookupRole")
    /\ \/ /\ \A r \in RoleIds : LiveRole(r) => roles[r].name # req[q].name
          /\ Failed(q)
       \/ \E r \in RoleIds :
            /\ LiveRole(r) /\ roles[r].name = req[q].name
            /\ req' = [req EXCEPT ![q].at = "insertUser", ![q].role = r]
    /\ UNCHANGED <<collections, claims, start, history>>

(* With the right password; a password that is no hash matches nothing.    *)
FindUser(q) ==
    /\ At(q, "findUser")
    /\ LET found == {u \in Users : LiveUser(u) /\ users[u].hashed /\ users[u].email = req[q].email}
       IN  \/ found = {} /\ Failed(q)
           \/ \E u \in found : req' = [req EXCEPT ![q].at = "loadUser", ![q].id = u]
    /\ UNCHANGED <<collections, claims, start, history>>

(* findById, and with another query the role it names (populate).          *)
LoadUser(q) ==
    /\ At(q, "loadUser")
    /\ IF LiveUser(req[q].id)
       THEN req' = [req EXCEPT ![q].at = "loadRole", ![q].role = users[req[q].id].role]
       ELSE Failed(q)
    /\ UNCHANGED <<collections, claims, start, history>>

(* Mistake: a user without a role is taken for an employee.                *)
SignedRoleOrDefault(r) == IF roles[r] # None THEN roles[r].name ELSE CHOOSE n \in Staff \ Managers : TRUE

(* user.role?.name || null: populate finds deleted roles, but no purged one.*)
SignedRole(r) == IF roles[r] # None THEN roles[r].name ELSE None

LoadRole(q) ==
    /\ At(q, "loadRole")
    /\ claims' = claims \union {[user |-> req[q].id, role |-> SignedRole(req[q].role)]}
    /\ Done(q)
    /\ UNCHANGED <<collections, start, history>>

(* A call to MongoDB fails.  A write whose acknowledgement is lost differs  *)
(* by the answer alone, and no property looks at an answer but register's: *)
(* there it is the insertion, and then this.                               *)
CallFails(q) ==
    /\ req[q].at \notin {"none", "done", "failed"}
    /\ Failed(q)
    /\ UNCHANGED <<collections, claims, start, history>>

----------------------------------------------------------------------------
(* ensureEmployeeRole(), of processes that start side by side.             *)

StartAt(p, stage) == start[p].at = stage

Begin(p) ==
    /\ StartAt(p, "none")
    /\ start' = [start EXCEPT ![p].at = "find"]
    /\ UNCHANGED <<collections, claims, req, history>>

BaselineName(p) == Baseline[start[p].next]

OneFurther(s) == [s EXCEPT !.next = @ + 1,
                           !.at = IF s.next = Len(Baseline) THEN "over" ELSE "find"]

(* An error counts as not found.                                           *)
FindRole(p) ==
    /\ StartAt(p, "find")
    /\ \/ /\ \E r \in RoleIds : LiveRole(r) /\ roles[r].name = BaselineName(p)
          /\ start' = [start EXCEPT ![p] = OneFurther(@)]
       \/ start' = [start EXCEPT ![p].at = "create"]
    /\ UNCHANGED <<collections, claims, req, history>>

(* Mistake: a refused creation ends the loop.                              *)
CreateRoleOrStop(p) ==
    /\ StartAt(p, "create")
    /\ \/ /\ FreeName(BaselineName(p))
          /\ \E r \in FreshRoles : NewRole(r, BaselineName(p))
          /\ start' = [start EXCEPT ![p] = OneFurther(@)]
       \/ /\ ~FreeName(BaselineName(p))
          /\ start' = [start EXCEPT ![p].at = "over"]
          /\ UNCHANGED <<collections, history>>
    /\ UNCHANGED <<claims, req>>

(* Nobody looks at the result.                                             *)
CreateRole(p) ==
    /\ StartAt(p, "create")
    /\ \/ /\ FreeName(BaselineName(p))
          /\ \E r \in FreshRoles : NewRole(r, BaselineName(p))
          /\ start' = [start EXCEPT ![p] = OneFurther(@)]
       \/ /\ ~FreeName(BaselineName(p))
          /\ start' = [start EXCEPT ![p] = OneFurther(@)]
          /\ UNCHANGED <<collections, history>>
    /\ UNCHANGED <<claims, req>>

CreateFails(p) ==
    /\ StartAt(p, "create")
    /\ start' = [start EXCEPT ![p] = [OneFurther(@) EXCEPT !.failed = TRUE]]
    /\ UNCHANGED <<collections, claims, req, history>>

(* The process dies in the middle.                                         *)
StartDies(p) ==
    /\ start[p].at \in {"find", "create"}
    /\ start' = [start EXCEPT ![p].at = "dead"]
    /\ UNCHANGED <<collections, claims, req, history>>

Next ==
    \/ \E q \in Requests :
         \/ ArriveRoleOp(q) \/ ArriveUserOp(q) \/ ArriveAuthOp(q)
         \/ InsertRole(q) \/ SetRole(q) \/ Purge(q) \/ Find(q) \/ Save(q)
         \/ CheckRole(q) \/ InsertUser(q) \/ Reread(q) \/ SetUser(q)
         \/ CheckEmail(q) \/ LookupRole(q) \/ FindUser(q) \/ LoadUser(q) \/ LoadRole(q)
         \/ CallFails(q)
    \/ \E p \in Starts :
         Begin(p) \/ FindRole(p) \/ CreateRole(p) \/ CreateFails(p) \/ StartDies(p)

Spec == Init /\ [][Next]_vars

----------------------------------------------------------------------------

(* The variables have their types, and a name or an email has one bearer,  *)
(* be it deleted (the unique indexes).                                     *)
AccountsTypeOK ==
    /\ roles \in [RoleIds -> Role \union {None}]
    /\ users \in [Users -> User \union {None}]
    /\ purged \subseteq RoleIds /\ \A r \in purged : roles[r] = None
    /\ claims \subseteq [user: Users, role: Names \union {None}]
    /\ \A r, s \in RoleIds : roles[r] # None /\ roles[s] # None /\ r # s =>
                             roles[r].name # roles[s].name
    /\ \A u, v \in Users : users[u] # None /\ users[v] # None /\ u # v =>
                           users[u].email # users[v].email

Steps(q) == req'[q] # req[q]

(* What was deleted or purged never comes back; a deletion moves deletedAt,*)
(* a second one again, and nothing else, so what an update wrote between   *)
(* its read and its save is not lost; and an update finds its document live*)
(* and leaves it so (softDeleteById reads, then saves; updateById filters).*)
DeletionsKeepTheRest ==
    [][/\ \A r \in RoleIds :
            /\ r \in purged => roles'[r] = None
            /\ roles[r] # None /\ roles'[r] \notin {roles[r], None} =>
                 \E q \in Requests :
                   /\ Steps(q) /\ req[q].id = r
                   /\ \/ req[q].op = "updateRole" /\ LiveRole(r) /\ LiveRole(r)'
                      \/ /\ req[q].op = "softDeleteRole"
                         /\ roles'[r] = [roles[r] EXCEPT !.deletedAt = q]
       /\ \A u \in Users :
            users[u] # None /\ users'[u] # users[u] =>
              \E q \in Requests :
                /\ Steps(q) /\ req[q].id = u
                /\ \/ req[q].op = "updateUser" /\ LiveUser(u) /\ LiveUser(u)'
                   \/ /\ req[q].op = "softDeleteUser"
                      /\ users'[u] = [users[u] EXCEPT !.deletedAt = q]
      ]_vars

(* A role that was deleted before a request arrived is given to nobody by  *)
(* it; one deleted while it is under way may be (validateIdExistence, and  *)
(* register's lookup by name).                                             *)
DeletedRolesNotAssigned ==
    [][\A u \in Users :
         users'[u] # users[u] /\ (users[u] = None \/ users'[u].role # users[u].role) =>
           \E q \in Requests : Steps(q) /\ users'[u].role \notin req[q].gone]_vars

(* An access token names no role, or one that its user was given by a name *)
(* it bore: neither a purged role nor a rename in the middle of a login    *)
(* makes up a right nobody ever granted.                                   *)
ClaimsWereGranted ==
    \A c \in claims : c.role = None \/ \E r \in given[c.user] : c.role \in bore[r]

(* A start that ended without a failed call leaves every baseline role, if *)
(* only as a deleted document, unless it was renamed or purged since the   *)
(* start began, and whoever else starts beside it, or dies.                *)
BaselineKept ==
    \A p \in Starts : start[p].at = "over" /\ ~start[p].failed =>
      \A i \in DOMAIN Baseline :
        \/ Baseline[i] \in start[p].freed
        \/ \E r \in RoleIds : roles[r] # None /\ roles[r].name = Baseline[i]

Registered(q) == req[q].op = "register" /\ At(q, "done")

(* An update, whatever it answered, that gives a user another email.       *)
Renamed(u, e) ==
    \E q \in Requests : /\ req[q].op = "updateUser" /\ req[q].at \in {"done", "failed"}
                        /\ req[q].id = u /\ req[q].email \notin {None, e}

(* Of two registrations of one email one fails, however they interleave and*)
(* be the user deleted meanwhile, unless an update has taken the email from*)
(* one of the two users (auth.service.js:89-116: the check is not atomic   *)
(* with the creation, and passes when it fails).                           *)
OneRegistrationWins ==
    \A q, p \in Requests :
      Registered(q) /\ Registered(p) /\ q # p /\ req[q].email = req[p].email =>
        \E r \in {q, p} : /\ users[req[r].id].email # req[r].email
                          /\ Renamed(req[r].id, req[r].email)
=============================================================================
