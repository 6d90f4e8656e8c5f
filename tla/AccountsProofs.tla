---------------------------- MODULE AccountsProofs ----------------------------
(***************************************************************************)
(* Proofs about Accounts, for any roles, users, requests and starts.       *)
(***************************************************************************)
EXTENDS Accounts, TLAPS

-------------------------------------------------------------------------------
(* What holds between any two steps, beside the properties themselves.     *)

Stages == {"none", "insertRole", "setRole", "purge", "find", "save", "checkRole",
           "insertUser", "setUser", "reread", "checkEmail", "lookupRole", "findUser",
           "loadUser", "loadRole", "done", "failed"}

Request == [at: Stages, op: RoleOps \union UserOps \union {"register", "login", "refreshToken", None},
            id: RoleIds \union Users \union {None}, name: Names \union {None},
            email: Emails \union {None}, role: RoleIds \union {None}, plain: BOOLEAN,
            doc: Role \union User \union {None}, gone: SUBSET RoleIds]

Starting == [at: {"none", "find", "create", "over", "dead"}, next: 1 .. Len(Baseline) + 1,
             failed: BOOLEAN, freed: SUBSET Names]

(* History: the names a role bears and the role a user has were written.   *)
Recorded ==
    /\ given \in [Users -> SUBSET RoleIds] /\ bore \in [RoleIds -> SUBSET Names]
    /\ \A r \in RoleIds : roles[r] # None => roles[r].name \in bore[r]
    /\ \A u \in Users : users[u] # None => users[u].role \in given[u]

Buried(r) == r \in purged \/ (roles[r] # None /\ roles[r].deletedAt # None)

(* What a call at a stage brings along from the ones before it.            *)
Carries(c) ==
    /\ c.at \in {"insertRole", "setRole"} => c.name \in Names
    /\ c.at \in {"setRole", "purge"} => c.id \in RoleIds
    /\ c.at = "setRole" => c.op = "updateRole"
    /\ c.at \in {"find", "save"} =>
         \/ c.op = "softDeleteRole" /\ c.id \in RoleIds
         \/ /\ c.op = "softDeleteUser" /\ c.id \in Users
            /\ c.at = "save" => users[c.id] # None
    /\ c.at = "checkRole" =>
         /\ c.role \in RoleIds
         /\ \/ c.op = "createUser" /\ c.email \in Emails
            \/ c.op = "updateUser" /\ c.id \in Users
    /\ c.at \in {"checkEmail", "lookupRole", "insertUser"} => c.email \in Emails
    /\ c.at = "insertUser" => c.role \in RoleIds \ c.gone
    /\ c.at = "setUser" => c.op = "updateUser" /\ c.id \in Users /\ c.role \notin c.gone
    /\ c.at \in {"loadUser", "loadRole"} => c.id \in Users
    /\ c.at = "loadRole" => c.role \in given[c.id]
    /\ \A r \in c.gone : Buried(r)

Kept(p, name) ==
    \/ name \in start[p].freed
    \/ \E r \in RoleIds : roles[r] # None /\ roles[r].name = name

(* An initializer is behind the roles it saw to.                           *)
Behind(p) ==
    LET s == start[p]
    IN  /\ s.at = "none" => s.next = 1
        /\ s.at \in {"find", "create"} => s.next <= Len(Baseline)
        /\ s.at = "over" => s.next = Len(Baseline) + 1
        /\ ~s.failed => \A i \in DOMAIN Baseline : i < s.next => Kept(p, Baseline[i])

(* Every step keeps all of this together: the types, the unique names and  *)
(* emails, the history, what the calls under way carry, and what the       *)
(* initializers at work have seen to; it implies the invariants above.     *)
AccountsIInv ==
    /\ AccountsTypeOK
    /\ req \in [Requests -> Request]
    /\ start \in [Starts -> Starting]
    /\ Recorded
    /\ \A q \in Requests : Carries(req[q])
    /\ \A p \in Starts : Behind(p)
    /\ ClaimsWereGranted

-------------------------------------------------------------------------------

(* What no step takes back, and a call under way may rely on.              *)
Onward ==
    /\ \A u \in Users : users[u] # None => users'[u] # None
    /\ \A u \in Users : given[u] \subseteq given'[u]
    /\ \A r \in RoleIds : Buried(r) => Buried(r)'

LEMMA Standing == ASSUME UNCHANGED <<collections, history>> PROVE Onward
  BY DEF Onward, Buried, collections, history

(* A request goes on with new data, the others carry what they did.        *)
LEMMA RequestStep ==
    ASSUME AccountsIInv, Onward, NEW q \in Requests, NEW new \in Request, Carries(new),
           req' = [req EXCEPT ![q] = new]
    PROVE  req' \in [Requests -> Request] /\ \A o \in Requests : Carries(req[o])'
  <1>1. req \in [Requests -> Request] /\ \A o \in Requests : Carries(req[o])
    BY DEF AccountsIInv
  <1>2. req' \in [Requests -> Request]
    BY <1>1
  <1>3. ASSUME NEW c \in Request, Carries(c)
        PROVE  Carries(c)'
    <2>1. \A r \in c.gone : Buried(r)'
      BY <1>3 DEF Carries, Onward, Request
    <2>2. c.at \in {"find", "save"} =>
             \/ c.op = "softDeleteRole" /\ c.id \in RoleIds
             \/ /\ c.op = "softDeleteUser" /\ c.id \in Users
                /\ c.at = "save" => users'[c.id] # None
      BY <1>3 DEF Carries, Onward
    <2>3. c.at = "loadRole" => c.role \in given'[c.id]
      BY <1>3 DEF Carries, Onward
    <2> QED BY <1>3, <2>1, <2>2, <2>3 DEF Carries
  <1>4. ASSUME NEW o \in Requests
        PROVE  Carries(req[o])'
    <2>1. \E c \in Request : req'[o] = c /\ Carries(c)
      BY <1>1
    <2>2. PICK c \in Request : req'[o] = c /\ Carries(c)
      BY <2>1
    <2>3. Carries(c)'
      BY <1>3, <2>2
    <2> QED BY <2>2, <2>3 DEF Carries, Buried
  <1> QED BY <1>2, <1>4

LEMMA NoRequestStep ==
    ASSUME AccountsIInv, Onward, UNCHANGED req
    PROVE  req' \in [Requests -> Request] /\ \A o \in Requests : Carries(req[o])'
  <1>1. req \in [Requests -> Request] /\ \A o \in Requests : Carries(req[o])
    BY DEF AccountsIInv
  <1>2. ASSUME NEW o \in Requests
        PROVE  Carries(req[o])'
    <2>1. req' = [req EXCEPT ![o] = req[o]] /\ req[o] \in Request /\ Carries(req[o])
      BY <1>1
    <2> QED BY <2>1, RequestStep
  <1> QED BY <1>1, <1>2

(* An initializer that does not step keeps what it has seen to, as long as *)
(* no name goes without being freed.                                       *)
LEMMA NoStartStep ==
    ASSUME AccountsIInv, UNCHANGED start,
           \A r \in RoleIds : roles[r] # None => roles'[r] # None /\ roles'[r].name = roles[r].name
    PROVE  start' \in [Starts -> Starting] /\ \A p \in Starts : Behind(p)'
  <1>1. start \in [Starts -> Starting] /\ \A p \in Starts : Behind(p)
    BY DEF AccountsIInv
  <1>2. ASSUME NEW p \in Starts, NEW n, Kept(p, n)
        PROVE  Kept(p, n)'
    BY <1>2 DEF Kept
  <1>3. ASSUME NEW p \in Starts
        PROVE  Behind(p)'
    <2>1. \A i \in DOMAIN Baseline : Kept(p, Baseline[i]) => Kept(p, Baseline[i])'
      BY <1>2
    <2> QED BY <1>1, <2>1 DEF Behind
  <1> QED BY <1>1, <1>3

LEMMA QuietStep ==
    ASSUME AccountsIInv, UNCHANGED <<collections, claims, start, history>>,
           NEW q \in Requests, NEW new \in Request, Carries(new), req' = [req EXCEPT ![q] = new]
    PROVE  AccountsIInv'
  <1>1. Onward
    BY Standing
  <1>2. req' \in [Requests -> Request] /\ \A o \in Requests : Carries(req[o])'
    BY <1>1, RequestStep
  <1>3. start' \in [Starts -> Starting] /\ \A p \in Starts : Behind(p)'
    BY NoStartStep DEF collections
  <1>4. AccountsTypeOK' /\ Recorded' /\ ClaimsWereGranted'
    BY DEF AccountsIInv, AccountsTypeOK, Recorded, ClaimsWereGranted, collections, history
  <1> QED BY <1>2, <1>3, <1>4 DEF AccountsIInv

(* A call moves on to another stage, and carries what that one needs.      *)
LEMMA GoStep ==
    ASSUME AccountsIInv, UNCHANGED <<collections, claims, start, history>>,
           NEW q \in Requests, NEW stage \in Stages, Go(q, stage),
           Carries([req[q] EXCEPT !.at = stage])
    PROVE  AccountsIInv'
  <1> DEFINE new == [req[q] EXCEPT !.at = stage]
  <1>1. req \in [Requests -> Request]
    BY DEF AccountsIInv
  <1>2. req[q] \in Request
    BY <1>1
  <1>3. new \in Request
    BY <1>2 DEF Request
  <1>4. req' = [req EXCEPT ![q] = new]
    BY <1>1 DEF Go
  <1>5. Carries(new)
    OBVIOUS
  <1> HIDE DEF new
  <1> QED BY <1>3, <1>4, <1>5, QuietStep

(* A request that is over carries nothing that could go wrong.             *)
LEMMA OverCarries ==
    ASSUME AccountsIInv, NEW q \in Requests, NEW stage \in {"done", "failed", "reread"}
    PROVE  [req[q] EXCEPT !.at = stage] \in Request /\ Carries([req[q] EXCEPT !.at = stage])
  <1> DEFINE new == [req[q] EXCEPT !.at = stage]
  <1>1. req[q] \in Request /\ Carries(req[q])
    BY DEF AccountsIInv
  <1>2. new \in Request
    BY <1>1 DEF Request, Stages
  <1>3. new.at = stage /\ new.gone = req[q].gone
    BY <1>1 DEF Request
  <1>4. Carries(new)
    <2> HIDE DEF new
    <2> QED BY <1>1, <1>3 DEF Carries
  <1> QED BY <1>2, <1>4

LEMMA DoneRequests ==
    ASSUME AccountsIInv, Onward, NEW q \in Requests, Done(q)
    PROVE  req' \in [Requests -> Request] /\ \A o \in Requests : Carries(req[o])'
  <1>1. req \in [Requests -> Request]
    BY DEF AccountsIInv
  <1>2. req' = [req EXCEPT ![q] = [req[q] EXCEPT !.at = "done"]]
    BY <1>1 DEF Done, Go
  <1> QED BY <1>2, OverCarries, RequestStep

LEMMA OverStep ==
    ASSUME AccountsIInv, UNCHANGED <<collections, claims, start, history>>,
           NEW q \in Requests, Done(q) \/ Failed(q)
    PROVE  AccountsIInv'
  BY OverCarries, GoStep DEF Done, Failed, Stages

(* A request arrives with the role, or the user, that it names.            *)
LEMMA ArriveKeeps ==
    ASSUME AccountsIInv, NEW q \in Requests, NEW call \in Request, Carries(call), Arrive(q, call)
    PROVE  AccountsIInv'
  BY QuietStep DEF Arrive

LEMMA GoneAreBuried == ASSUME AccountsIInv PROVE GoneRoles \subseteq RoleIds /\ \A r \in GoneRoles : Buried(r)
  BY DEF GoneRoles, RoleArgs, FreshRoles, LiveRole, Buried

LEMMA RoleOpArrives == ASSUME AccountsIInv, NEW q \in Requests, ArriveRoleOp(q) PROVE AccountsIInv'
  <1> USE DEF Idle
  <1>1. RoleArgs \subseteq RoleIds
    BY DEF RoleArgs
  <1>2. CASE \E n \in Names :
            Arrive(q, [Idle EXCEPT !.at = "insertRole", !.op = "createRole", !.name = n])
    <2>1. PICK n \in Names :
            Arrive(q, [Idle EXCEPT !.at = "insertRole", !.op = "createRole", !.name = n])
      BY <1>2
    <2> DEFINE call == [Idle EXCEPT !.at = "insertRole", !.op = "createRole", !.name = n]
    <2>2. call \in Request /\ Carries(call)
      BY DEF Request, Stages, RoleOps, Carries
    <2> QED BY <2>1, <2>2, ArriveKeeps
  <1>3. CASE \E r \in RoleArgs, n \in Names :
            Arrive(q, [Idle EXCEPT !.at = "setRole", !.op = "updateRole", !.id = r, !.name = n])
    <2>1. PICK r \in RoleArgs, n \in Names :
            Arrive(q, [Idle EXCEPT !.at = "setRole", !.op = "updateRole", !.id = r, !.name = n])
      BY <1>3
    <2> DEFINE call == [Idle EXCEPT !.at = "setRole", !.op = "updateRole", !.id = r, !.name = n]
    <2>2. call \in Request /\ Carries(call)
      BY <1>1 DEF Request, Stages, RoleOps, Carries
    <2> QED BY <2>1, <2>2, ArriveKeeps
  <1>4. CASE \E r \in RoleArgs :
            \/ Arrive(q, [Idle EXCEPT !.at = "find", !.op = "softDeleteRole", !.id = r])
            \/ Arrive(q, [Idle EXCEPT !.at = "purge", !.op = "deleteRolePermanent", !.id = r])
    <2>1. PICK r \in RoleArgs :
            \/ Arrive(q, [Idle EXCEPT !.at = "find", !.op = "softDeleteRole", !.id = r])
            \/ Arrive(q, [Idle EXCEPT !.at = "purge", !.op = "deleteRolePermanent", !.id = r])
      BY <1>4
    <2> DEFINE find == [Idle EXCEPT !.at = "find", !.op = "softDeleteRole", !.id = r]
               purge == [Idle EXCEPT !.at = "purge", !.op = "deleteRolePermanent", !.id = r]
    <2>2. find \in Request /\ Carries(find)
      BY <1>1 DEF Request, Stages, RoleOps, Carries
    <2>3. purge \in Request /\ Carries(purge)
      BY <1>1 DEF Request, Stages, RoleOps, Carries
    <2> QED BY <2>1, <2>2, <2>3, ArriveKeeps
  <1> QED BY <1>2, <1>3, <1>4 DEF ArriveRoleOp

LEMMA UserOpArrives == ASSUME AccountsIInv, NEW q \in Requests, ArriveUserOp(q) PROVE AccountsIInv'
  <1> USE DEF Idle
  <1>1. RoleArgs \subseteq RoleIds /\ UserArgs \subseteq Users
    BY DEF RoleArgs, UserArgs
  <1>2. CASE \E e \in Emails, r \in RoleArgs :
            Arrive(q, [Idle EXCEPT !.at = "checkRole", !.op = "createUser", !.email = e,
                                   !.role = r, !.plain = TRUE, !.gone = GoneRoles])
    <2>1. PICK e \in Emails, r \in RoleArgs :
            Arrive(q, [Idle EXCEPT !.at = "checkRole", !.op = "createUser", !.email = e,
                                   !.role = r, !.plain = TRUE, !.gone = GoneRoles])
      BY <1>2
    <2> DEFINE call == [Idle EXCEPT !.at = "checkRole", !.op = "createUser", !.email = e,
                                    !.role = r, !.plain = TRUE, !.gone = GoneRoles]
    <2>2. call \in Request /\ Carries(call)
      BY <1>1, GoneAreBuried DEF Request, Stages, UserOps, Carries
    <2> QED BY <2>1, <2>2, ArriveKeeps
  <1>3. CASE \E u \in UserArgs, e \in Emails \union {None}, r \in RoleArgs \union {None},
             plain \in BOOLEAN :
            Arrive(q, [Idle EXCEPT !.at = IF r = None THEN "setUser" ELSE "checkRole",
                                   !.op = "updateUser", !.id = u, !.email = e, !.role = r,
                                   !.plain = plain, !.gone = GoneRoles])
    <2>1. PICK u \in UserArgs, e \in Emails \union {None}, r \in RoleArgs \union {None},
             plain \in BOOLEAN :
            Arrive(q, [Idle EXCEPT !.at = IF r = None THEN "setUser" ELSE "checkRole",
                                   !.op = "updateUser", !.id = u, !.email = e, !.role = r,
                                   !.plain = plain, !.gone = GoneRoles])
      BY <1>3
    <2> DEFINE call == [Idle EXCEPT !.at = IF r = None THEN "setUser" ELSE "checkRole",
                                   !.op = "updateUser", !.id = u, !.email = e, !.role = r,
                                   !.plain = plain, !.gone = GoneRoles]
    <2>2. call \in Request
      BY <1>1, GoneAreBuried DEF Request, Stages, UserOps
    <2>3. /\ call.at = IF r = None THEN "setUser" ELSE "checkRole"
          /\ call.op = "updateUser" /\ call.id = u /\ call.role = r /\ call.gone = GoneRoles
      OBVIOUS
    <2>4. Carries(call)
      <3> HIDE DEF call
      <3> QED BY <1>1, <2>3, GoneAreBuried, AccountsAssumption DEF Carries
    <2> QED BY <2>1, <2>2, <2>4, ArriveKeeps
  <1>4. CASE \E u \in UserArgs :
            Arrive(q, [Idle EXCEPT !.at = "find", !.op = "softDeleteUser", !.id = u])
    <2>1. PICK u \in UserArgs :
            Arrive(q, [Idle EXCEPT !.at = "find", !.op = "softDeleteUser", !.id = u])
      BY <1>4
    <2> DEFINE call == [Idle EXCEPT !.at = "find", !.op = "softDeleteUser", !.id = u]
    <2>2. call \in Request /\ Carries(call)
      BY <1>1 DEF Request, Stages, UserOps, Carries
    <2> QED BY <2>1, <2>2, ArriveKeeps
  <1> QED BY <1>2, <1>3, <1>4 DEF ArriveUserOp

LEMMA AuthOpArrives == ASSUME AccountsIInv, NEW q \in Requests, ArriveAuthOp(q) PROVE AccountsIInv'
  <1> USE DEF Idle
  <1>1. claims \subseteq [user: Users, role: Names \union {None}]
    BY DEF AccountsIInv, AccountsTypeOK
  <1>2. CASE \E e \in Emails, n \in Names :
         Arrive(q, [Idle EXCEPT !.at = "checkEmail", !.op = "register", !.email = e,
                                !.name = n, !.gone = GoneRoles])
    <2>1. PICK e \in Emails, n \in Names :
         Arrive(q, [Idle EXCEPT !.at = "checkEmail", !.op = "register", !.email = e,
                                !.name = n, !.gone = GoneRoles])
      BY <1>2
    <2> DEFINE call == [Idle EXCEPT !.at = "checkEmail", !.op = "register", !.email = e,
                                    !.name = n, !.gone = GoneRoles]
    <2>2. call \in Request /\ Carries(call)
      BY GoneAreBuried DEF Request, Stages, Carries
    <2> QED BY <2>1, <2>2, ArriveKeeps
  <1>3. CASE \E e \in Emails :
         Arrive(q, [Idle EXCEPT !.at = "findUser", !.op = "login", !.email = e])
    <2>1. PICK e \in Emails :
         Arrive(q, [Idle EXCEPT !.at = "findUser", !.op = "login", !.email = e])
      BY <1>3
    <2> DEFINE call == [Idle EXCEPT !.at = "findUser", !.op = "login", !.email = e]
    <2>2. call \in Request /\ Carries(call)
      BY DEF Request, Stages, Carries
    <2> QED BY <2>1, <2>2, ArriveKeeps
  <1>4. CASE \E c \in claims :
         Arrive(q, [Idle EXCEPT !.at = "loadUser", !.op = "refreshToken", !.id = c.user])
    <2>1. PICK c \in claims :
         Arrive(q, [Idle EXCEPT !.at = "loadUser", !.op = "refreshToken", !.id = c.user])
      BY <1>4
    <2> DEFINE call == [Idle EXCEPT !.at = "loadUser", !.op = "refreshToken", !.id = c.user]
    <2>2. c.user \in Users
      BY <1>1
    <2>3. call \in Request /\ Carries(call)
      BY <2>2 DEF Request, Stages, Carries
    <2> QED BY <2>1, <2>3, ArriveKeeps
  <1> QED BY <1>2, <1>3, <1>4 DEF ArriveAuthOp

(* Calls that only read: the document they hand on was there.              *)
LEMMA FindKeeps == ASSUME AccountsIInv, NEW q \in Requests, Find(q) PROVE AccountsIInv'
  <1> DEFINE doc == IF req[q].op = "softDeleteRole" THEN roles[req[q].id] ELSE users[req[q].id]
             new == [req[q] EXCEPT !.at = "save", !.doc = doc]
  <1>1. req \in [Requests -> Request] /\ req[q] \in Request /\ Carries(req[q])
    BY DEF AccountsIInv
  <1>2. At(q, "find") /\ UNCHANGED <<collections, claims, start, history>>
    BY DEF Find
  <1>3. CASE doc = None
    BY <1>2, <1>3, OverStep DEF Find
  <1>4. CASE doc # None
    <2>1. req' = [req EXCEPT ![q].at = "save", ![q].doc = doc]
      BY <1>4 DEF Find
    <2>2. req' = [req EXCEPT ![q] = new]
      BY <1>1, <2>1
    <2>3. doc \in Role \union User \union {None}
      BY <1>1, <1>2 DEF Carries, At, AccountsIInv, AccountsTypeOK
    <2>4. new \in Request
      <3> HIDE DEF doc
      <3> QED BY <1>1, <2>3 DEF Request, Stages
    <2>5. /\ new.at = "save" /\ new.op = req[q].op /\ new.id = req[q].id
          /\ new.gone = req[q].gone
      BY <1>1 DEF Request
    <2>6. Carries(new)
      <3>1. \/ req[q].op = "softDeleteRole" /\ req[q].id \in RoleIds
            \/ req[q].op = "softDeleteUser" /\ req[q].id \in Users /\ users[req[q].id] # None
        BY <1>1, <1>2, <1>4 DEF Carries, At
      <3> HIDE DEF new
      <3> QED BY <1>1, <2>5, <3>1 DEF Carries
    <2> HIDE DEF new
    <2> QED BY <1>2, <2>2, <2>4, <2>6, QuietStep
  <1> QED BY <1>3, <1>4

(* The role it let pass is live, so it was not gone on arrival.            *)
LEMMA CheckRoleKeeps == ASSUME AccountsIInv, NEW q \in Requests, CheckRole(q) PROVE AccountsIInv'
  <1> DEFINE stage == IF req[q].op = "createUser" THEN "insertUser" ELSE "setUser"
             new == [req[q] EXCEPT !.at = stage]
  <1>1. req[q] \in Request /\ Carries(req[q])
    BY DEF AccountsIInv
  <1>2. At(q, "checkRole") /\ UNCHANGED <<collections, claims, start, history>>
    BY DEF CheckRole
  <1>3. CASE ~LiveRole(req[q].role)
    BY <1>2, <1>3, OverStep DEF CheckRole
  <1>4. CASE LiveRole(req[q].role)
    <2>1. Go(q, stage) /\ stage \in Stages
      BY <1>4 DEF CheckRole, Stages
    <2>2. req[q].role \in RoleIds \ req[q].gone
      BY <1>1, <1>2, <1>4 DEF Carries, At, Buried, LiveRole, AccountsIInv, AccountsTypeOK
    <2>3. /\ new.at = stage /\ new.op = req[q].op /\ new.id = req[q].id /\ new.role = req[q].role
          /\ new.email = req[q].email /\ new.gone = req[q].gone
      BY <1>1 DEF Request
    <2>4. \/ req[q].op = "createUser" /\ req[q].email \in Emails
          \/ req[q].op = "updateUser" /\ req[q].id \in Users
      BY <1>1, <1>2 DEF Carries, At
    <2>5. Carries(new)
      <3> HIDE DEF new
      <3> QED BY <1>1, <2>2, <2>3, <2>4 DEF Carries
    <2> QED BY <1>2, <2>1, <2>5, GoStep
  <1> QED BY <1>3, <1>4

LEMMA CheckEmailKeeps == ASSUME AccountsIInv, NEW q \in Requests, CheckEmail(q) PROVE AccountsIInv'
  <1> DEFINE new == [req[q] EXCEPT !.at = "lookupRole"]
  <1>1. req[q] \in Request /\ Carries(req[q])
    BY DEF AccountsIInv
  <1>2. At(q, "checkEmail") /\ UNCHANGED <<collections, claims, start, history>>
    BY DEF CheckEmail
  <1>3. CASE Go(q, "lookupRole")
    <2>1. new.at = "lookupRole" /\ new.email = req[q].email /\ new.gone = req[q].gone
      BY <1>1 DEF Request
    <2>2. Carries(new)
      <3> HIDE DEF new
      <3> QED BY <1>1, <1>2, <2>1 DEF Carries, At
    <2> QED BY <1>2, <1>3, <2>2, GoStep DEF Stages
  <1>4. CASE Failed(q)
    BY <1>2, <1>4, OverStep
  <1> QED BY <1>3, <1>4 DEF CheckEmail

LEMMA LookupRoleKeeps == ASSUME AccountsIInv, NEW q \in Requests, LookupRole(q) PROVE AccountsIInv'
  <1>1. req \in [Requests -> Request] /\ req[q] \in Request /\ Carries(req[q])
    BY DEF AccountsIInv
  <1>2. At(q, "lookupRole") /\ UNCHANGED <<collections, claims, start, history>>
    BY DEF LookupRole
  <1>3. CASE Failed(q)
    BY <1>2, <1>3, OverStep
  <1>4. ASSUME NEW r \in RoleIds, LiveRole(r),
               req' = [req EXCEPT ![q].at = "insertUser", ![q].role = r]
        PROVE  AccountsIInv'
    <2> DEFINE new == [req[q] EXCEPT !.at = "insertUser", !.role = r]
    <2>1. req' = [req EXCEPT ![q] = new]
      BY <1>1, <1>4
    <2>2. new \in Request
      BY <1>1 DEF Request, Stages
    <2>3. /\ new.at = "insertUser" /\ new.role = r /\ new.email = req[q].email
          /\ new.gone = req[q].gone
      BY <1>1 DEF Request
    <2>4. r \notin req[q].gone
      BY <1>1, <1>4 DEF Carries, Buried, LiveRole, AccountsIInv, AccountsTypeOK
    <2>5. Carries(new)
      <3> HIDE DEF new
      <3> QED BY <1>1, <1>2, <2>3, <2>4 DEF Carries, At
    <2> HIDE DEF new
    <2> QED BY <1>2, <2>1, <2>2, <2>5, QuietStep
  <1> QED BY <1>3, <1>4 DEF LookupRole

LEMMA FindUserKeeps == ASSUME AccountsIInv, NEW q \in Requests, FindUser(q) PROVE AccountsIInv'
  <1>1. req \in [Requests -> Request] /\ req[q] \in Request /\ Carries(req[q])
    BY DEF AccountsIInv
  <1>2. UNCHANGED <<collections, claims, start, history>>
    BY DEF FindUser
  <1>3. CASE Failed(q)
    BY <1>2, <1>3, OverStep
  <1>4. ASSUME NEW u \in Users, req' = [req EXCEPT ![q].at = "loadUser", ![q].id = u]
        PROVE  AccountsIInv'
    <2> DEFINE new == [req[q] EXCEPT !.at = "loadUser", !.id = u]
    <2>1. req' = [req EXCEPT ![q] = new]
      BY <1>1, <1>4
    <2>2. new \in Request
      BY <1>1 DEF Request, Stages
    <2>3. new.at = "loadUser" /\ new.id = u /\ new.gone = req[q].gone
      BY <1>1 DEF Request
    <2>4. Carries(new)
      <3> HIDE DEF new
      <3> QED BY <1>1, <2>3 DEF Carries
    <2> HIDE DEF new
    <2> QED BY <1>2, <2>1, <2>2, <2>4, QuietStep
  <1> QED BY <1>3, <1>4 DEF FindUser

(* The role a user has was given to it.                                    *)
LEMMA LoadUserKeeps == ASSUME AccountsIInv, NEW q \in Requests, LoadUser(q) PROVE AccountsIInv'
  <1>1. req \in [Requests -> Request] /\ req[q] \in Request /\ Carries(req[q])
    BY DEF AccountsIInv
  <1>2. At(q, "loadUser") /\ UNCHANGED <<collections, claims, start, history>>
    BY DEF LoadUser
  <1>3. CASE ~LiveUser(req[q].id)
    BY <1>2, <1>3, OverStep DEF LoadUser
  <1>4. CASE LiveUser(req[q].id)
    <2> DEFINE u == req[q].id
               new == [req[q] EXCEPT !.at = "loadRole", !.role = users[u].role]
    <2>1. req' = [req EXCEPT ![q] = new]
      BY <1>1, <1>4 DEF LoadUser
    <2>2. u \in Users /\ users[u] # None
      BY <1>1, <1>2, <1>4 DEF Carries, At, LiveUser
    <2>3. users[u].role \in given[u] /\ users[u] \in User
      BY <2>2 DEF AccountsIInv, AccountsTypeOK, Recorded
    <2>4. users[u].role \in RoleIds
      BY <2>3 DEF User
    <2>5. new \in Request
      BY <1>1, <2>4 DEF Request, Stages
    <2>6. /\ new.at = "loadRole" /\ new.id = u /\ new.role = users[u].role
          /\ new.gone = req[q].gone
      BY <1>1 DEF Request
    <2>7. Carries(new)
      <3> HIDE DEF new
      <3> QED BY <1>1, <2>2, <2>3, <2>6 DEF Carries
    <2> HIDE DEF new
    <2> QED BY <1>2, <2>1, <2>5, <2>7, QuietStep
  <1> QED BY <1>3, <1>4

LEMMA CallEndKeeps ==
    ASSUME AccountsIInv, NEW q \in Requests, Reread(q) \/ CallFails(q) PROVE AccountsIInv'
  BY OverStep DEF Reread, CallFails

(* Steps that write: the collections stay well formed, and what a call     *)
(* under way and an initializer at work rely on stays.                     *)
Collections ==
    /\ roles \in [RoleIds -> Role \union {None}]
    /\ users \in [Users -> User \union {None}]
    /\ purged \subseteq RoleIds
    /\ \A r \in purged : roles[r] = None

OneBearer(n) == \A r, s \in RoleIds : roles[r] # None /\ roles[r].name = n
                                    /\ roles[s] # None /\ roles[s].name = n => r = s

OneOwner(e) == \A u, v \in Users : users[u] # None /\ users[u].email = e
                                 /\ users[v] # None /\ users[v].email = e => u = v

Bearers == \A n : OneBearer(n)

Owners == \A e : OneOwner(e)

Claimed == claims \subseteq [user: Users, role: Names \union {None}]

LEMMA TypeParts ==
    AccountsTypeOK <=> Collections /\ Claimed /\ Bearers /\ Owners
  BY DEF AccountsTypeOK, Collections, Claimed, Bearers, Owners, OneBearer, OneOwner

LEMMA TypePartsNext ==
    AccountsTypeOK' <=> Collections' /\ Claimed' /\ Bearers' /\ Owners'
  BY TypeParts, PTL

(* What a write of the roles leaves to the users, and the other way round. *)
LEMMA RolesWritten ==
    ASSUME AccountsIInv, UNCHANGED <<users, claims, given>>,
           Collections', \A n : OneBearer(n)',
           bore' \in [RoleIds -> SUBSET Names], \A r \in RoleIds : bore[r] \subseteq bore'[r],
           \A r \in RoleIds : roles'[r] # None => roles'[r].name \in bore'[r]
    PROVE  AccountsTypeOK' /\ Recorded' /\ ClaimsWereGranted'
  <1>1. AccountsTypeOK'
    <2>1. Claimed /\ Owners
      BY TypeParts DEF AccountsIInv
    <2>2. Claimed' /\ Owners'
      BY <2>1 DEF Claimed, Owners, OneOwner
    <2>3. Bearers'
      BY DEF Bearers
    <2> QED BY <2>2, <2>3, TypePartsNext
  <1>2. Recorded'
    BY DEF AccountsIInv, Recorded
  <1>3. ClaimsWereGranted'
    <2>1. \A u \in Users : given[u] \subseteq RoleIds
      BY DEF AccountsIInv, Recorded
    <2>2. \A c \in claims : c.user \in Users
      BY DEF AccountsIInv, AccountsTypeOK
    <2> QED BY <2>1, <2>2 DEF AccountsIInv, ClaimsWereGranted
  <1> QED BY <1>1, <1>2, <1>3

LEMMA UsersWritten ==
    ASSUME AccountsIInv, UNCHANGED <<roles, purged, claims, start, bore>>,
           users' \in [Users -> User \union {None}], \A e : OneOwner(e)',
           given' \in [Users -> SUBSET RoleIds], \A u \in Users : given[u] \subseteq given'[u],
           \A u \in Users : users'[u] # None => users'[u].role \in given'[u]
    PROVE  AccountsTypeOK' /\ Recorded' /\ ClaimsWereGranted'
           /\ start' \in [Starts -> Starting] /\ \A p \in Starts : Behind(p)'
  <1>1. AccountsTypeOK'
    <2>1. Claimed /\ Collections /\ Bearers
      BY TypeParts DEF AccountsIInv
    <2>2. Claimed' /\ Collections' /\ Bearers'
      BY <2>1 DEF Claimed, Collections, Bearers, OneBearer
    <2>3. Owners'
      BY DEF Owners
    <2> QED BY <2>2, <2>3, TypePartsNext
  <1>2. Recorded'
    BY DEF AccountsIInv, Recorded
  <1>3. ClaimsWereGranted'
    <2>1. \A c \in claims : c.user \in Users
      BY DEF AccountsIInv, AccountsTypeOK
    <2> QED BY <2>1 DEF AccountsIInv, ClaimsWereGranted
  <1>4. start' \in [Starts -> Starting] /\ \A p \in Starts : Behind(p)'
    BY NoStartStep
  <1> QED BY <1>1, <1>2, <1>3, <1>4

(* A new role takes a free name, and no other role, nor any user, changes. *)
LEMMA NewRoleKeeps ==
    ASSUME AccountsIInv, NEW r \in FreshRoles, NEW n \in Names, FreeName(n), NewRole(r, n),
           UNCHANGED claims
    PROVE  /\ AccountsTypeOK' /\ Recorded' /\ ClaimsWereGranted' /\ Onward
           /\ roles'[r] # None /\ roles'[r].name = n
           /\ \A s \in RoleIds : roles[s] # None => roles'[s] # None /\ roles'[s].name = roles[s].name
  <1>1. r \in RoleIds /\ roles[r] = None /\ r \notin purged
    BY DEF FreshRoles
  <1> DEFINE new == [name |-> n, deletedAt |-> None]
  <1>2. new \in Role /\ new # None /\ new.name = n
    <2>1. new \in Role
      BY DEF Role, Times
    <2>2. None \notin Role
      BY AccountsAssumption
    <2> QED BY <2>1, <2>2
  <1>3. roles' = [roles EXCEPT ![r] = new] /\ bore' = [bore EXCEPT ![r] = @ \union {n}]
        /\ UNCHANGED <<users, purged, given>>
    BY DEF NewRole
  <1> HIDE DEF new
  <1>4. Collections /\ Recorded /\ \A m : OneBearer(m)
    BY TypeParts DEF AccountsIInv, Bearers
  <1>5. roles'[r] = new /\ \A s \in RoleIds \ {r} : roles'[s] = roles[s]
    BY <1>1, <1>3, <1>4 DEF Collections
  <1>6. Collections'
    BY <1>1, <1>2, <1>3, <1>4 DEF Collections
  <1>7. \A m : OneBearer(m)'
    BY <1>2, <1>4, <1>5 DEF OneBearer, FreeName
  <1>8. bore' \in [RoleIds -> SUBSET Names] /\ \A s \in RoleIds : bore[s] \subseteq bore'[s]
        /\ n \in bore'[r]
    BY <1>1, <1>3, <1>4 DEF Recorded
  <1>9. \A s \in RoleIds : roles'[s] # None => roles'[s].name \in bore'[s]
    BY <1>2, <1>4, <1>5, <1>8 DEF Recorded
  <1>10. AccountsTypeOK' /\ Recorded' /\ ClaimsWereGranted'
    BY <1>3, <1>6, <1>7, <1>8, <1>9, RolesWritten
  <1>11. Onward
    BY <1>1, <1>3, <1>5 DEF Onward, Buried
  <1> QED BY <1>1, <1>2, <1>5, <1>10, <1>11

LEMMA InsertRoleKeeps == ASSUME AccountsIInv, NEW q \in Requests, InsertRole(q) PROVE AccountsIInv'
  <1>1. req \in [Requests -> Request] /\ req[q] \in Request /\ Carries(req[q])
    BY DEF AccountsIInv
  <1>2. At(q, "insertRole") /\ UNCHANGED <<claims, start>>
    BY DEF InsertRole
  <1>3. CASE Failed(q) /\ UNCHANGED <<collections, history>>
    BY <1>2, <1>3, OverStep
  <1>4. CASE FreeName(req[q].name) /\ Done(q) /\ \E r \in FreshRoles : NewRole(r, req[q].name)
    <2> DEFINE n == req[q].name
    <2>1. PICK r \in FreshRoles : NewRole(r, n)
      BY <1>4
    <2>2. n \in Names
      BY <1>1, <1>2 DEF Carries, At
    <2>3. /\ AccountsTypeOK' /\ Recorded' /\ ClaimsWereGranted' /\ Onward
          /\ \A s \in RoleIds : roles[s] # None => roles'[s] # None /\ roles'[s].name = roles[s].name
      <3> HIDE DEF n
      <3>1. FreeName(n)
        BY <1>4 DEF n
      <3> QED BY <1>2, <2>1, <2>2, <3>1, NewRoleKeeps
    <2>4. start' \in [Starts -> Starting] /\ \A p \in Starts : Behind(p)'
      BY <1>2, <2>3, NoStartStep
    <2>6. req' \in [Requests -> Request] /\ \A o \in Requests : Carries(req[o])'
      BY <1>4, <2>3, DoneRequests
    <2> QED BY <2>3, <2>4, <2>6 DEF AccountsIInv
  <1> QED BY <1>3, <1>4 DEF InsertRole

(* An initializer at work takes note of a name that goes.                  *)
LEMMA FreedStep ==
    ASSUME AccountsIInv, NEW n \in Names, Freed(n),
           \A r \in RoleIds : roles[r] # None /\ roles[r].name # n =>
                                roles'[r] # None /\ roles'[r].name = roles[r].name
    PROVE  start' \in [Starts -> Starting] /\ \A p \in Starts : Behind(p)'
  <1>1. start \in [Starts -> Starting] /\ \A p \in Starts : Behind(p)
    BY DEF AccountsIInv
  <1>2. ASSUME NEW p \in Starts
        PROVE  /\ start'[p] \in Starting
               /\ start'[p].at = start[p].at /\ start'[p].next = start[p].next
               /\ start'[p].failed = start[p].failed
               /\ start[p].freed \subseteq start'[p].freed
               /\ start[p].at # "none" => n \in start'[p].freed
    <2>1. start[p] \in Starting
      BY <1>1
    <2>2. CASE start[p].at = "none"
      BY <2>1, <2>2 DEF Freed
    <2>3. CASE start[p].at # "none"
      <3>1. start'[p] = [start[p] EXCEPT !.freed = @ \union {n}]
        BY <2>3 DEF Freed
      <3> QED BY <2>1, <3>1 DEF Starting
    <2> QED BY <2>2, <2>3
  <1>3. start' \in [Starts -> Starting]
    BY <1>2 DEF Freed
  <1>4. ASSUME NEW p \in Starts
        PROVE  Behind(p)'
    <2>1. ASSUME NEW i \in DOMAIN Baseline, start[p].at # "none", Kept(p, Baseline[i])
          PROVE  Kept(p, Baseline[i])'
      BY <1>2, <2>1 DEF Kept
    <2>2. start[p].at = "none" => \A i \in DOMAIN Baseline : ~(i < start[p].next)
      <3>1. DOMAIN Baseline = 1 .. Len(Baseline)
        BY AccountsAssumption
      <3> QED BY <1>1, <3>1, AccountsAssumption DEF Behind
    <2> QED BY <1>1, <1>2, <2>1, <2>2 DEF Behind
  <1> QED BY <1>3, <1>4

(* A rename takes a free name, or the one the role has.                    *)
LEMMA SetRoleKeeps == ASSUME AccountsIInv, NEW q \in Requests, SetRole(q) PROVE AccountsIInv'
  <1> DEFINE r == req[q].id
             n == req[q].name
  <1>1. req \in [Requests -> Request] /\ req[q] \in Request /\ Carries(req[q])
    BY DEF AccountsIInv
  <1>2. At(q, "setRole") /\ UNCHANGED <<users, purged, claims, given>>
    BY DEF SetRole
  <1>3. r \in RoleIds /\ n \in Names
    BY <1>1, <1>2 DEF Carries, At
  <1>4. CASE Failed(q) /\ UNCHANGED <<roles, bore, start>>
    BY <1>2, <1>4, OverStep DEF collections, history
  <1>5. CASE /\ MayUpdate(roles[r]) /\ (FreeName(n) \/ roles[r].name = n)
             /\ Done(q)
             /\ roles' = [roles EXCEPT ![r].name = n]
             /\ bore' = [bore EXCEPT ![r] = @ \union {n}]
             /\ IF roles[r].name = n THEN UNCHANGED start ELSE Freed(roles[r].name)
    <2> HIDE DEF r, n
    <2>1. Collections /\ Recorded /\ \A m : OneBearer(m)
      BY TypeParts DEF AccountsIInv, Bearers
    <2>2. roles[r] \in Role /\ roles[r].deletedAt = None /\ roles[r] # None /\ None \notin Role
      BY <1>3, <1>5, <2>1, AccountsAssumption DEF Collections, MayUpdate
    <2>3. /\ roles'[r] = [roles[r] EXCEPT !.name = n]
          /\ \A s \in RoleIds \ {r} : roles'[s] = roles[s]
      BY <1>3, <1>5, <2>1 DEF Collections
    <2>4. roles'[r] \in Role /\ roles'[r].name = n /\ roles'[r].deletedAt = roles[r].deletedAt
      BY <1>3, <2>2, <2>3 DEF Role
    <2>5. Collections'
      <3>1. roles' \in [RoleIds -> Role \union {None}]
        BY <1>3, <1>5, <2>1, <2>3, <2>4 DEF Collections
      <3>2. r \notin purged
        BY <2>1, <2>2 DEF Collections
      <3> QED BY <1>2, <2>1, <2>3, <3>1, <3>2 DEF Collections
    <2>6. \A m : OneBearer(m)'
      <3>1. \A s \in RoleIds \ {r} : roles[s] # None => roles[s].name # n
        BY <1>3, <1>5, <2>1, <2>2 DEF OneBearer, FreeName
      <3>2. ASSUME NEW m, NEW s \in RoleIds, NEW t \in RoleIds,
                   roles'[s] # None, roles'[s].name = m, roles'[t] # None, roles'[t].name = m
            PROVE  s = t
        <4>1. CASE s = r \/ t = r
          <5>1. roles'[r].name = n /\ \A x \in RoleIds \ {r} : roles'[x] = roles[x]
            BY <2>3, <2>4
          <5>2. \A x \in RoleIds \ {r} : roles'[x] # None => roles'[x].name # n
            BY <3>1, <5>1
          <5> QED BY <3>2, <4>1, <5>1, <5>2
        <4>2. CASE s # r /\ t # r
          BY <2>1, <2>3, <3>2, <4>2 DEF OneBearer
        <4> QED BY <4>1, <4>2
      <3> QED BY <3>2 DEF OneBearer
    <2>7. bore' \in [RoleIds -> SUBSET Names] /\ (\A s \in RoleIds : bore[s] \subseteq bore'[s])
          /\ n \in bore'[r]
      BY <1>3, <1>5, <2>1 DEF Recorded
    <2>8. \A s \in RoleIds : roles'[s] # None => roles'[s].name \in bore'[s]
      BY <2>1, <2>3, <2>4, <2>7 DEF Recorded
    <2>9. AccountsTypeOK' /\ Recorded' /\ ClaimsWereGranted'
      BY <1>2, <2>5, <2>6, <2>7, <2>8, RolesWritten
    <2>10. Onward
      BY <1>2, <2>2, <2>3, <2>4 DEF Onward, Buried
    <2>11. start' \in [Starts -> Starting] /\ \A p \in Starts : Behind(p)'
      <3>1. roles'[r] # None /\ roles[r].name \in Names
        BY <2>2, <2>4 DEF Role
      <3>2. CASE roles[r].name = n
        BY <1>5, <2>3, <2>4, <3>1, <3>2, NoStartStep
      <3>3. CASE roles[r].name # n
        BY <1>5, <2>3, <2>4, <3>1, <3>3, FreedStep
      <3> QED BY <3>2, <3>3
    <2>12. req' \in [Requests -> Request] /\ \A o \in Requests : Carries(req[o])'
      BY <1>5, <2>10, DoneRequests
    <2> QED BY <2>9, <2>11, <2>12 DEF AccountsIInv
  <1> QED BY <1>4, <1>5 DEF SetRole

(* A role that is purged stays buried, and its name is free.               *)
LEMMA PurgeKeeps == ASSUME AccountsIInv, NEW q \in Requests, Purge(q) PROVE AccountsIInv'
  <1> DEFINE r == req[q].id
  <1>1. req \in [Requests -> Request] /\ req[q] \in Request /\ Carries(req[q])
    BY DEF AccountsIInv
  <1>2. At(q, "purge") /\ UNCHANGED <<users, claims, history>>
    BY DEF Purge
  <1>3. r \in RoleIds
    BY <1>1, <1>2 DEF Carries, At
  <1>4. CASE Failed(q) /\ UNCHANGED <<roles, purged, start>>
    BY <1>2, <1>4, OverStep DEF collections
  <1>5. CASE /\ roles[r] # None /\ Done(q)
             /\ roles' = [roles EXCEPT ![r] = None] /\ purged' = purged \union {r}
             /\ Freed(roles[r].name)
    <2> HIDE DEF r
    <2>1. Collections /\ Recorded /\ \A m : OneBearer(m)
      BY TypeParts DEF AccountsIInv, Bearers
    <2>2. roles'[r] = None /\ \A s \in RoleIds \ {r} : roles'[s] = roles[s]
      BY <1>3, <1>5, <2>1 DEF Collections
    <2>3. Collections'
      BY <1>2, <1>3, <1>5, <2>1, <2>2 DEF Collections
    <2>4. \A m : OneBearer(m)'
      BY <2>1, <2>2 DEF OneBearer
    <2>5. \A s \in RoleIds : roles'[s] # None => roles'[s].name \in bore'[s]
      BY <1>2, <2>1, <2>2 DEF Recorded, history
    <2>6. AccountsTypeOK' /\ Recorded' /\ ClaimsWereGranted'
      BY <1>2, <2>1, <2>3, <2>4, <2>5, RolesWritten DEF history, Recorded
    <2>7. Onward
      BY <1>2, <1>5, <2>2 DEF Onward, Buried, history
    <2>8. roles[r].name \in Names
      BY <1>3, <1>5, <2>1 DEF Collections, Role
    <2>9. start' \in [Starts -> Starting] /\ \A p \in Starts : Behind(p)'
      BY <1>5, <2>2, <2>8, FreedStep
    <2>10. req' \in [Requests -> Request] /\ \A o \in Requests : Carries(req[o])'
      BY <1>5, <2>7, DoneRequests
    <2> QED BY <2>6, <2>9, <2>10 DEF AccountsIInv
  <1> QED BY <1>4, <1>5 DEF Purge

(* A deletion marks the document as it is by now, not as it was read.      *)
LEMMA SaveKeeps == ASSUME AccountsIInv, NEW q \in Requests, Save(q) PROVE AccountsIInv'
  <1> DEFINE id == req[q].id
             read == req[q].doc
  <1>1. req \in [Requests -> Request] /\ req[q] \in Request /\ Carries(req[q])
    BY DEF AccountsIInv
  <1>2. At(q, "save") /\ UNCHANGED <<purged, claims, start, history>>
    BY DEF Save
  <1>3. Collections /\ Recorded /\ (\A m : OneBearer(m)) /\ (\A e : OneOwner(e))
    BY TypeParts DEF AccountsIInv, Bearers, Owners
  <1>4. CASE UNCHANGED <<roles, users>> /\ Failed(q)
    BY <1>2, <1>4, OverStep DEF collections
  <1>5. CASE /\ req[q].op = "softDeleteRole" /\ roles[id] # None
             /\ roles' = [roles EXCEPT ![id] = Deletion(@, read, q)] /\ Done(q) /\ UNCHANGED users
    <2>1. id \in RoleIds
      BY <1>1, <1>2, <1>5 DEF Carries, At
    <2> HIDE DEF id, read
    <2>2. roles[id] \in Role /\ None \notin Role
      BY <1>3, <1>5, <2>1, AccountsAssumption DEF Collections
    <2>3. /\ roles'[id] = [roles[id] EXCEPT !.deletedAt = q]
          /\ \A s \in RoleIds \ {id} : roles'[s] = roles[s]
      BY <1>3, <1>5, <2>1 DEF Collections, Deletion
    <2>4. roles'[id] \in Role /\ roles'[id].name = roles[id].name /\ roles'[id].deletedAt # None
      BY <2>2, <2>3, AccountsAssumption DEF Role, Times
    <2>5. Collections'
      <3>1. roles' \in [RoleIds -> Role \union {None}]
        BY <1>3, <1>5, <2>1, <2>3, <2>4 DEF Collections
      <3>2. \A s \in purged : s # id /\ roles'[s] = None
        BY <1>3, <1>5, <2>3 DEF Collections
      <3> QED BY <1>2, <1>3, <1>5, <3>1, <3>2 DEF Collections
    <2>6. \A m : OneBearer(m)'
      BY <1>3, <1>5, <2>3, <2>4 DEF OneBearer
    <2>7. \A s \in RoleIds : roles'[s] # None => roles'[s].name \in bore'[s]
      BY <1>2, <1>3, <1>5, <2>3, <2>4 DEF Recorded, history
    <2>8. AccountsTypeOK' /\ Recorded' /\ ClaimsWereGranted'
      BY <1>2, <1>3, <1>5, <2>5, <2>6, <2>7, RolesWritten DEF history, Recorded
    <2>9. Onward
      BY <1>2, <1>5, <2>2, <2>3, <2>4 DEF Onward, Buried, history
    <2>10. \A s \in RoleIds : roles[s] # None => roles'[s] # None /\ roles'[s].name = roles[s].name
      BY <2>2, <2>3, <2>4
    <2>11. start' \in [Starts -> Starting] /\ \A p \in Starts : Behind(p)'
      BY <1>2, <2>10, NoStartStep
    <2>12. req' \in [Requests -> Request] /\ \A o \in Requests : Carries(req[o])'
      BY <1>5, <2>9, DoneRequests
    <2> QED BY <2>8, <2>11, <2>12 DEF AccountsIInv
  <1>6. CASE /\ req[q].op = "softDeleteUser"
             /\ users' = [users EXCEPT ![id] = Deletion(@, read, q)] /\ Done(q) /\ UNCHANGED roles
    <2>1. id \in Users /\ users[id] # None
      BY <1>1, <1>2, <1>6 DEF Carries, At
    <2> HIDE DEF id, read
    <2>2. users[id] \in User /\ None \notin User
      BY <1>3, <2>1, AccountsAssumption DEF Collections
    <2>3. /\ users'[id] = [users[id] EXCEPT !.deletedAt = q]
          /\ \A u \in Users \ {id} : users'[u] = users[u]
      BY <1>3, <1>6, <2>1 DEF Collections, Deletion
    <2>4. users'[id] \in User /\ users'[id].email = users[id].email /\ users'[id].role = users[id].role
      BY <2>2, <2>3 DEF User, Times
    <2>5. users' \in [Users -> User \union {None}]
      BY <1>3, <1>6, <2>1, <2>3, <2>4 DEF Collections
    <2>6. \A e : OneOwner(e)'
      <3>1. \A u \in Users : users'[u] # None => users[u] # None /\ users'[u].email = users[u].email
        BY <2>1, <2>3, <2>4
      <3> QED BY <1>3, <3>1 DEF OneOwner
    <2>7. \A u \in Users : users'[u] # None => users'[u].role \in given'[u]
      BY <1>2, <1>3, <2>1, <2>3, <2>4 DEF Recorded, history
    <2>8. /\ AccountsTypeOK' /\ Recorded' /\ ClaimsWereGranted'
          /\ start' \in [Starts -> Starting] /\ \A p \in Starts : Behind(p)'
      BY <1>2, <1>3, <1>6, <2>5, <2>6, <2>7, UsersWritten DEF history, Recorded
    <2>9. Onward
      BY <1>2, <1>6, <2>2, <2>3, <2>4 DEF Onward, Buried, history
    <2>10. req' \in [Requests -> Request] /\ \A o \in Requests : Carries(req[o])'
      BY <1>6, <2>9, DoneRequests
    <2> QED BY <2>8, <2>10 DEF AccountsIInv
  <1> QED BY <1>4, <1>5, <1>6 DEF Save

(* A new user takes a free email, and the role the call brings.            *)
LEMMA InsertUserKeeps == ASSUME AccountsIInv, NEW q \in Requests, InsertUser(q) PROVE AccountsIInv'
  <1>1. req \in [Requests -> Request] /\ req[q] \in Request /\ Carries(req[q])
    BY DEF AccountsIInv
  <1>2. At(q, "insertUser") /\ UNCHANGED <<roles, purged, claims, start, bore>>
    BY DEF InsertUser
  <1>3. CASE Failed(q) /\ UNCHANGED <<users, given>>
    BY <1>2, <1>3, OverStep DEF collections, history
  <1>4. ASSUME NEW u \in FreshUsers, FreeEmail(req[q].email),
               users' = [users EXCEPT ![u] =
                           [email |-> req[q].email, role |-> req[q].role,
                            hashed |-> ~req[q].plain, deletedAt |-> None]],
               Give(u, req[q].role),
               req' = [req EXCEPT ![q].id = u, ![q].at =
                         IF req[q].op = "register" THEN "loadUser" ELSE "reread"]
        PROVE  AccountsIInv'
    <2> DEFINE r == req[q].role
               e == req[q].email
               stage == IF req[q].op = "register" THEN "loadUser" ELSE "reread"
               user == [email |-> e, role |-> r, hashed |-> ~req[q].plain, deletedAt |-> None]
               new == [req[q] EXCEPT !.id = u, !.at = stage]
    <2>1. e \in Emails /\ r \in RoleIds
      BY <1>1, <1>2 DEF Carries, At
    <2>2. u \in Users /\ users[u] = None
      BY <1>4 DEF FreshUsers
    <2>3. user \in User /\ user.email = e /\ user.role = r
      <3>1. (~req[q].plain) \in BOOLEAN
        BY <1>1 DEF Request
      <3> HIDE DEF e, r
      <3> QED BY <2>1, <3>1 DEF User, Times
    <2>4. new \in Request /\ new.id = u /\ new.at = stage /\ new.gone = req[q].gone
      <3>1. stage \in Stages
        BY DEF Stages
      <3> HIDE DEF stage
      <3> QED BY <1>1, <2>2, <3>1 DEF Request
    <2>5. req' = [req EXCEPT ![q] = new]
      BY <1>1, <1>4
    <2>6. users' = [users EXCEPT ![u] = user] /\ FreeEmail(e)
          /\ given' = [given EXCEPT ![u] = @ \union {r}]
      BY <1>4 DEF Give
    <2> HIDE DEF user
    <2>7. Carries(new)
      <3> HIDE DEF new
      <3>1. stage \in {"loadUser", "reread"}
        OBVIOUS
      <3> HIDE DEF stage
      <3> QED BY <1>1, <2>2, <2>4, <3>1 DEF Carries
    <2> HIDE DEF new, r, e, stage
    <2>8. Collections /\ Recorded /\ \A f : OneOwner(f)
      BY TypeParts DEF AccountsIInv, Owners
    <2>9. users'[u] = user /\ \A v \in Users \ {u} : users'[v] = users[v]
      BY <2>2, <2>6, <2>8 DEF Collections
    <2>10. users' \in [Users -> User \union {None}]
      BY <2>3, <2>6, <2>8 DEF Collections
    <2>11. \A f : OneOwner(f)'
      <3>1. \A v \in Users \ {u} : users'[v] # None => users'[v].email # e
        BY <2>6, <2>9 DEF FreeEmail
      <3> QED BY <2>3, <2>8, <2>9, <3>1 DEF OneOwner
    <2>12. given' \in [Users -> SUBSET RoleIds] /\ (\A v \in Users : given[v] \subseteq given'[v])
           /\ r \in given'[u]
      BY <2>1, <2>2, <2>6, <2>8 DEF Recorded
    <2>13. \A v \in Users : users'[v] # None => users'[v].role \in given'[v]
      BY <2>3, <2>8, <2>9, <2>12 DEF Recorded
    <2>14. /\ AccountsTypeOK' /\ Recorded' /\ ClaimsWereGranted'
           /\ start' \in [Starts -> Starting] /\ \A p \in Starts : Behind(p)'
      BY <1>2, <2>10, <2>11, <2>12, <2>13, UsersWritten
    <2>15. Onward
      BY <1>2, <2>2, <2>9, <2>12 DEF Onward, Buried
    <2>16. req' \in [Requests -> Request] /\ \A o \in Requests : Carries(req[o])'
      BY <2>4, <2>5, <2>7, <2>15, RequestStep
    <2> QED BY <2>14, <2>16 DEF AccountsIInv
  <1> QED BY <1>3, <1>4 DEF InsertUser

(* What SetUser makes of a live user, the same way its action reads.       *)
LEMMA SetUserWrites ==
    ASSUME AccountsIInv, NEW q \in Requests, SetUser(q)
    PROVE  LET u == req[q].id
           IN  /\ At(q, "setUser") /\ u \in Users
               /\ UNCHANGED <<roles, purged, claims, start, bore>>
               /\ \/ Failed(q) /\ UNCHANGED <<users, given>>
                  \/ /\ MayUpdate(users[u]) /\ Done(q)
                     /\ users[u] \in User /\ users'[u] \in User
                     /\ \A v \in Users \ {u} : users'[v] = users[v]
                     /\ users' \in [Users -> User \union {None}]
                     /\ \/ users'[u].email = users[u].email
                        \/ /\ FreeEmail(users'[u].email)
                           /\ req[q].email # None /\ users'[u].email = req[q].email
                     /\ users'[u].role \in {users[u].role, req[q].role}
                     /\ users'[u].deletedAt = users[u].deletedAt
                     /\ given' = [given EXCEPT ![u] = @ \union {users'[u].role}]
  <1> DEFINE u == req[q].id
             f == IF req[q].email = None THEN users[u].email ELSE req[q].email
             s == IF req[q].role = None THEN users[u].role ELSE req[q].role
             h == users[u].hashed /\ ~req[q].plain
             user == [users[u] EXCEPT !.email = f, !.role = s, !.hashed = h]
  <1>1. req \in [Requests -> Request] /\ req[q] \in Request /\ Carries(req[q])
    BY DEF AccountsIInv
  <1>2. At(q, "setUser") /\ UNCHANGED <<roles, purged, claims, start, bore>>
    BY DEF SetUser
  <1>3. u \in Users
    BY <1>1, <1>2 DEF Carries, At
  <1>4. CASE Failed(q) /\ UNCHANGED <<users, given>>
    BY <1>2, <1>3, <1>4
  <1>5. CASE /\ MayUpdate(users[u]) /\ (FreeEmail(f) \/ users[u].email = f)
             /\ Done(q)
             /\ users' = [users EXCEPT ![u].email = f, ![u].role = s, ![u].hashed = h]
             /\ Give(u, users'[u].role)
    <2>1. Collections
      BY TypeParts DEF AccountsIInv
    <2>2. users[u] \in User
      BY <1>3, <1>5, <2>1 DEF Collections, MayUpdate
    <2>3. f \in Emails
      BY <1>1, <2>2 DEF Request, User
    <2>4. s \in RoleIds /\ s \in {users[u].role, req[q].role}
      BY <1>1, <2>2 DEF Request, User
    <2>5. h \in BOOLEAN
      OBVIOUS
    <2> HIDE DEF f, s, h
    <2>6. user \in User /\ user.email = f /\ user.role = s /\ user.deletedAt = users[u].deletedAt
      BY <2>2, <2>3, <2>4, <2>5 DEF User
    <2>0. users' = [users EXCEPT ![u] = user]
      <3> HIDE DEF u, f, s, h
      <3> QED BY <1>3, <1>5, <2>1, <2>2 DEF Collections, User
    <2> HIDE DEF user, u
    <2>7. users'[u] = user /\ \A v \in Users \ {u} : users'[v] = users[v]
      BY <1>3, <2>0, <2>1 DEF Collections
    <2>8. users' \in [Users -> User \union {None}]
      BY <1>3, <2>0, <2>1, <2>6 DEF Collections
    <2>9. given' = [given EXCEPT ![u] = @ \union {users'[u].role}]
      BY <1>5 DEF Give
    <2>10. \/ users'[u].email = users[u].email
           \/ /\ FreeEmail(users'[u].email)
              /\ req[q].email # None /\ users'[u].email = req[q].email
      BY <1>5, <2>6, <2>7 DEF f
    <2>11. users'[u] \in User /\ users'[u].deletedAt = users[u].deletedAt
           /\ users'[u].role \in {users[u].role, req[q].role}
      BY <2>4, <2>6, <2>7
    <2> QED BY <1>2, <1>3, <1>5, <2>2, <2>7, <2>8, <2>9, <2>10, <2>11 DEF u
  <1>6. \/ Failed(q) /\ UNCHANGED <<users, given>>
        \/ /\ MayUpdate(users[u]) /\ (FreeEmail(f) \/ users[u].email = f)
           /\ Done(q)
           /\ users' = [users EXCEPT ![u].email = f, ![u].role = s, ![u].hashed = h]
           /\ Give(u, users'[u].role)
    BY DEF SetUser
  <1> QED BY <1>4, <1>5, <1>6

LEMMA SetUserKeeps == ASSUME AccountsIInv, NEW q \in Requests, SetUser(q) PROVE AccountsIInv'
  <1> DEFINE u == req[q].id
  <1>1. req \in [Requests -> Request]
    BY DEF AccountsIInv
  <1>2. u \in Users /\ UNCHANGED <<roles, purged, claims, start, bore>>
    BY SetUserWrites
  <1>3. CASE Failed(q) /\ UNCHANGED <<users, given>>
    BY <1>2, <1>3, OverStep DEF collections, history
  <1>4. CASE /\ MayUpdate(users[u]) /\ Done(q)
             /\ users[u] \in User /\ users'[u] \in User
             /\ \A v \in Users \ {u} : users'[v] = users[v]
             /\ users' \in [Users -> User \union {None}]
             /\ FreeEmail(users'[u].email) \/ users'[u].email = users[u].email
             /\ given' = [given EXCEPT ![u] = @ \union {users'[u].role}]
    <2> HIDE DEF u
    <2>2. Recorded /\ (\A f : OneOwner(f))
      BY TypeParts DEF AccountsIInv, Owners
    <2>3. None \notin User /\ users[u] # None /\ users'[u] # None
      BY <1>4, AccountsAssumption
    <2>4. \A f : OneOwner(f)'
      <3>1. \A v \in Users \ {u} : users[v] # None => users[v].email # users'[u].email
        BY <1>2, <1>4, <2>2, <2>3 DEF OneOwner, FreeEmail
      <3>2. ASSUME NEW f, NEW v \in Users, NEW w \in Users,
                   users'[v] # None, users'[v].email = f, users'[w] # None, users'[w].email = f
            PROVE  v = w
        <4>1. CASE v = u \/ w = u
          BY <1>4, <3>1, <3>2, <4>1
        <4>2. CASE v # u /\ w # u
          BY <1>4, <2>2, <3>2, <4>2 DEF OneOwner
        <4> QED BY <4>1, <4>2
      <3> QED BY <3>2 DEF OneOwner
    <2>5. users'[u].role \in RoleIds
      BY <1>4 DEF User
    <2>6. given' \in [Users -> SUBSET RoleIds] /\ (\A v \in Users : given[v] \subseteq given'[v])
          /\ users'[u].role \in given'[u]
      BY <1>2, <1>4, <2>2, <2>5 DEF Recorded
    <2>7. \A v \in Users : users'[v] # None => users'[v].role \in given'[v]
      BY <1>4, <2>2, <2>6 DEF Recorded
    <2>8. /\ AccountsTypeOK' /\ Recorded' /\ ClaimsWereGranted'
          /\ start' \in [Starts -> Starting] /\ \A p \in Starts : Behind(p)'
      BY <1>2, <1>4, <2>4, <2>6, <2>7, UsersWritten
    <2>9. Onward
      BY <1>2, <1>4, <2>3, <2>6 DEF Onward, Buried
    <2>10. req' \in [Requests -> Request] /\ \A o \in Requests : Carries(req[o])'
      BY <1>4, <2>9, DoneRequests
    <2> QED BY <2>8, <2>10 DEF AccountsIInv
  <1> QED BY <1>3, <1>4, SetUserWrites

(* The role that goes into a token is one the user was given, by a name it *)
(* bore; a purged role gives none.                                         *)
LEMMA LoadRoleKeeps == ASSUME AccountsIInv, NEW q \in Requests, LoadRole(q) PROVE AccountsIInv'
  <1> DEFINE u == req[q].id
             r == req[q].role
             name == SignedRole(r)
  <1>1. req \in [Requests -> Request] /\ req[q] \in Request /\ Carries(req[q])
    BY DEF AccountsIInv
  <1>2. At(q, "loadRole") /\ Done(q) /\ UNCHANGED <<collections, start, history>>
    BY DEF LoadRole
  <1>3. claims' = claims \union {[user |-> u, role |-> name]}
    BY DEF LoadRole
  <1>4. req' = [req EXCEPT ![q] = [req[q] EXCEPT !.at = "done"]]
    BY <1>1, <1>2 DEF Done, Go
  <1>5. u \in Users /\ r \in given[u]
    BY <1>1, <1>2 DEF Carries, At
  <1> HIDE DEF u, r
  <1>6. Recorded /\ Collections /\ Claimed
    BY TypeParts DEF AccountsIInv
  <1>7. r \in RoleIds
    BY <1>5, <1>6 DEF Recorded
  <1>8. name \in Names \union {None} /\ (name = None \/ name \in bore[r])
    BY <1>6, <1>7 DEF SignedRole, Recorded, Collections, Role
  <1> HIDE DEF name
  <1>9. ClaimsWereGranted'
    BY <1>2, <1>3, <1>5, <1>8 DEF AccountsIInv, ClaimsWereGranted, history
  <1>10. AccountsTypeOK' /\ Recorded'
    BY <1>2, <1>3, <1>5, <1>8 DEF AccountsIInv, AccountsTypeOK, Recorded, collections, history
  <1>11. Onward
    BY <1>2, Standing
  <1>12. start' \in [Starts -> Starting] /\ \A p \in Starts : Behind(p)'
    BY <1>2, NoStartStep DEF collections
  <1>13. req' \in [Requests -> Request] /\ \A o \in Requests : Carries(req[o])'
    BY <1>4, <1>11, OverCarries, RequestStep
  <1> QED BY <1>9, <1>10, <1>12, <1>13 DEF AccountsIInv

----------------------------------------------------------------------------
(* The initializers.                                                       *)

LEMMA BaselineNames ==
    /\ Len(Baseline) \in Nat \ {0} /\ DOMAIN Baseline = 1 .. Len(Baseline)
    /\ \A i \in 1 .. Len(Baseline) : Baseline[i] \in Names
  BY AccountsAssumption

(* One initializer steps, with the names of its roles still there.         *)
LEMMA StartStep ==
    ASSUME AccountsIInv, NEW p \in Starts, NEW new \in Starting,
           start' = [start EXCEPT ![p] = new],
           \A r \in RoleIds : roles[r] # None => roles'[r] # None /\ roles'[r].name = roles[r].name,
           new.at = "none" => new.next = 1,
           new.at \in {"find", "create"} => new.next <= Len(Baseline),
           new.at = "over" => new.next = Len(Baseline) + 1,
           new.freed = start[p].freed,
           ~new.failed => ~start[p].failed,
           ~new.failed => \A i \in DOMAIN Baseline : i < new.next =>
                \/ i < start[p].next
                \/ \E r \in RoleIds : roles'[r] # None /\ roles'[r].name = Baseline[i]
    PROVE  start' \in [Starts -> Starting] /\ \A s \in Starts : Behind(s)'
  <1>1. start \in [Starts -> Starting] /\ \A s \in Starts : Behind(s)
    BY DEF AccountsIInv
  <1>2. start' \in [Starts -> Starting] /\ start'[p] = new
        /\ \A s \in Starts \ {p} : start'[s] = start[s]
    BY <1>1
  <1>3. ASSUME NEW s \in Starts, NEW n, Kept(s, n)
        PROVE  Kept(s, n)'
    <2>1. start'[s].freed = start[s].freed
      BY <1>2
    <2> QED BY <1>3, <2>1 DEF Kept
  <1>4. ASSUME NEW s \in Starts, s # p
        PROVE  Behind(s)'
    <2>1. \A i \in DOMAIN Baseline : Kept(s, Baseline[i]) => Kept(s, Baseline[i])'
      BY <1>3
    <2>2. start'[s] = start[s]
      BY <1>2, <1>4
    <2> QED BY <1>1, <2>1, <2>2 DEF Behind
  <1>5. Behind(p)'
    <2>1. ASSUME ~new.failed, NEW i \in DOMAIN Baseline, i < new.next
          PROVE  Kept(p, Baseline[i])'
      <3>1. CASE i < start[p].next
        <4>1. Kept(p, Baseline[i])
          BY <1>1, <2>1, <3>1 DEF Behind
        <4> QED BY <1>3, <4>1
      <3>2. CASE \E r \in RoleIds : roles'[r] # None /\ roles'[r].name = Baseline[i]
        BY <3>2 DEF Kept
      <3> QED BY <2>1, <3>1, <3>2
    <2> QED BY <1>2, <2>1 DEF Behind
  <1> QED BY <1>2, <1>4, <1>5

(* The step from one role to the next, with what it leaves behind.         *)
LEMMA OneFurtherStarts ==
    ASSUME NEW s \in Starting, s.next <= Len(Baseline)
    PROVE  LET t == OneFurther(s)
           IN  /\ t \in Starting /\ t.next = s.next + 1
               /\ t.at \in {"find", "over"}
               /\ t.at = "find" => t.next <= Len(Baseline)
               /\ t.at = "over" => t.next = Len(Baseline) + 1
               /\ t.freed = s.freed /\ t.failed = s.failed
  <1> DEFINE at == IF s.next = Len(Baseline) THEN "over" ELSE "find"
             t == [s EXCEPT !.next = @ + 1, !.at = at]
  <1>1. s.next \in 1 .. Len(Baseline) + 1 /\ Len(Baseline) \in Nat
    BY BaselineNames DEF Starting
  <1>2. s.next + 1 \in 1 .. Len(Baseline) + 1
    BY <1>1
  <1>3. at \in {"find", "over"} /\ (at = "over" <=> s.next = Len(Baseline))
    OBVIOUS
  <1>4. t = OneFurther(s)
    BY DEF OneFurther
  <1> HIDE DEF at
  <1>5. /\ t \in Starting /\ t.next = s.next + 1 /\ t.at = at
        /\ t.freed = s.freed /\ t.failed = s.failed
    BY <1>2, <1>3 DEF Starting
  <1> HIDE DEF t
  <1>6. t.at = "find" => t.next <= Len(Baseline)
    BY <1>1, <1>3, <1>5
  <1>7. t.at = "over" => t.next = Len(Baseline) + 1
    BY <1>1, <1>3, <1>5
  <1> QED BY <1>3, <1>4, <1>5, <1>6, <1>7

LEMMA FindRoleStarts ==
    ASSUME AccountsIInv, NEW p \in Starts, StartAt(p, "find") \/ StartAt(p, "create")
    PROVE  start[p] \in Starting /\ start[p].next \in 1 .. Len(Baseline)
  BY BaselineNames DEF AccountsIInv, Behind, StartAt, Starting

(* Begin, FindRole, StartDies: nothing is written.                         *)
LEMMA ReadingStart ==
    ASSUME AccountsIInv, NEW p \in Starts, Begin(p) \/ FindRole(p) \/ StartDies(p)
    PROVE  start' \in [Starts -> Starting] /\ \A s \in Starts : Behind(s)'
  <1>1. start \in [Starts -> Starting] /\ start[p] \in Starting /\ Behind(p)
    BY DEF AccountsIInv
  <1>2. UNCHANGED collections
    BY DEF Begin, FindRole, StartDies
  <1>3. \A r \in RoleIds : roles[r] # None => roles'[r] # None /\ roles'[r].name = roles[r].name
    BY <1>2 DEF collections
  <1>4. ASSUME NEW stage \in {"find", "create", "dead"}, start' = [start EXCEPT ![p].at = stage],
               stage \in {"find", "create"} => start[p].next <= Len(Baseline)
        PROVE  start' \in [Starts -> Starting] /\ \A s \in Starts : Behind(s)'
    <2> DEFINE new == [start[p] EXCEPT !.at = stage]
    <2>1. start' = [start EXCEPT ![p] = new]
      BY <1>1, <1>4
    <2>2. new \in Starting /\ new.at = stage /\ new.next = start[p].next
          /\ new.freed = start[p].freed /\ new.failed = start[p].failed
      BY <1>1 DEF Starting
    <2> HIDE DEF new
    <2>3. /\ new.at # "none" /\ new.at # "over"
          /\ new.at \in {"find", "create"} => new.next <= Len(Baseline)
      BY <1>4, <2>2
    <2>4. /\ ~new.failed => ~start[p].failed
          /\ \A i \in DOMAIN Baseline : i < new.next => i < start[p].next
      BY <2>2
    <2> QED BY <1>3, <2>1, <2>2, <2>3, <2>4, StartStep
  <1>5. CASE Begin(p)
    <2>1. start[p].next = 1 /\ 1 <= Len(Baseline)
      BY <1>1, <1>5, BaselineNames DEF Begin, StartAt, Behind
    <2> QED BY <1>4, <1>5, <2>1 DEF Begin
  <1>6. CASE StartDies(p)
    BY <1>4, <1>6 DEF StartDies
  <1>7. CASE FindRole(p) /\ start' = [start EXCEPT ![p].at = "create"]
    <2>1. start[p].next <= Len(Baseline)
      BY <1>1, <1>7 DEF FindRole, StartAt, Behind
    <2> QED BY <1>4, <1>7, <2>1
  <1>8. ASSUME FindRole(p), NEW r \in RoleIds, LiveRole(r), roles[r].name = BaselineName(p),
               start' = [start EXCEPT ![p] = OneFurther(@)]
        PROVE  start' \in [Starts -> Starting] /\ \A s \in Starts : Behind(s)'
    <2> DEFINE new == OneFurther(start[p])
    <2>1. start[p].next \in 1 .. Len(Baseline) /\ start[p].next <= Len(Baseline)
      BY <1>8, FindRoleStarts, BaselineNames DEF FindRole
    <2>2. /\ new \in Starting /\ new.next = start[p].next + 1
          /\ new.at \in {"find", "over"}
          /\ new.at = "find" => new.next <= Len(Baseline)
          /\ new.at = "over" => new.next = Len(Baseline) + 1
          /\ new.freed = start[p].freed /\ new.failed = start[p].failed
      BY <1>1, <2>1, OneFurtherStarts
    <2>3. start' = [start EXCEPT ![p] = new]
      BY <1>1, <1>8
    <2> HIDE DEF new
    <2>4. roles'[r] # None /\ roles'[r].name = Baseline[start[p].next]
      BY <1>2, <1>8 DEF collections, LiveRole, BaselineName
    <2>5. \A i \in DOMAIN Baseline : i < new.next => i < start[p].next \/ i = start[p].next
      BY <2>1, <2>2, BaselineNames
    <2> QED BY <1>3, <2>2, <2>3, <2>4, <2>5, StartStep
  <1> QED BY <1>5, <1>6, <1>7, <1>8 DEF Begin, FindRole, StartDies

LEMMA ReadingStartKeeps ==
    ASSUME AccountsIInv, NEW p \in Starts, Begin(p) \/ FindRole(p) \/ StartDies(p)
    PROVE  AccountsIInv'
  <1>1. UNCHANGED <<collections, claims, req, history>>
    BY DEF Begin, FindRole, StartDies
  <1>2. start' \in [Starts -> Starting] /\ \A s \in Starts : Behind(s)'
    BY ReadingStart
  <1>3. req' \in [Requests -> Request] /\ \A o \in Requests : Carries(req[o])'
    BY <1>1, Standing, NoRequestStep
  <1>4. AccountsTypeOK' /\ Recorded' /\ ClaimsWereGranted'
    BY <1>1 DEF AccountsIInv, AccountsTypeOK, Recorded, ClaimsWereGranted, collections, history
  <1> QED BY <1>2, <1>3, <1>4 DEF AccountsIInv

(* A creation that is refused found the name taken, deleted or not.        *)
LEMMA CreatingStartKeeps ==
    ASSUME AccountsIInv, NEW p \in Starts, CreateRole(p) \/ CreateFails(p)
    PROVE  AccountsIInv'
  <1>1. start \in [Starts -> Starting] /\ start[p] \in Starting /\ Behind(p)
    BY DEF AccountsIInv
  <1>2. start[p].next \in 1 .. Len(Baseline) /\ start[p].next <= Len(Baseline)
    BY FindRoleStarts, BaselineNames DEF CreateRole, CreateFails
  <1> DEFINE n == BaselineName(p)
             new == OneFurther(start[p])
  <1>3. n \in Names /\ n = Baseline[start[p].next]
    BY <1>2, BaselineNames DEF BaselineName
  <1>4. /\ new \in Starting /\ new.next = start[p].next + 1
        /\ new.at \in {"find", "over"}
        /\ new.at = "find" => new.next <= Len(Baseline)
        /\ new.at = "over" => new.next = Len(Baseline) + 1
        /\ new.freed = start[p].freed /\ new.failed = start[p].failed
    BY <1>1, <1>2, OneFurtherStarts
  <1>5. UNCHANGED <<claims, req>>
    BY DEF CreateRole, CreateFails
  <1>6. CASE CreateFails(p)
    <2> DEFINE stopped == [new EXCEPT !.failed = TRUE]
    <2>1. start' = [start EXCEPT ![p] = stopped] /\ UNCHANGED <<collections, history>>
      BY <1>1, <1>6 DEF CreateFails
    <2> HIDE DEF new
    <2>2. stopped \in Starting /\ stopped.next = new.next /\ stopped.at = new.at
          /\ stopped.freed = start[p].freed /\ stopped.failed
      BY <1>4 DEF Starting
    <2> HIDE DEF stopped
    <2>3. \A r \in RoleIds : roles[r] # None => roles'[r] # None /\ roles'[r].name = roles[r].name
      BY <2>1 DEF collections
    <2>4. start' \in [Starts -> Starting] /\ \A s \in Starts : Behind(s)'
      BY <1>4, <2>1, <2>2, <2>3, StartStep
    <2>5. req' \in [Requests -> Request] /\ \A o \in Requests : Carries(req[o])'
      BY <1>5, <2>1, Standing, NoRequestStep
    <2>6. AccountsTypeOK' /\ Recorded' /\ ClaimsWereGranted'
      BY <1>5, <2>1 DEF AccountsIInv, AccountsTypeOK, Recorded, ClaimsWereGranted, collections, history
    <2> QED BY <2>4, <2>5, <2>6 DEF AccountsIInv
  <1>7. ASSUME start' = [start EXCEPT ![p] = new],
               AccountsTypeOK', Recorded', ClaimsWereGranted', Onward,
               \E r \in RoleIds : roles'[r] # None /\ roles'[r].name = n,
               \A r \in RoleIds : roles[r] # None => roles'[r] # None /\ roles'[r].name = roles[r].name
        PROVE  AccountsIInv'
    <2> HIDE DEF new, n
    <2>1. \A i \in DOMAIN Baseline : i < new.next => i < start[p].next \/ i = start[p].next
      BY <1>2, <1>4, BaselineNames
    <2>2. start' \in [Starts -> Starting] /\ \A s \in Starts : Behind(s)'
      BY <1>3, <1>4, <1>7, <2>1, StartStep
    <2>3. req' \in [Requests -> Request] /\ \A o \in Requests : Carries(req[o])'
      BY <1>5, <1>7, NoRequestStep
    <2> QED BY <1>7, <2>2, <2>3 DEF AccountsIInv
  <1>8. CASE CreateRole(p)
    <2>1. start' = [start EXCEPT ![p] = new]
      BY <1>1, <1>8 DEF CreateRole
    <2>2. CASE FreeName(n) /\ \E r \in FreshRoles : NewRole(r, n)
      <3>1. PICK r \in FreshRoles : NewRole(r, n)
        BY <2>2
      <3> HIDE DEF new, n
      <3>2. /\ AccountsTypeOK' /\ Recorded' /\ ClaimsWereGranted' /\ Onward
            /\ roles'[r] # None /\ roles'[r].name = n
            /\ \A s \in RoleIds : roles[s] # None => roles'[s] # None /\ roles'[s].name = roles[s].name
        BY <1>3, <1>5, <2>2, <3>1, NewRoleKeeps
      <3>3. r \in RoleIds
        BY DEF FreshRoles
      <3> QED BY <1>7, <2>1, <3>2, <3>3
    <2>3. CASE ~FreeName(n) /\ UNCHANGED <<collections, history>>
      <3> HIDE DEF new, n
      <3>1. AccountsTypeOK' /\ Recorded' /\ ClaimsWereGranted'
        BY <1>5, <2>3 DEF AccountsIInv, AccountsTypeOK, Recorded, ClaimsWereGranted, collections, history
      <3>2. /\ \E r \in RoleIds : roles'[r] # None /\ roles'[r].name = n
            /\ \A r \in RoleIds : roles[r] # None => roles'[r] # None /\ roles'[r].name = roles[r].name
        BY <2>3 DEF FreeName, collections
      <3> QED BY <1>7, <2>1, <2>3, <3>1, <3>2, Standing
    <2> QED BY <1>8, <2>2, <2>3 DEF CreateRole
  <1> QED BY <1>6, <1>8

----------------------------------------------------------------------------
(* The theorems.                                                           *)

LEMMA InitAccounts == Init => AccountsIInv
  <1> SUFFICES ASSUME Init PROVE AccountsIInv
    OBVIOUS
  <1>1. PICK r \in RoleIds, u \in Users, n \in Managers, e \in Emails :
         /\ roles = [x \in RoleIds |-> IF x = r THEN [name |-> n, deletedAt |-> None] ELSE None]
         /\ users = [x \in Users |-> IF x = u THEN [email |-> e, role |-> r, hashed |-> TRUE,
                                                    deletedAt |-> None] ELSE None]
         /\ claims = {[user |-> u, role |-> n]}
         /\ given = [x \in Users |-> IF x = u THEN {r} ELSE {}]
         /\ bore = [x \in RoleIds |-> IF x = r THEN {n} ELSE {}]
    BY DEF Init
  <1>2. n \in Names
    BY AccountsAssumption
  <1> DEFINE role == [name |-> n, deletedAt |-> None]
             user == [email |-> e, role |-> r, hashed |-> TRUE, deletedAt |-> None]
  <1>3. role \in Role /\ role.name = n /\ user \in User /\ user.role = r
    BY <1>2 DEF Role, User, Times
  <1>4. /\ roles = [x \in RoleIds |-> IF x = r THEN role ELSE None]
        /\ users = [x \in Users |-> IF x = u THEN user ELSE None]
        /\ purged = {}
    BY <1>1 DEF Init
  <1> HIDE DEF role, user
  <1>5. Collections /\ Bearers /\ Owners
    BY <1>3, <1>4 DEF Collections, Bearers, Owners, OneBearer, OneOwner
  <1>6. Claimed
    BY <1>1, <1>2 DEF Claimed
  <1>7. Recorded
    BY <1>1, <1>2, <1>3, <1>4 DEF Recorded
  <1>8. ClaimsWereGranted
    BY <1>1 DEF ClaimsWereGranted
  <1>9. req \in [Requests -> Request] /\ \A q \in Requests : Carries(req[q])
    <2>1. Idle \in Request /\ Carries(Idle)
      BY DEF Idle, Request, Stages, Carries
    <2> QED BY <2>1 DEF Init
  <1>10. start \in [Starts -> Starting] /\ \A p \in Starts : Behind(p)
    <2> DEFINE s == [at |-> "none", next |-> 1, failed |-> FALSE, freed |-> {}]
    <2>1. s \in Starting /\ s.at = "none" /\ s.next = 1
      BY BaselineNames DEF Starting
    <2>2. start = [p \in Starts |-> s]
      BY DEF Init
    <2> HIDE DEF s
    <2>3. \A i \in DOMAIN Baseline : ~(i < 1)
      BY BaselineNames
    <2> QED BY <2>1, <2>2, <2>3 DEF Behind
  <1>11. AccountsTypeOK
    BY <1>5, <1>6, TypeParts
  <1> QED BY <1>7, <1>8, <1>9, <1>10, <1>11 DEF AccountsIInv

LEMMA StutterKeeps == ASSUME AccountsIInv, UNCHANGED vars PROVE AccountsIInv'
  <1>1. UNCHANGED <<collections, claims, req, start, history>>
    BY DEF vars
  <1>2. req' \in [Requests -> Request] /\ \A o \in Requests : Carries(req[o])'
    BY <1>1, Standing, NoRequestStep
  <1>3. start' \in [Starts -> Starting] /\ \A p \in Starts : Behind(p)'
    BY <1>1, NoStartStep DEF collections
  <1>4. AccountsTypeOK' /\ Recorded' /\ ClaimsWereGranted'
    BY <1>1 DEF AccountsIInv, AccountsTypeOK, Recorded, ClaimsWereGranted, collections, history
  <1> QED BY <1>2, <1>3, <1>4 DEF AccountsIInv

LEMMA NextAccounts == AccountsIInv /\ [Next]_vars => AccountsIInv'
  <1> SUFFICES ASSUME AccountsIInv, [Next]_vars PROVE AccountsIInv'
    OBVIOUS
  <1>1. ASSUME NEW q \in Requests, ArriveRoleOp(q) \/ ArriveUserOp(q) \/ ArriveAuthOp(q)
        PROVE  AccountsIInv'
    BY <1>1, RoleOpArrives, UserOpArrives, AuthOpArrives
  <1>2. ASSUME NEW q \in Requests,
               InsertRole(q) \/ SetRole(q) \/ Purge(q) \/ Find(q) \/ Save(q)
        PROVE  AccountsIInv'
    BY <1>2, InsertRoleKeeps, SetRoleKeeps, PurgeKeeps, FindKeeps, SaveKeeps
  <1>3. ASSUME NEW q \in Requests,
               CheckRole(q) \/ InsertUser(q) \/ Reread(q) \/ SetUser(q) \/ CallFails(q)
        PROVE  AccountsIInv'
    BY <1>3, CheckRoleKeeps, InsertUserKeeps, SetUserKeeps, CallEndKeeps
  <1>4. ASSUME NEW q \in Requests,
               CheckEmail(q) \/ LookupRole(q) \/ FindUser(q) \/ LoadUser(q) \/ LoadRole(q)
        PROVE  AccountsIInv'
    BY <1>4, CheckEmailKeeps, LookupRoleKeeps, FindUserKeeps, LoadUserKeeps, LoadRoleKeeps
  <1>5. ASSUME NEW p \in Starts,
               Begin(p) \/ FindRole(p) \/ CreateRole(p) \/ CreateFails(p) \/ StartDies(p)
        PROVE  AccountsIInv'
    BY <1>5, ReadingStartKeeps, CreatingStartKeeps
  <1>6. CASE UNCHANGED vars
    BY <1>6, StutterKeeps
  <1> QED BY <1>1, <1>2, <1>3, <1>4, <1>5, <1>6 DEF Next

(* Whatever requests and starts do to each other, the documents stay well  *)
(* formed, a name and an email have one bearer, and calls under way find   *)
(* what they rely on.                                                      *)
THEOREM AccountsInvariantHolds == Spec => []AccountsIInv
  <1> QED BY InitAccounts, NextAccounts, PTL DEF Spec

(* No access token names a role that its user was not given, or by a name  *)
(* the role never bore: not after a purge, nor a rename during a login.    *)
THEOREM RightsWereGranted == Spec => []ClaimsWereGranted
  <1>1. AccountsIInv => ClaimsWereGranted
    BY DEF AccountsIInv
  <1> QED BY <1>1, AccountsInvariantHolds, PTL

(* Starts side by side, and requests beside them, leave every baseline     *)
(* role, unless a call of the start failed or somebody took the name away. *)
THEOREM BaselineIsKept == Spec => []BaselineKept
  <1>1. AccountsIInv => BaselineKept
    <2> SUFFICES ASSUME AccountsIInv, NEW p \in Starts, start[p].at = "over", ~start[p].failed,
                        NEW i \in DOMAIN Baseline
                 PROVE  Kept(p, Baseline[i])
      BY DEF BaselineKept, Kept
    <2>1. Behind(p) /\ start[p].next = Len(Baseline) + 1
      BY DEF AccountsIInv, Behind
    <2>2. i < start[p].next
      BY <2>1, BaselineNames
    <2> QED BY <2>1, <2>2 DEF Behind
  <1> QED BY <1>1, AccountsInvariantHolds, PTL

----------------------------------------------------------------------------
(* What a step does to the documents.                                      *)

RolesStay ==
    \A r \in RoleIds :
       /\ r \in purged => roles'[r] = None
       /\ roles[r] # None /\ roles'[r] \notin {roles[r], None} =>
            \E q \in Requests :
              /\ Steps(q) /\ req[q].id = r
              /\ \/ req[q].op = "updateRole" /\ LiveRole(r) /\ LiveRole(r)'
                 \/ /\ req[q].op = "softDeleteRole"
                    /\ roles'[r] = [roles[r] EXCEPT !.deletedAt = q]

UsersStay ==
    \A u \in Users :
       users[u] # None /\ users'[u] # users[u] =>
         \E q \in Requests :
           /\ Steps(q) /\ req[q].id = u
           /\ \/ req[q].op = "updateUser" /\ LiveUser(u) /\ LiveUser(u)'
              \/ /\ req[q].op = "softDeleteUser"
                 /\ users'[u] = [users[u] EXCEPT !.deletedAt = q]

Assigned ==
    \A u \in Users :
       users'[u] # users[u] /\ (users[u] = None \/ users'[u].role # users[u].role) =>
         \E q \in Requests : Steps(q) /\ users'[u].role \notin req[q].gone

LEMMA SameRolesStay == ASSUME AccountsIInv, UNCHANGED roles PROVE RolesStay
  BY DEF AccountsIInv, AccountsTypeOK, RolesStay

LEMMA SameUsersStay == ASSUME AccountsIInv, UNCHANGED users PROVE UsersStay /\ Assigned
  BY DEF UsersStay, Assigned

LEMMA DoneSteps ==
    ASSUME AccountsIInv, NEW q \in Requests, req[q].at # "done", Done(q) PROVE Steps(q)
  <1>1. req \in [Requests -> Request] /\ req[q] \in Request
    BY DEF AccountsIInv
  <1>2. req'[q] = [req[q] EXCEPT !.at = "done"]
    BY <1>1 DEF Done, Go
  <1>3. req'[q].at = "done"
    BY <1>1, <1>2 DEF Request
  <1> QED BY <1>3 DEF Steps

LEMMA NewRoleStays ==
    ASSUME AccountsIInv, NEW r \in FreshRoles, NEW n, NewRole(r, n)
    PROVE  RolesStay /\ UNCHANGED users
  <1>1. r \in RoleIds /\ roles[r] = None /\ r \notin purged /\ Collections
    BY TypeParts DEF AccountsIInv, FreshRoles
  <1>2. \A s \in RoleIds \ {r} : roles'[s] = roles[s]
    BY <1>1 DEF NewRole, Collections
  <1> QED BY <1>1, <1>2 DEF RolesStay, Collections, NewRole

LEMMA SetRoleStays == ASSUME AccountsIInv, NEW q \in Requests, SetRole(q) PROVE RolesStay /\ UNCHANGED users
  <1> DEFINE r == req[q].id
             n == req[q].name
  <1>1. Carries(req[q]) /\ Collections
    BY TypeParts DEF AccountsIInv
  <1>2. At(q, "setRole") /\ UNCHANGED users
    BY DEF SetRole
  <1>3. CASE UNCHANGED roles
    BY <1>2, <1>3, SameRolesStay
  <1>4. CASE MayUpdate(roles[r]) /\ Done(q) /\ roles' = [roles EXCEPT ![r].name = n]
    <2>1. req[q].op = "updateRole" /\ r \in RoleIds
      BY <1>1, <1>2 DEF Carries, At
    <2>2. Steps(q)
      BY <1>2, <1>4, DoneSteps DEF At
    <2> HIDE DEF n
    <2>3. \A s \in RoleIds \ {r} : roles'[s] = roles[s]
      BY <1>1, <1>4 DEF Collections
    <2>4. roles[r] \in Role /\ LiveRole(r) /\ r \notin purged
      BY <1>1, <1>4, <2>1 DEF MayUpdate, Collections, LiveRole
    <2>5. roles'[r] # None /\ roles'[r].deletedAt = None
      <3>1. roles'[r] = [roles[r] EXCEPT !.name = n]
        BY <1>1, <1>4, <2>1 DEF Collections
      <3>2. roles'[r] \in Role /\ roles'[r].deletedAt = None
        <4>1. n \in Names
          BY <1>1, <1>2 DEF Carries, At, n
        <4> QED BY <2>4, <3>1, <4>1 DEF Role, LiveRole
      <3>3. None \notin Role
        BY AccountsAssumption
      <3> QED BY <3>2, <3>3
    <2>6. \A s \in RoleIds : s \in purged => roles'[s] = None
      BY <1>1, <2>3, <2>4 DEF Collections
    <2>7. req[q].id = r
      OBVIOUS
    <2> HIDE DEF r
    <2> QED BY <1>2, <2>1, <2>2, <2>3, <2>4, <2>5, <2>6, <2>7 DEF RolesStay, LiveRole
  <1> QED BY <1>3, <1>4 DEF SetRole

LEMMA PurgeStays == ASSUME AccountsIInv, NEW q \in Requests, Purge(q) PROVE RolesStay /\ UNCHANGED users
  <1> DEFINE r == req[q].id
  <1>1. Collections /\ UNCHANGED users
    BY TypeParts DEF AccountsIInv, Purge
  <1>2. CASE UNCHANGED roles
    BY <1>1, <1>2, SameRolesStay
  <1>3. CASE roles' = [roles EXCEPT ![r] = None]
    <2>1. \A s \in RoleIds : roles'[s] \in {roles[s], None}
      BY <1>1, <1>3 DEF Collections
    <2> QED BY <1>1, <2>1 DEF RolesStay, Collections
  <1> QED BY <1>2, <1>3 DEF Purge

LEMMA SaveStays == ASSUME AccountsIInv, NEW q \in Requests, Save(q) PROVE RolesStay /\ UsersStay /\ Assigned
  <1> DEFINE id == req[q].id
             read == req[q].doc
  <1>1. Collections
    BY TypeParts DEF AccountsIInv
  <1>2. RolesStay
    <2>1. CASE UNCHANGED roles
      BY <2>1, SameRolesStay
    <2>2. CASE /\ At(q, "save") /\ req[q].op = "softDeleteRole" /\ Done(q)
               /\ roles[id] # None /\ roles' = [roles EXCEPT ![id] = Deletion(@, read, q)]
      <3>1. id \in RoleIds /\ id \notin purged
        BY <1>1, <2>2 DEF AccountsIInv, Carries, At, Collections
      <3>2. Steps(q)
        BY <2>2, DoneSteps DEF At
      <3> HIDE DEF read
      <3>3. /\ roles'[id] = [roles[id] EXCEPT !.deletedAt = q]
            /\ \A s \in RoleIds \ {id} : roles'[s] = roles[s]
        BY <1>1, <2>2, <3>1 DEF Collections, Deletion
      <3> QED BY <1>1, <2>2, <3>1, <3>2, <3>3 DEF RolesStay, Collections
    <2> QED BY <2>1, <2>2 DEF Save
  <1>3. UsersStay /\ Assigned
    <2>1. CASE UNCHANGED users
      BY <2>1, SameUsersStay
    <2>2. CASE /\ At(q, "save") /\ req[q].op = "softDeleteUser" /\ Done(q)
               /\ users' = [users EXCEPT ![id] = Deletion(@, read, q)]
      <3>1. id \in Users /\ users[id] # None
        BY <2>2 DEF AccountsIInv, Carries, At
      <3>2. Steps(q)
        BY <2>2, DoneSteps DEF At
      <3> HIDE DEF read
      <3>3. users[id] \in User
        BY <1>1, <3>1 DEF Collections
      <3>4. /\ users'[id] = [users[id] EXCEPT !.deletedAt = q]
            /\ \A u \in Users \ {id} : users'[u] = users[u]
        BY <1>1, <2>2, <3>1 DEF Collections, Deletion
      <3>5. users'[id].role = users[id].role
        BY <3>3, <3>4 DEF User
      <3>6. UsersStay
        BY <2>2, <3>1, <3>2, <3>4 DEF UsersStay
      <3>7. Assigned
        BY <3>1, <3>4, <3>5 DEF Assigned
      <3> QED BY <3>6, <3>7
    <2> QED BY <2>1, <2>2 DEF Save
  <1> QED BY <1>2, <1>3

LEMMA InsertUserStays == ASSUME AccountsIInv, NEW q \in Requests, InsertUser(q) PROVE UsersStay /\ Assigned
  <1>1. Collections /\ Carries(req[q]) /\ req \in [Requests -> Request] /\ req[q] \in Request
    BY TypeParts DEF AccountsIInv
  <1>2. At(q, "insertUser")
    BY DEF InsertUser
  <1>3. CASE UNCHANGED users
    BY <1>3, SameUsersStay
  <1>4. ASSUME NEW u \in FreshUsers,
               users' = [users EXCEPT ![u] =
                           [email |-> req[q].email, role |-> req[q].role,
                            hashed |-> ~req[q].plain, deletedAt |-> None]],
               req' = [req EXCEPT ![q].id = u, ![q].at =
                         IF req[q].op = "register" THEN "loadUser" ELSE "reread"]
        PROVE  UsersStay /\ Assigned
    <2>1. u \in Users /\ users[u] = None
      BY DEF FreshUsers
    <2>2. \A v \in Users \ {u} : users'[v] = users[v]
      BY <1>1, <1>4, <2>1 DEF Collections
    <2>3. users'[u].role = req[q].role
      BY <1>1, <1>4, <2>1 DEF Collections
    <2>4. req[q].role \notin req[q].gone
      BY <1>1, <1>2 DEF Carries, At
    <2>5. Steps(q)
      <3> DEFINE stage == IF req[q].op = "register" THEN "loadUser" ELSE "reread"
      <3>1. stage # "insertUser"
        OBVIOUS
      <3> HIDE DEF stage
      <3>2. req'[q].at = stage
        BY <1>1, <1>4 DEF Request, stage
      <3> QED BY <1>2, <3>1, <3>2 DEF Steps, At
    <2>6. UsersStay
      BY <2>1, <2>2 DEF UsersStay
    <2>7. Assigned
      BY <2>2, <2>3, <2>4, <2>5 DEF Assigned
    <2> QED BY <2>6, <2>7
  <1> QED BY <1>3, <1>4 DEF InsertUser

LEMMA SetUserStays == ASSUME AccountsIInv, NEW q \in Requests, SetUser(q) PROVE UsersStay /\ Assigned
  <1> DEFINE u == req[q].id
  <1>1. CASE UNCHANGED users
    BY <1>1, SameUsersStay
  <1>2. CASE /\ MayUpdate(users[u]) /\ Done(q) /\ users'[u] \in User
             /\ \A v \in Users \ {u} : users'[v] = users[v]
             /\ users'[u].role \in {users[u].role, req[q].role}
             /\ users'[u].deletedAt = users[u].deletedAt
    <2>1. At(q, "setUser") /\ u \in Users
      BY SetUserWrites
    <2>2. req[q].op = "updateUser" /\ req[q].role \notin req[q].gone
      BY <2>1 DEF AccountsIInv, Carries, At
    <2>3. Steps(q)
      BY <1>2, <2>1, DoneSteps DEF At
    <2>4. LiveUser(u) /\ users'[u] # None /\ users'[u].deletedAt = None
      BY <1>2, AccountsAssumption DEF MayUpdate, LiveUser
    <2>5. req[q].id = u
      OBVIOUS
    <2> HIDE DEF u
    <2>6. UsersStay
      BY <1>2, <2>1, <2>2, <2>3, <2>4, <2>5 DEF UsersStay, LiveUser
    <2>7. Assigned
      BY <1>2, <2>1, <2>2, <2>3 DEF Assigned, MayUpdate
    <2> QED BY <2>6, <2>7
  <1> QED BY <1>1, <1>2, SetUserWrites

LEMMA NextStays == AccountsIInv /\ [Next]_vars => RolesStay /\ UsersStay /\ Assigned
  <1> SUFFICES ASSUME AccountsIInv, [Next]_vars PROVE RolesStay /\ UsersStay /\ Assigned
    OBVIOUS
  <1>1. CASE UNCHANGED collections
    BY <1>1, SameRolesStay, SameUsersStay DEF collections
  <1>2. ASSUME NEW q \in Requests,
               ArriveRoleOp(q) \/ ArriveUserOp(q) \/ ArriveAuthOp(q) \/ Find(q) \/ CheckRole(q)
               \/ Reread(q) \/ CallFails(q)
        PROVE  UNCHANGED collections
    BY <1>2 DEF ArriveRoleOp, ArriveUserOp, ArriveAuthOp, Arrive, Find, CheckRole, Reread, CallFails
  <1>3. ASSUME NEW q \in Requests,
               CheckEmail(q) \/ LookupRole(q) \/ FindUser(q) \/ LoadUser(q) \/ LoadRole(q)
        PROVE  UNCHANGED collections
    BY <1>3 DEF CheckEmail, LookupRole, FindUser, LoadUser, LoadRole
  <1>4. ASSUME NEW q \in Requests, InsertRole(q)
        PROVE  RolesStay /\ UNCHANGED users
    BY <1>4, NewRoleStays, SameRolesStay DEF InsertRole, collections
  <1>5. ASSUME NEW q \in Requests, InsertUser(q) \/ SetUser(q)
        PROVE  RolesStay /\ UsersStay /\ Assigned
    <2>1. UNCHANGED roles
      BY <1>5 DEF InsertUser, SetUser
    <2> QED BY <1>5, <2>1, SameRolesStay, InsertUserStays, SetUserStays
  <1>6. ASSUME NEW p \in Starts, Begin(p) \/ FindRole(p) \/ CreateFails(p) \/ StartDies(p)
        PROVE  UNCHANGED collections
    BY <1>6 DEF Begin, FindRole, CreateFails, StartDies
  <1>7. ASSUME NEW p \in Starts, CreateRole(p)
        PROVE  RolesStay /\ UNCHANGED users
    BY <1>7, NewRoleStays, SameRolesStay DEF CreateRole, collections
  <1>8. CASE UNCHANGED vars
    BY <1>1, <1>8 DEF vars
  <1> QED BY <1>1, <1>2, <1>3, <1>4, <1>5, <1>6, <1>7, <1>8, SetRoleStays, PurgeStays,
             SaveStays, SameUsersStay DEF Next

(* A deleted document stays deleted and keeps its fields, whatever runs    *)
(* beside the deletion; a second deletion moves deletedAt, and only that.  *)
THEOREM DeletionsAreFinal == Spec => DeletionsKeepTheRest
  <1>1. AccountsIInv /\ [Next]_vars => [RolesStay /\ UsersStay]_vars
    BY NextStays
  <1>2. [RolesStay /\ UsersStay]_vars =>
          [/\ \A r \in RoleIds :
                /\ r \in purged => roles'[r] = None
                /\ roles[r] # None /\ roles'[r] \notin {roles[r], None} =>
                     \E q \in Requests :
                       /\ Steps(q) /\ req[q].id = r
                       /\ \/ req[q].op = "updateRole" /\ LiveRole(r) /\ LiveRole(r)'
                          \/ /\ req[q].op = "softDeleteRole"
                             /\ roles'[r] = [roles[r] EXCEPT !.deletedAt = q]
           /\ \A u \in Users :
                users[u] # None /\ users'[u] # users[u] =>
                  \E q \in Requests :
                    /\ Steps(q) /\ req[q].id = u
                    /\ \/ req[q].op = "updateUser" /\ LiveUser(u) /\ LiveUser(u)'
                       \/ /\ req[q].op = "softDeleteUser"
                          /\ users'[u] = [users[u] EXCEPT !.deletedAt = q]
          ]_vars
    BY DEF RolesStay, UsersStay
  <1> QED BY <1>1, <1>2, AccountsInvariantHolds, PTL DEF Spec, DeletionsKeepTheRest

(* No request gives anybody a role that was deleted before it arrived.     *)
THEOREM DeletedRolesStayOut == Spec => DeletedRolesNotAssigned
  <1>1. AccountsIInv /\ [Next]_vars => [Assigned]_vars
    BY NextStays
  <1>2. [Assigned]_vars =>
          [\A u \in Users :
             users'[u] # users[u] /\ (users[u] = None \/ users'[u].role # users[u].role) =>
               \E q \in Requests : Steps(q) /\ users'[u].role \notin req[q].gone]_vars
    BY DEF Assigned
  <1> QED BY <1>1, <1>2, AccountsInvariantHolds, PTL DEF Spec, DeletedRolesNotAssigned
----------------------------------------------------------------------------
(* Registrations.                                                          *)

RegisterStages == {"none", "checkEmail", "lookupRole", "insertUser", "loadUser", "loadRole",
                   "done", "failed"}

HasUser(q) == req[q].op = "register" /\ req[q].at \in {"loadUser", "loadRole", "done"}

(* The user a registration created is its own, and bears the email it asked*)
(* for, unless an update has taken it away.                                *)
Registrants ==
    /\ \A q \in Requests : req[q].op = "register" => req[q].at \in RegisterStages
    /\ \A q \in Requests : HasUser(q) =>
         /\ req[q].id \in Users /\ users[req[q].id] # None
         /\ users[req[q].id].email = req[q].email \/ Renamed(req[q].id, req[q].email)
    /\ \A q, p \in Requests : HasUser(q) /\ HasUser(p) /\ req[q].id = req[p].id => q = p

(* One request steps, which is not over yet.                               *)
OneSteps(q) ==
    /\ req[q].at \notin {"done", "failed"}
    /\ \A o \in Requests \ {q} : req'[o] = req[o]

RenamedNext(u, e) ==
    \E q \in Requests : /\ req'[q].op = "updateUser" /\ req'[q].at \in {"done", "failed"}
                        /\ req'[q].id = u /\ req'[q].email \notin {None, e}

(* A user keeps its email, or a step of an update is the reason.           *)
EmailsStay ==
    \A u \in Users : users[u] # None =>
       /\ users'[u] # None
       /\ users'[u].email = users[u].email \/ \A e : e # users'[u].email => RenamedNext(u, e)

(* The request that steps has the user it had, or a new one.               *)
Admitted(q) ==
    /\ req'[q].op = "register" => req'[q].at \in RegisterStages
    /\ HasUser(q)' =>
         \/ HasUser(q) /\ req'[q].id = req[q].id /\ req'[q].email = req[q].email
         \/ /\ req'[q].id \in Users /\ users[req'[q].id] = None
            /\ users'[req'[q].id] # None /\ users'[req'[q].id].email = req'[q].email

LEMMA RegistrantStep ==
    ASSUME Registrants, NEW q \in Requests, OneSteps(q), EmailsStay, Admitted(q)
    PROVE  Registrants'
  <1>1. \A o \in Requests \ {q} : req'[o] = req[o]
    BY DEF OneSteps
  <1>2. ASSUME NEW o \in Requests
        PROVE  req'[o].op = "register" => req'[o].at \in RegisterStages
    BY <1>1 DEF Registrants, Admitted
  <1>3. ASSUME NEW u \in Users, users[u] # None, NEW e, users[u].email = e \/ Renamed(u, e)
        PROVE  users'[u] # None /\ (users'[u].email = e \/ RenamedNext(u, e))
    <2>1. Renamed(u, e) => RenamedNext(u, e)
      BY DEF OneSteps, Renamed, RenamedNext
    <2> QED BY <1>3, <2>1 DEF EmailsStay
  <1>4. ASSUME NEW o \in Requests, HasUser(o)'
        PROVE  /\ req'[o].id \in Users /\ users'[req'[o].id] # None
               /\ users'[req'[o].id].email = req'[o].email \/ RenamedNext(req'[o].id, req'[o].email)
               /\ \/ HasUser(o) /\ req'[o].id = req[o].id
                  \/ o = q /\ users[req'[o].id] = None
    <2>1. CASE HasUser(o) /\ req'[o].id = req[o].id /\ req'[o].email = req[o].email
      <3> DEFINE u == req[o].id
                 e == req[o].email
      <3>1. u \in Users /\ users[u] # None /\ (users[u].email = e \/ Renamed(u, e))
        BY <2>1 DEF Registrants
      <3> HIDE DEF u, e
      <3>2. users'[u] # None /\ (users'[u].email = e \/ RenamedNext(u, e))
        BY <1>3, <3>1
      <3> QED BY <2>1, <3>1, <3>2 DEF u, e
    <2>2. CASE /\ o = q /\ req'[q].id \in Users /\ users[req'[q].id] = None
               /\ users'[req'[q].id] # None /\ users'[req'[q].id].email = req'[q].email
      BY <2>2
    <2>3. CASE o # q
      <3>1. req'[o] = req[o]
        BY <1>1, <2>3
      <3>2. HasUser(o)
        BY <1>4, <3>1 DEF HasUser
      <3> QED BY <2>1, <3>1, <3>2
    <2> QED BY <1>4, <2>1, <2>2, <2>3 DEF Admitted
  <1>5. ASSUME NEW o \in Requests, NEW p \in Requests, HasUser(o)', HasUser(p)',
               req'[o].id = req'[p].id
        PROVE  o = p
    <2>1. \A x \in Requests : HasUser(x) => users[req[x].id] # None
      BY DEF Registrants
    <2>2. CASE HasUser(o) /\ HasUser(p) /\ req'[o].id = req[o].id /\ req'[p].id = req[p].id
      BY <1>5, <2>2 DEF Registrants
    <2> QED BY <1>4, <1>5, <2>1, <2>2
  <1>6. ASSUME NEW o \in Requests, HasUser(o)'
        PROVE  users'[req'[o].id].email = req'[o].email \/ Renamed(req[o].id, req[o].email)'
    BY <1>4, <1>6 DEF RenamedNext, Renamed
  <1> QED BY <1>2, <1>4, <1>5, <1>6 DEF Registrants
LEMMA GoesOn ==
    ASSUME AccountsIInv, Registrants, EmailsStay, NEW q \in Requests, NEW new,
           req[q].at \notin {"done", "failed"}, req' = [req EXCEPT ![q] = new],
           new.op = "register" => new.at \in RegisterStages,
           new.op = "register" /\ new.at \in {"loadUser", "loadRole", "done"} =>
              /\ req[q].op = "register" /\ req[q].at \in {"loadUser", "loadRole"}
              /\ new.id = req[q].id /\ new.email = req[q].email
    PROVE  Registrants'
  <1>1. req \in [Requests -> Request]
    BY DEF AccountsIInv
  <1>2. req'[q] = new /\ \A o \in Requests \ {q} : req'[o] = req[o]
    BY <1>1
  <1>3. OneSteps(q)
    BY <1>2 DEF OneSteps
  <1>4. Admitted(q)
    BY <1>2 DEF Admitted, HasUser
  <1> QED BY <1>3, <1>4, RegistrantStep

LEMMA StageGoesOn ==
    ASSUME AccountsIInv, Registrants, EmailsStay, NEW q \in Requests, NEW stage \in Stages,
           Go(q, stage), req[q].at \notin {"done", "failed"},
           req[q].op = "register" => stage \in RegisterStages,
           req[q].op = "register" /\ stage \in {"loadUser", "loadRole", "done"} =>
              req[q].at \in {"loadUser", "loadRole"}
    PROVE  Registrants'
  <1> DEFINE new == [req[q] EXCEPT !.at = stage]
  <1>1. req \in [Requests -> Request] /\ req[q] \in Request
    BY DEF AccountsIInv
  <1>2. req' = [req EXCEPT ![q] = new]
    BY <1>1 DEF Go
  <1>3. new.at = stage /\ new.op = req[q].op /\ new.id = req[q].id /\ new.email = req[q].email
    BY <1>1 DEF Request
  <1> HIDE DEF new
  <1> QED BY <1>2, <1>3, GoesOn

LEMMA FailedGoesOn ==
    ASSUME AccountsIInv, Registrants, EmailsStay, NEW q \in Requests,
           req[q].at \notin {"done", "failed"}, Failed(q)
    PROVE  Registrants'
  BY StageGoesOn DEF Failed, Stages, RegisterStages

(* No registration is at a stage of another mutation.                      *)
LEMMA OthersDone ==
    ASSUME AccountsIInv, Registrants, EmailsStay, NEW q \in Requests,
           req[q].at \in Stages \ RegisterStages, Done(q)
    PROVE  Registrants'
  <1>1. req[q].op # "register" /\ req[q].at \notin {"done", "failed"}
    BY DEF Registrants, RegisterStages
  <1> QED BY <1>1, StageGoesOn DEF Done, Stages

LEMMA SameEmails == ASSUME UNCHANGED users PROVE EmailsStay
  BY DEF EmailsStay

LEMMA ArrivalRegisters ==
    ASSUME AccountsIInv, Registrants, NEW q \in Requests,
           ArriveRoleOp(q) \/ ArriveUserOp(q) \/ ArriveAuthOp(q)
    PROVE  Registrants'
  <1>1. ASSUME NEW call, Arrive(q, call), call.op = "register" => call.at = "checkEmail"
        PROVE  Registrants'
    <2>1. req[q].at = "none" /\ req' = [req EXCEPT ![q] = call] /\ EmailsStay
      BY <1>1, SameEmails DEF Arrive, At, collections
    <2> QED BY <1>1, <2>1, GoesOn DEF RegisterStages
  <1>2. CASE ArriveRoleOp(q)
    BY <1>1, <1>2 DEF ArriveRoleOp, Idle
  <1>3. CASE ArriveUserOp(q)
    BY <1>1, <1>3 DEF ArriveUserOp, Idle
  <1>4. CASE ArriveAuthOp(q)
    BY <1>1, <1>4 DEF ArriveAuthOp, Idle
  <1> QED BY <1>2, <1>3, <1>4

LEMMA ReadingRegisters ==
    ASSUME AccountsIInv, Registrants, NEW q \in Requests,
           Find(q) \/ CheckRole(q) \/ Reread(q) \/ CallFails(q) \/ CheckEmail(q)
    PROVE  Registrants'
  <1>1. req \in [Requests -> Request] /\ req[q] \in Request
    BY DEF AccountsIInv
  <1>2. EmailsStay
    BY SameEmails DEF Find, CheckRole, Reread, CallFails, CheckEmail, collections
  <1>3. req[q].at \notin {"done", "failed"}
    BY DEF Find, CheckRole, Reread, CallFails, CheckEmail, At
  <1>4. CASE Failed(q)
    BY <1>2, <1>3, <1>4, FailedGoesOn
  <1>5. ASSUME NEW doc, At(q, "find"), req' = [req EXCEPT ![q].at = "save", ![q].doc = doc]
        PROVE  Registrants'
    <2> DEFINE new == [req[q] EXCEPT !.at = "save", !.doc = doc]
    <2>1. req' = [req EXCEPT ![q] = new] /\ new.op = req[q].op
      BY <1>1, <1>5 DEF Request
    <2>2. req[q].op # "register"
      BY <1>5 DEF Registrants, RegisterStages, At
    <2> HIDE DEF new
    <2> QED BY <1>2, <1>3, <2>1, <2>2, GoesOn
  <1>6. ASSUME At(q, "checkRole"), NEW stage \in {"insertUser", "setUser"}, Go(q, stage)
        PROVE  Registrants'
    <2>1. req[q].op # "register"
      BY <1>6 DEF Registrants, RegisterStages, At
    <2> QED BY <1>2, <1>3, <1>6, <2>1, StageGoesOn DEF Stages
  <1>7. CASE At(q, "reread") /\ Done(q)
    BY <1>2, <1>7, OthersDone DEF At, Stages, RegisterStages
  <1>8. CASE Go(q, "lookupRole")
    BY <1>2, <1>3, <1>8, StageGoesOn DEF Stages, RegisterStages
  <1> QED BY <1>4, <1>5, <1>6, <1>7, <1>8 DEF Find, CheckRole, Reread, CallFails, CheckEmail

LEMMA LoadingRegisters ==
    ASSUME AccountsIInv, Registrants, NEW q \in Requests,
           LookupRole(q) \/ FindUser(q) \/ LoadUser(q) \/ LoadRole(q)
    PROVE  Registrants'
  <1>1. req \in [Requests -> Request] /\ req[q] \in Request
    BY DEF AccountsIInv
  <1>2. EmailsStay
    BY SameEmails DEF LookupRole, FindUser, LoadUser, LoadRole, collections
  <1>3. req[q].at \notin {"done", "failed"}
    BY DEF LookupRole, FindUser, LoadUser, LoadRole, At
  <1>4. CASE Failed(q)
    BY <1>2, <1>3, <1>4, FailedGoesOn
  <1>5. ASSUME NEW stage, NEW r, req' = [req EXCEPT ![q].at = stage, ![q].role = r],
               \/ stage = "insertUser"
               \/ stage = "loadRole" /\ At(q, "loadUser")
        PROVE  Registrants'
    <2> DEFINE new == [req[q] EXCEPT !.at = stage, !.role = r]
    <2>1. req' = [req EXCEPT ![q] = new]
      BY <1>1, <1>5
    <2>2. new.at = stage /\ new.op = req[q].op /\ new.id = req[q].id /\ new.email = req[q].email
      BY <1>1 DEF Request
    <2> HIDE DEF new
    <2> QED BY <1>2, <1>3, <1>5, <2>1, <2>2, GoesOn DEF RegisterStages, At
  <1>6. ASSUME NEW u, At(q, "findUser"), req' = [req EXCEPT ![q].at = "loadUser", ![q].id = u]
        PROVE  Registrants'
    <2> DEFINE new == [req[q] EXCEPT !.at = "loadUser", !.id = u]
    <2>1. req' = [req EXCEPT ![q] = new] /\ new.op = req[q].op
      BY <1>1, <1>6 DEF Request
    <2>2. req[q].op # "register"
      BY <1>6 DEF Registrants, RegisterStages, At
    <2> HIDE DEF new
    <2> QED BY <1>2, <1>3, <2>1, <2>2, GoesOn
  <1>7. CASE At(q, "loadRole") /\ Done(q)
    BY <1>2, <1>7, StageGoesOn DEF Done, At, Stages, RegisterStages
  <1> QED BY <1>4, <1>5, <1>6, <1>7 DEF LookupRole, FindUser, LoadUser, LoadRole

LEMMA RolesRegisters ==
    ASSUME AccountsIInv, Registrants, NEW q \in Requests, InsertRole(q) \/ SetRole(q) \/ Purge(q)
    PROVE  Registrants'
  <1>1. EmailsStay
    BY SameEmails DEF InsertRole, NewRole, SetRole, Purge, collections
  <1>2. req[q].at \in {"insertRole", "setRole", "purge"} /\ (Done(q) \/ Failed(q))
    BY DEF InsertRole, SetRole, Purge, At
  <1> QED BY <1>1, <1>2, FailedGoesOn, OthersDone DEF Stages, RegisterStages

LEMMA SaveRegisters == ASSUME AccountsIInv, Registrants, NEW q \in Requests, Save(q) PROVE Registrants'
  <1> DEFINE id == req[q].id
             read == req[q].doc
  <1>1. req[q].at = "save" /\ (Done(q) \/ Failed(q))
    BY DEF Save, At
  <1>2. EmailsStay
    <2>1. CASE UNCHANGED users
      BY <2>1, SameEmails
    <2>2. CASE req[q].op = "softDeleteUser" /\ users' = [users EXCEPT ![id] = Deletion(@, read, q)]
      <3>1. Collections
        BY TypeParts DEF AccountsIInv
      <3>2. id \in Users /\ users[id] # None
        BY <1>1, <2>2 DEF AccountsIInv, Carries
      <3> HIDE DEF id, read
      <3>3. users[id] \in User /\ None \notin User
        BY <3>1, <3>2, AccountsAssumption DEF Collections
      <3>4. /\ users'[id] = [users[id] EXCEPT !.deletedAt = q]
            /\ \A u \in Users \ {id} : users'[u] = users[u]
        BY <2>2, <3>1, <3>2 DEF Collections, Deletion
      <3>5. users'[id] \in User /\ users'[id].email = users[id].email
        BY <3>3, <3>4 DEF User, Times
      <3> QED BY <3>3, <3>4, <3>5 DEF EmailsStay
    <2> QED BY <2>1, <2>2 DEF Save
  <1> QED BY <1>1, <1>2, FailedGoesOn, OthersDone DEF Stages, RegisterStages

(* The user that is created is nobody else's.                              *)
LEMMA InsertUserRegisters ==
    ASSUME AccountsIInv, Registrants, NEW q \in Requests, InsertUser(q) PROVE Registrants'
  <1>1. req \in [Requests -> Request] /\ req[q] \in Request /\ Collections
    BY TypeParts DEF AccountsIInv
  <1>2. req[q].at = "insertUser"
    BY DEF InsertUser, At
  <1>3. CASE Failed(q) /\ UNCHANGED users
    BY <1>2, <1>3, SameEmails, FailedGoesOn
  <1>4. ASSUME NEW u \in FreshUsers,
               users' = [users EXCEPT ![u] =
                           [email |-> req[q].email, role |-> req[q].role,
                            hashed |-> ~req[q].plain, deletedAt |-> None]],
               req' = [req EXCEPT ![q].id = u, ![q].at =
                         IF req[q].op = "register" THEN "loadUser" ELSE "reread"]
        PROVE  Registrants'
    <2> DEFINE stage == IF req[q].op = "register" THEN "loadUser" ELSE "reread"
               user == [email |-> req[q].email, role |-> req[q].role,
                        hashed |-> ~req[q].plain, deletedAt |-> None]
               new == [req[q] EXCEPT !.id = u, !.at = stage]
    <2>1. u \in Users /\ users[u] = None
      BY DEF FreshUsers
    <2>2. req' = [req EXCEPT ![q] = new]
      BY <1>1, <1>4
    <2>3. new.id = u /\ new.at = stage /\ new.op = req[q].op /\ new.email = req[q].email
      <3> HIDE DEF stage
      <3> QED BY <1>1 DEF Request
    <2>4. user.email = req[q].email /\ user # None
      <3>1. user \in User
        <4>1. req[q].email \in Emails /\ req[q].role \in RoleIds /\ (~req[q].plain) \in BOOLEAN
          BY <1>1, <1>2 DEF AccountsIInv, Carries, Request
        <4> QED BY <4>1 DEF User, Times
      <3> QED BY <3>1, AccountsAssumption
    <2>5. users' = [users EXCEPT ![u] = user]
      BY <1>4
    <2>6. stage \in {"loadUser", "reread"} /\ (req[q].op = "register" => stage = "loadUser")
      OBVIOUS
    <2> HIDE DEF stage, user, new
    <2>7. users'[u] = user /\ \A v \in Users \ {u} : users'[v] = users[v]
      BY <1>1, <2>1, <2>5 DEF Collections
    <2>8. EmailsStay
      BY <2>1, <2>7 DEF EmailsStay
    <2>9. req'[q] = new /\ \A o \in Requests \ {q} : req'[o] = req[o]
      BY <1>1, <2>2
    <2>10. OneSteps(q)
      BY <1>2, <2>9 DEF OneSteps
    <2>11. Admitted(q)
      BY <2>1, <2>3, <2>4, <2>6, <2>7, <2>9 DEF Admitted, RegisterStages
    <2> QED BY <2>8, <2>10, <2>11, RegistrantStep
  <1> QED BY <1>3, <1>4 DEF InsertUser

(* An update that takes an email away is there to tell.                    *)
LEMMA SetUserRegisters ==
    ASSUME AccountsIInv, Registrants, NEW q \in Requests, SetUser(q) PROVE Registrants'
  <1> DEFINE u == req[q].id
  <1>1. req \in [Requests -> Request] /\ req[q] \in Request /\ Carries(req[q])
    BY DEF AccountsIInv
  <1>2. req[q].at = "setUser" /\ u \in Users
    BY SetUserWrites DEF At
  <1>3. CASE Failed(q) /\ UNCHANGED users
    BY <1>2, <1>3, SameEmails, FailedGoesOn
  <1>4. CASE /\ Done(q) /\ users'[u] \in User
             /\ \A v \in Users \ {u} : users'[v] = users[v]
             /\ \/ users'[u].email = users[u].email
                \/ req[q].email # None /\ users'[u].email = req[q].email
    <2>1. req' = [req EXCEPT ![q] = [req[q] EXCEPT !.at = "done"]]
      BY <1>1, <1>4 DEF Done, Go
    <2>2. /\ req'[q].op = "updateUser" /\ req'[q].at = "done"
          /\ req'[q].id = u /\ req'[q].email = req[q].email
      BY <1>1, <1>2, <2>1 DEF Carries, Request
    <2> HIDE DEF u
    <2>3. users'[u] # None
      BY <1>4, AccountsAssumption
    <2>4. EmailsStay
      <3>1. users'[u].email # users[u].email => \A e : e # users'[u].email => RenamedNext(u, e)
        BY <1>4, <2>2 DEF RenamedNext
      <3> QED BY <1>4, <2>3, <3>1 DEF EmailsStay
    <2> QED BY <1>2, <1>4, <2>4, OthersDone DEF Stages, RegisterStages
  <1> QED BY <1>3, <1>4, SetUserWrites

LEMMA InitRegistrants == Init => Registrants
  BY DEF Init, Idle, Registrants, HasUser, RegisterStages

LEMMA NextRegistrants == AccountsIInv /\ Registrants /\ [Next]_vars => Registrants'
  <1> SUFFICES ASSUME AccountsIInv, Registrants, [Next]_vars PROVE Registrants'
    OBVIOUS
  <1>1. ASSUME UNCHANGED <<users, req>>
        PROVE  Registrants'
    BY <1>1 DEF Registrants, HasUser, Renamed
  <1>2. ASSUME NEW p \in Starts,
               Begin(p) \/ FindRole(p) \/ CreateRole(p) \/ CreateFails(p) \/ StartDies(p)
        PROVE  UNCHANGED <<users, req>>
    BY <1>2 DEF Begin, FindRole, CreateRole, CreateFails, StartDies, NewRole, collections
  <1>3. ASSUME NEW q \in Requests,
               InsertRole(q) \/ SetRole(q) \/ Purge(q) \/ Save(q) \/ InsertUser(q) \/ SetUser(q)
        PROVE  Registrants'
    BY <1>3, RolesRegisters, SaveRegisters, InsertUserRegisters, SetUserRegisters
  <1>4. ASSUME NEW q \in Requests,
               ArriveRoleOp(q) \/ ArriveUserOp(q) \/ ArriveAuthOp(q) \/ Find(q) \/ CheckRole(q)
               \/ Reread(q) \/ CallFails(q) \/ CheckEmail(q)
        PROVE  Registrants'
    BY <1>4, ArrivalRegisters, ReadingRegisters
  <1>5. ASSUME NEW q \in Requests,
               LookupRole(q) \/ FindUser(q) \/ LoadUser(q) \/ LoadRole(q)
        PROVE  Registrants'
    BY <1>5, LoadingRegisters
  <1>6. CASE UNCHANGED vars
    BY <1>1, <1>6 DEF vars, collections
  <1> QED BY <1>1, <1>2, <1>3, <1>4, <1>5, <1>6 DEF Next

(* Two registrations of one email do not both stand: one was refused, or an*)
(* update took the email from the user of one of them.                     *)
THEOREM OneRegistration == Spec => []OneRegistrationWins
  <1>1. AccountsIInv /\ Registrants => OneRegistrationWins
    <2> SUFFICES ASSUME AccountsIInv, Registrants,
                        NEW q \in Requests, NEW p \in Requests, Registered(q), Registered(p),
                        q # p, req[q].email = req[p].email
                 PROVE  \E r \in {q, p} : /\ users[req[r].id].email # req[r].email
                                          /\ Renamed(req[r].id, req[r].email)
      BY DEF OneRegistrationWins
    <2>1. HasUser(q) /\ HasUser(p)
      BY DEF Registered, HasUser, At
    <2>2. req[q].id # req[p].id
      BY <2>1 DEF Registrants
    <2>3. \A r \in {q, p} : /\ req[r].id \in Users /\ users[req[r].id] # None
                            /\ users[req[r].id].email = req[r].email \/ Renamed(req[r].id, req[r].email)
      BY <2>1 DEF Registrants
    <2>4. users[req[q].id].email # users[req[p].id].email
      BY <2>2, <2>3 DEF AccountsIInv, AccountsTypeOK
    <2>5. PICK r \in {q, p} : users[req[r].id].email # req[r].email
      BY <2>4
    <2> QED BY <2>3, <2>5
  <1>2. Init => AccountsIInv /\ Registrants
    BY InitAccounts, InitRegistrants
  <1>3. AccountsIInv /\ Registrants /\ [Next]_vars => (AccountsIInv /\ Registrants)'
    BY NextAccounts, NextRegistrants
  <1> QED BY <1>1, <1>2, <1>3, PTL DEF Spec

===============================================================================
