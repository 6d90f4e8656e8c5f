----------------------------- MODULE AuthService -----------------------------
(***************************************************************************)
(* Registration, login and refresh-token rotation, one step per await,     *)
(* with the cleanup job, the TTL index and soft deletes of users beside    *)
(* them.                                                                   *)
(*                                                                         *)
(* A user is named by its _id, drawn by the registration that creates it;  *)
(* whose email is taken, and who bears one by now, is the matter of module *)
(* Accounts, and open here.  A jti is random, so a token is named by the   *)
(* request that signed it; the clients keep the signed JWT, the collection *)
(* keeps [userId, expiresAt, revoked].  Hashing and signing are not        *)
(* modelled: a client presents tokens that were answered to it.            *)
(***************************************************************************)
EXTENDS Naturals, FiniteSets

CONSTANTS Users,          \* _id values
          Requests,       \* the mutations of a behaviour
          Lifetime,       \* of a refresh token, in ticks
          BatchSize,      \* of the cleanup job
          MaxTime,        \* bound on the clock
          MaxFaults,      \* bound on failed calls and crashes
          None

Jtis  == Requests
Token == [userId: Users, expiresAt: Nat, revoked: BOOLEAN]
(* `spent': the presented token had been rotated or revoked on arrival.    *)
Call  == [op: {"register", "login", "refresh"}, userId: Users,
          jti: Jtis \union {None}, spent: BOOLEAN]

ASSUME ConstantsAssumption ==
    /\ Lifetime \in Nat \ {0} /\ BatchSize \in Nat \ {0}
    /\ MaxTime \in Nat /\ MaxFaults \in Nat
    /\ None \notin Requests \union Nat \union {"login", "active", "deleted"}
    /\ "login" \notin Requests
    /\ None \notin Token /\ None \notin Call

VARIABLES now,
          accounts,   \* accounts[u]: None, "active" or "deleted"
          tokens,     \* tokens[j]: the stored document, or None
          parent,     \* parent[j]: the token j was rotated from; "login" for a
                      \* token of a login or a registration, None before it exists
          pc, call, code,   \* the requests
          signed,     \* signed[r]: when the token r signed expires, or None
          job,        \* the cleanup job: its loop, its `now', its batch of ids
          faults

vars == <<now, accounts, tokens, parent, pc, call, signed, code, job, faults>>
requests == <<pc, call, signed, code>>

Pcs   == {"idle", "checkEmail", "lookupRole", "createUser", "findUser",
          "findToken", "revoke", "loadUser", "storeToken", "done", "lost"}

Init ==
    /\ now      = 0
    /\ accounts = [u \in Users |-> None]
    /\ tokens   = [j \in Jtis |-> None]
    /\ parent   = [j \in Jtis |-> None]
    /\ pc       = [r \in Requests |-> "idle"]
    /\ call     = [r \in Requests |-> None]
    /\ signed   = [r \in Requests |-> None]
    /\ code     = [r \in Requests |-> 0]
    /\ job      = [at |-> "idle", cutoff |-> 0, batch |-> {}]
    /\ faults   = 0

InFlight(r) == pc[r] \notin {"idle", "done", "lost"}

Goto(r, label) == pc' = [pc EXCEPT ![r] = label] /\ UNCHANGED code
Respond(r, s)  == /\ pc' = [pc EXCEPT ![r] = "done"]
                  /\ code' = [code EXCEPT ![r] = s]

Live(u)    == accounts[u] = "active"
Expired(j) == tokens[j].expiresAt <= now

----------------------------------------------------------------------------
(* Arrival of a mutation.                                                  *)

Arrive(r, op, u, j, spent, label) ==
    /\ pc[r] = "idle"
    /\ call' = [call EXCEPT ![r] = [op |-> op, userId |-> u, jti |-> j, spent |-> spent]]
    /\ UNCHANGED <<now, accounts, tokens, parent, signed, job, faults>>
    /\ Goto(r, label)

(* An _id is drawn once.                                                   *)
Drawn == {call[r].userId : r \in {q \in Requests : call[q] # None /\ call[q].op = "register"}}

Register(r) == \E u \in Users \ Drawn : Arrive(r, "register", u, None, FALSE, "checkEmail")
Login(r)    == \E u \in Users : Arrive(r, "login", u, None, FALSE, "findUser")

(* A client refreshes with a token some answer q gave it.  An expired JWT  *)
(* is refused by jwt.verify (401), a presentation that changes nothing.    *)
Refresh(r) == \E q \in Requests :
    /\ pc[q] = "done" /\ code[q] \in {200, 201}
    /\ now < signed[q]
    /\ Arrive(r, "refresh", call[q].userId, q,
              \/ tokens[q] # None /\ tokens[q].revoked
              \/ \E k \in Jtis : parent[k] = q,
              "findToken")

----------------------------------------------------------------------------
(* register: findByEmail, role lookup, create, reload, token.              *)

(* A live user bears the email, or none does.                              *)
CheckEmail(r) ==
    /\ pc[r] = "checkEmail"
    /\ Respond(r, 400) \/ Goto(r, "lookupRole")
    /\ UNCHANGED <<now, accounts, tokens, parent, call, signed, job, faults>>

(* The roles collection is not part of this module: found, or not found.   *)
LookupRole(r) ==
    /\ pc[r] = "lookupRole"
    /\ Respond(r, 404) \/ Goto(r, "createUser")
    /\ UNCHANGED <<now, accounts, tokens, parent, call, signed, job, faults>>

(* A duplicate key makes create() answer 400, which register turns to 500. *)
CreateUser(r) ==
    /\ pc[r] = "createUser"
    /\ \/ Respond(r, 500) /\ UNCHANGED accounts
       \/ /\ accounts[call[r].userId] = None
          /\ accounts' = [accounts EXCEPT ![call[r].userId] = "active"]
          /\ Goto(r, "loadUser")
    /\ UNCHANGED <<now, tokens, parent, call, signed, job, faults>>

----------------------------------------------------------------------------
(* login: findByEmail and comparePassword; the password may be wrong.      *)

FindUser(r) ==
    /\ pc[r] = "findUser"
    /\ \/ Respond(r, 400)
       \/ Live(call[r].userId) /\ Goto(r, "loadUser")
    /\ UNCHANGED <<now, accounts, tokens, parent, call, signed, job, faults>>

----------------------------------------------------------------------------
(* refreshToken: findOne and its checks, then revoke and save.             *)

(* Mistake: revokedAt is not looked at.                                    *)
FindTokenIgnoringRevoked(r) ==
    /\ pc[r] = "findToken"
    /\ LET j == call[r].jti
       IN  IF tokens[j] = None \/ (tokens[j] # None /\ Expired(j))
           THEN Respond(r, 401) ELSE Goto(r, "revoke")
    /\ UNCHANGED <<now, accounts, tokens, parent, call, signed, job, faults>>

FindToken(r) ==
    /\ pc[r] = "findToken"
    /\ LET j == call[r].jti
       IN  IF tokens[j] # None /\ ~tokens[j].revoked /\ ~Expired(j)
           THEN Goto(r, "revoke") ELSE Respond(r, 401)
    /\ UNCHANGED <<now, accounts, tokens, parent, call, signed, job, faults>>

(* Mistake: stored.save() is forgotten.                                    *)
RevokeUnsaved(r) ==
    /\ pc[r] = "revoke"
    /\ Goto(r, "loadUser")
    /\ UNCHANGED <<now, accounts, tokens, parent, call, signed, job, faults>>

(* save() updates by _id, whatever revokedAt is by now; on a document that *)
(* was removed meanwhile it throws DocumentNotFoundError: 500.             *)
Revoke(r) ==
    /\ pc[r] = "revoke"
    /\ LET j == call[r].jti
       IN  IF tokens[j] = None THEN Respond(r, 500) /\ UNCHANGED tokens
           ELSE /\ tokens' = [tokens EXCEPT ![j].revoked = TRUE]
                /\ Goto(r, "loadUser")
    /\ UNCHANGED <<now, accounts, parent, call, signed, job, faults>>

----------------------------------------------------------------------------
(* All three: load the user, sign the pair, store the refresh token.       *)

(* The user may have been soft-deleted since.  Signing follows in the same *)
(* turn; the expiry is counted from here.                                  *)
LoadUser(r) ==
    /\ pc[r] = "loadUser"
    /\ IF ~Live(call[r].userId)
       THEN Respond(r, IF call[r].op = "register" THEN 500 ELSE 404) /\ UNCHANGED signed
       ELSE signed' = [signed EXCEPT ![r] = now + Lifetime] /\ Goto(r, "storeToken")
    /\ UNCHANGED <<now, accounts, tokens, parent, call, job, faults>>

Origin(r) == IF call[r].op = "refresh" THEN call[r].jti ELSE "login"

Insert(r) ==
    /\ tokens' = [tokens EXCEPT ![r] =
         [userId |-> call[r].userId, expiresAt |-> signed[r], revoked |-> FALSE]]
    /\ parent' = [parent EXCEPT ![r] = Origin(r)]

(* Mistake: a refresh answers its pair without storing the new token.      *)
StoreTokenOfLogins(r) ==
    /\ pc[r] = "storeToken"
    /\ IF call[r].op = "refresh" THEN UNCHANGED <<tokens, parent>> ELSE Insert(r)
    /\ Respond(r, IF call[r].op = "register" THEN 201 ELSE 200)
    /\ UNCHANGED <<now, accounts, call, signed, job, faults>>

StoreToken(r) ==
    /\ pc[r] = "storeToken"
    /\ Insert(r)
    /\ Respond(r, IF call[r].op = "register" THEN 201 ELSE 200)
    /\ UNCHANGED <<now, accounts, call, signed, job, faults>>

----------------------------------------------------------------------------
(* Failures of the requests.                                               *)

Fault == faults < MaxFaults /\ faults' = faults + 1

(* A failed database call: findByEmail's makes register go on and login    *)
(* answer 400; a failed role lookup reads as 404, a failed reload as 404   *)
(* or 500; every other one as 500.                                         *)
CallFails(r) ==
    /\ InFlight(r)
    /\ Fault
    /\ CASE pc[r] = "checkEmail" -> Goto(r, "lookupRole")
         [] pc[r] = "findUser"   -> Respond(r, 400)
         [] pc[r] = "lookupRole" -> Respond(r, 404)
         [] pc[r] = "loadUser" /\ call[r].op # "register" -> Respond(r, 404)
         [] OTHER -> Respond(r, 500)
    /\ UNCHANGED <<now, accounts, tokens, parent, call, signed, job>>

(* A write is stored but its acknowledgement is lost: 500.                 *)
AckLost(r) ==
    /\ \/ /\ pc[r] = "createUser" /\ accounts[call[r].userId] = None
          /\ accounts' = [accounts EXCEPT ![call[r].userId] = "active"]
          /\ UNCHANGED <<tokens, parent>>
       \/ /\ pc[r] = "revoke" /\ tokens[call[r].jti] # None
          /\ tokens' = [tokens EXCEPT ![call[r].jti].revoked = TRUE]
          /\ UNCHANGED <<accounts, parent>>
       \/ pc[r] = "storeToken" /\ Insert(r) /\ UNCHANGED accounts
    /\ Fault
    /\ Respond(r, 500)
    /\ UNCHANGED <<now, call, signed, job>>

(* The process dies with its requests and its cleanup job.                 *)
Crash ==
    /\ \E r \in Requests : InFlight(r)
    /\ Fault
    /\ pc' = [r \in Requests |-> IF InFlight(r) THEN "lost" ELSE pc[r]]
    /\ job' = [job EXCEPT !.at = "idle", !.batch = {}]
    /\ UNCHANGED <<now, accounts, tokens, parent, call, signed, code>>

----------------------------------------------------------------------------
(* The cleanup job, the TTL monitor, soft deletes and the clock.           *)

StartCleanup ==
    /\ job.at = "idle"
    /\ job' = [at |-> "find", cutoff |-> now, batch |-> {}]
    /\ UNCHANGED <<now, accounts, tokens, parent, requests, faults>>

(* Mistake: revoked tokens are taken for garbage.                          *)
DueOrRevoked(cutoff) ==
    {j \in Jtis : tokens[j] # None /\ (tokens[j].revoked \/ tokens[j].expiresAt <= cutoff)}

(* Mistake: a token that expires this very moment is left out.             *)
DueStrictly(cutoff) == {j \in Jtis : tokens[j] # None /\ tokens[j].expiresAt < cutoff}

Due(cutoff) == {j \in Jtis : tokens[j] # None /\ tokens[j].expiresAt <= cutoff}

(* find().limit(batchSize), until it finds nothing.                        *)
FindBatch ==
    /\ job.at = "find"
    /\ IF Due(job.cutoff) = {}
       THEN job' = [job EXCEPT !.at = "ended"]
       ELSE \E batch \in SUBSET Due(job.cutoff) :
              /\ Cardinality(batch) = IF Cardinality(Due(job.cutoff)) < BatchSize
                                      THEN Cardinality(Due(job.cutoff)) ELSE BatchSize
              /\ job' = [job EXCEPT !.at = "delete", !.batch = batch]
    /\ UNCHANGED <<now, accounts, tokens, parent, requests, faults>>

(* Mistake: deleteMany only matches tokens that are not revoked.           *)
DeleteUnrevoked ==
    /\ job.at = "delete"
    /\ tokens' = [j \in Jtis |-> IF j \in job.batch /\ tokens[j] # None
                                    /\ ~tokens[j].revoked THEN None ELSE tokens[j]]
    /\ job' = [job EXCEPT !.at = "find", !.batch = {}]
    /\ UNCHANGED <<now, accounts, parent, requests, faults>>

DeleteBatch ==
    /\ job.at = "delete"
    /\ tokens' = [j \in Jtis |-> IF j \in job.batch THEN None ELSE tokens[j]]
    /\ job' = [job EXCEPT !.at = "find", !.batch = {}]
    /\ UNCHANGED <<now, accounts, parent, requests, faults>>

(* The run logs how much it deleted and is over until the next schedule.   *)
EndCleanup ==
    /\ job.at = "ended"
    /\ job' = [job EXCEPT !.at = "idle"]
    /\ UNCHANGED <<now, accounts, tokens, parent, requests, faults>>

(* find or deleteMany throws; the run ends with an error.                  *)
CleanupFails ==
    /\ job.at \in {"find", "delete"}
    /\ Fault
    /\ job' = [job EXCEPT !.at = "idle", !.batch = {}]
    /\ UNCHANGED <<now, accounts, tokens, parent, requests>>

(* MongoDB's TTL monitor removes an expired document at any later time.    *)
TtlRemove(j) ==
    /\ tokens[j] # None /\ Expired(j)
    /\ tokens' = [tokens EXCEPT ![j] = None]
    /\ UNCHANGED <<now, accounts, parent, requests, job, faults>>

SoftDeleteUser(u) ==
    /\ Live(u)
    /\ accounts' = [accounts EXCEPT ![u] = "deleted"]
    /\ UNCHANGED <<now, tokens, parent, requests, job, faults>>

(* Timing assumption: an insertion never takes as long as a token lives.   *)
Tick ==
    /\ now < MaxTime
    /\ \A r \in Requests : pc[r] = "storeToken" => now + 1 < signed[r]
    /\ now' = now + 1
    /\ UNCHANGED <<accounts, tokens, parent, requests, job, faults>>

Serve(r) ==
    \/ CheckEmail(r) \/ LookupRole(r) \/ CreateUser(r) \/ FindUser(r)
    \/ FindToken(r) \/ Revoke(r) \/ LoadUser(r) \/ StoreToken(r)
    \/ CallFails(r) \/ AckLost(r)

Cleanup == FindBatch \/ DeleteBatch \/ EndCleanup \/ CleanupFails

Next ==
    \/ \E r \in Requests : Register(r) \/ Login(r) \/ Refresh(r) \/ Serve(r)
    \/ StartCleanup \/ Cleanup
    \/ Crash \/ Tick
    \/ \E j \in Jtis : TtlRemove(j)
    \/ \E u \in Users : SoftDeleteUser(u)

(* A database call of the job returns or fails, and the job goes on.       *)
Spec == Init /\ [][Next]_vars /\ WF_vars(Cleanup)

----------------------------------------------------------------------------
(* Properties.                                                             *)

(* Every variable has the shape the code gives it.                         *)
TypeOK ==
    /\ now      \in 0..MaxTime
    /\ accounts \in [Users -> {None, "active", "deleted"}]
    /\ tokens   \in [Jtis -> Token \union {None}]
    /\ parent   \in [Jtis -> Jtis \union {None, "login"}]
    /\ pc       \in [Requests -> Pcs]
    /\ call     \in [Requests -> Call \union {None}]
    /\ signed   \in [Requests -> Nat \union {None}]
    /\ code     \in [Requests -> {0, 200, 201, 400, 401, 404, 500}]
    /\ job      \in [at: {"idle", "find", "delete", "ended"}, cutoff: Nat,
                     batch: SUBSET Jtis]
    /\ faults   \in 0..MaxFaults

(* auth.service.js:16, "existing refresh token is revoked and a brand new  *)
(* one is issued", in that order: a token with a successor is revoked, or  *)
(* was so until its document was removed.                                  *)
SuccessorsOfRevoked ==
    \A j \in Jtis : parent[j] \in Jtis =>
      tokens[parent[j]] = None \/ tokens[parent[j]].revoked

(* A refresh that arrives after its token was revoked or rotated is never  *)
(* answered with a new pair, however often the client retries and whatever *)
(* the cleanup removes meanwhile.                                          *)
SpentTokenRefused ==
    \A r \in Requests : pc[r] = "done" /\ call[r].spent => code[r] \in {401, 500}

(* What is known of a token: its request outlives its document.            *)
SessionOf(j) ==
    [userId |-> call[j].userId, from |-> parent[j], expiresAt |-> signed[j],
     state |-> IF tokens[j] = None THEN "removed"
               ELSE IF tokens[j].revoked THEN "revoked" ELSE "live"]

Registrants == {u \in Users : accounts[u] # None}
Sessions   == [j \in {k \in Jtis : parent[k] # None} |-> SessionOf(j)]

Promise == INSTANCE RefreshTokens WITH
    clock <- now, users <- Registrants, sessions <- Sessions

(* The rotation implements the promise of refresh tokens: exchanged within *)
(* one user and for a spent token only, revoked for good, and "Only removes*)
(* tokens where expiresAt <= now" (refreshTokenCleanup.job.js:13).         *)
TokenPromise == Promise!TokenSpec

(* refreshTokenCleanup.job.js:6, "until no more expired tokens found at    *)
(* execution time": a run that ended has removed all that was expired when *)
(* it started, tokens stored meanwhile included.                           *)
CleanupIsComplete ==
    job.at = "ended" => \A j \in Jtis : tokens[j] # None => tokens[j].expiresAt > job.cutoff

(* The loop of the cleanup job ends although logins and refreshes go on.   *)
CleanupEnds == job.at = "find" ~> job.at \in {"idle", "ended"}

(* auth.service.js:7, "invalidate old, issue new pair atomically", as far  *)
(* as the code keeps it: while no call has failed, the user of a revoked   *)
(* token got a successor, or is getting it, or was deleted meanwhile.      *)
RotatedUnlessFault ==
    faults = 0 => \A j \in Jtis : tokens[j] # None /\ tokens[j].revoked =>
      \/ \E k \in Jtis : parent[k] = j
      \/ \E r \in Requests : InFlight(r) /\ call[r].jti = j
      \/ ~Live(tokens[j].userId)

----------------------------------------------------------------------------
(* What the documentation says and the code does not do.                   *)

(* auth.service.js:17, "No reuse of refresh tokens": a token is exchanged  *)
(* for one successor at most.                                              *)
NoReuse ==
    \A j, k \in Jtis : parent[j] \in Jtis /\ parent[j] = parent[k] => j = k
==============================================================================
