-------------------------- MODULE AuthServiceProofs --------------------------
(***************************************************************************)
(* Proofs about AuthService, for any number of users and requests, any     *)
(* lifetime and batch size, and any number of faults.                      *)
(***************************************************************************)
EXTENDS AuthService, TLAPS

------------------------------------------------------------------------------
(* What holds between any two steps, beside the properties themselves.     *)

(* The chain of a token: it is stored once, after the token it replaces was*)
(* revoked; and the chain stays even when the documents are removed.       *)
Superseded(j) == tokens[j] = None \/ tokens[j].revoked

Chain(j) ==
    /\ tokens[j] # None => parent[j] # None
    /\ parent[j] # None => pc[j] \in {"done", "lost"} /\ signed[j] # None
    /\ parent[j] \in Jtis => parent[parent[j]] # None /\ Superseded(parent[j])

(* What a request has established at each await.                           *)
Stage(r) ==
    /\ pc[r] = "idle" <=> call[r] = None
    /\ pc[r] # "done" <=> code[r] = 0
    /\ code[r] \in {200, 201} => parent[r] # None
    /\ pc[r] = "storeToken" => signed[r] # None /\ now < signed[r]
    /\ pc[r] # "idle" =>
         LET c == call[r]
         IN  /\ c.op = "refresh" <=> c.jti # None
             /\ c.jti # None => parent[c.jti] # None
             /\ c.spent => /\ c.op = "refresh" /\ Superseded(c.jti)
                           /\ pc[r] \in {"findToken", "done", "lost"}
                           /\ code[r] \in {0, 401, 500}
             /\ pc[r] \in {"checkEmail", "lookupRole", "createUser"} => c.op = "register"
             /\ pc[r] = "findUser" => c.op = "login"
             /\ pc[r] \in {"findToken", "revoke"} => c.op = "refresh"
             /\ pc[r] \in {"loadUser", "storeToken"} /\ c.op = "refresh" => Superseded(c.jti)

(* What the cleanup job relies on between its awaits.                      *)
CleanupStage ==
    /\ job.cutoff <= now
    /\ \A j \in job.batch : /\ parent[j] # None
                            /\ tokens[j] # None => tokens[j].expiresAt <= job.cutoff
    /\ job.at = "ended" =>
         \A j \in Jtis : tokens[j] # None => tokens[j].expiresAt > job.cutoff

(* The inductive invariant the proofs rest on.                             *)
IInv == /\ TypeOK
        /\ \A j \in Jtis : Chain(j)
        /\ \A r \in Requests : Stage(r)
        /\ CleanupStage

(* What the next property rests on.  A token belongs to the user its       *)
(* request was for, who exists; and so does the token a refresh presents.  *)
Ownership ==
    /\ \A j \in Jtis : tokens[j] # None =>
         tokens[j].userId = call[j].userId /\ accounts[call[j].userId] # None
    /\ \A r \in Requests :
         /\ pc[r] = "storeToken" => accounts[call[r].userId] # None
         /\ call[r] # None /\ call[r].op = "refresh" =>
              call[call[r].jti] # None /\ call[r].userId = call[call[r].jti].userId

(* The refresh that revoked a token is past its revocation.                *)
Rotating(j) == \E r \in Requests : pc[r] \in {"loadUser", "storeToken"} /\ call[r].jti = j

Rotation ==
    faults = 0 => \A j \in Jtis : tokens[j] # None /\ tokens[j].revoked =>
      (\E k \in Jtis : parent[k] = j) \/ Rotating(j) \/ ~Live(tokens[j].userId)

(* Beside all that IInv says, a stored token belongs to the user of the    *)
(* request that signed it, and while nothing has failed a revoked one has  *)
(* its successor or is on its way to it, unless its user was deleted       *)
(* meanwhile (auth.service.js:202-231).                                    *)
RotationIInv == IInv /\ Ownership /\ Rotation

------------------------------------------------------------------------------

(* Every component's type at a glance, None told apart from the values.    *)
LEMMA Distinct ==
    /\ None \notin Token /\ None \notin Call /\ None \notin Nat /\ None \notin Requests
    /\ None # "login" /\ None # "active" /\ None # "deleted"
    /\ "login" \notin Requests /\ Jtis = Requests
  BY ConstantsAssumption DEF Jtis

(* The empty database satisfies the inductive invariant.                   *)
LEMMA InitIInv == Init => IInv
  <1> SUFFICES ASSUME Init PROVE IInv
    OBVIOUS
  <1>1. TypeOK
    BY Distinct, ConstantsAssumption DEF Init, TypeOK, Pcs
  <1>2. \A j \in Jtis : Chain(j)
    BY Distinct DEF Init, Chain
  <1>3. \A r \in Requests : Stage(r)
    BY Distinct DEF Init, Stage
  <1>5. CleanupStage
    BY DEF Init, CleanupStage
  <1> QED BY <1>1, <1>2, <1>3, <1>5 DEF IInv

(* What every step does to the tokens: a stored token's origin stays, and  *)
(* a superseded token stays superseded.                                    *)
Tame == \A j \in Jtis : parent[j] # None =>
          /\ parent'[j] = parent[j]
          /\ Superseded(j) => Superseded(j)'

SameRequest(q) == /\ pc'[q] = pc[q] /\ call'[q] = call[q]
                  /\ code'[q] = code[q] /\ signed'[q] = signed[q]

(* A tame step keeps the stage of a request it does not move.              *)
LEMMA KeepStage ==
    ASSUME IInv, Tame, NEW q \in Requests, SameRequest(q),
           parent[q] # None => parent'[q] # None,
           pc[q] = "storeToken" => now' < signed[q]
    PROVE  Stage(q)'
  <1>1. Stage(q)
    BY DEF IInv
  <1>2. pc[q] # "idle" /\ call[q].jti # None => call[q].jti \in Jtis
    BY <1>1 DEF IInv, TypeOK, Stage, Call
  <1> QED BY <1>1, <1>2 DEF Tame, SameRequest, Stage

(* A tame step keeps the chain of a token it does not store.               *)
LEMMA KeepChain ==
    ASSUME IInv, Tame, NEW j \in Jtis, parent'[j] = parent[j],
           tokens'[j] # None => tokens[j] # None,
           pc[j] \in {"done", "lost"} => pc'[j] = pc[j],
           parent[j] # None => signed'[j] = signed[j]
    PROVE  Chain(j)'
  <1>1. Chain(j)
    BY DEF IInv
  <1> QED BY <1>1 DEF Tame, Chain

(* The tokens untouched: the chains stay.                                  *)
LEMMA SameTokens ==
    ASSUME UNCHANGED <<tokens, parent>> PROVE Tame
  BY DEF Tame, Superseded

(* A request that answers an error, or goes on without any effect.         *)
LEMMA MoveIInv ==
    ASSUME IInv, NEW r \in Requests, InFlight(r),
           \/ \E s \in {400, 401, 404, 500} :
                Respond(r, s) /\ (pc[r] = "findToken" => s \in {401, 500})
           \/ pc[r] = "checkEmail" /\ Goto(r, "lookupRole")
           \/ pc[r] = "lookupRole" /\ Goto(r, "createUser")
           \/ pc[r] = "findUser" /\ Goto(r, "loadUser")
           \/ pc[r] = "findToken" /\ ~Superseded(call[r].jti) /\ Goto(r, "revoke"),
           UNCHANGED <<now, accounts, tokens, parent, call, signed, job>>,
           faults' \in 0..MaxFaults
    PROVE  IInv'
  <1>0. Tame
    BY SameTokens
  <1>1. TypeOK'
    BY DEF IInv, TypeOK, Respond, Goto, Pcs
  <1>2. \A j \in Jtis : Chain(j)'
    <2> TAKE j \in Jtis
    <2>1. pc[j] \in {"done", "lost"} => pc'[j] = pc[j]
      BY DEF IInv, TypeOK, Respond, Goto, InFlight, Jtis
    <2> QED BY <2>1, <1>0, KeepChain
  <1>3. ASSUME NEW q \in Requests PROVE Stage(q)'
    <2>1. CASE q # r
      <3>1. SameRequest(q)
        BY <2>1 DEF IInv, TypeOK, Respond, Goto, SameRequest
      <3> QED BY <3>1, <1>0, KeepStage DEF IInv, Stage
    <2>2. CASE q = r
      <3>1. Stage(r) /\ call[r] # None
        BY DEF IInv, Stage, InFlight
      <3>2. parent[r] = None
        BY <3>1, Distinct DEF IInv, Chain, InFlight
      <3>3. /\ call[r].jti # None => call[r].jti \in Jtis
            /\ pc[r] \in Pcs /\ call'[r] = call[r] /\ parent' = parent
            /\ \A j \in Jtis : Superseded(j)' <=> Superseded(j)
        BY <3>1 DEF IInv, TypeOK, Call, Superseded
      <3>4. CASE \E s \in {400, 401, 404, 500} :
                   Respond(r, s) /\ (pc[r] = "findToken" => s \in {401, 500})
        <4>1. /\ pc'[r] = "done" /\ code'[r] \in {400, 401, 404, 500}
              /\ pc[r] = "findToken" => code'[r] \in {401, 500}
          BY <3>4 DEF IInv, TypeOK, Respond
        <4> QED BY <4>1, <3>1, <3>2, <3>3, <2>2 DEF Stage, InFlight
      <3>5. CASE \/ pc[r] = "checkEmail" /\ Goto(r, "lookupRole")
                 \/ pc[r] = "lookupRole" /\ Goto(r, "createUser")
                 \/ pc[r] = "findUser" /\ Goto(r, "loadUser")
                 \/ pc[r] = "findToken" /\ ~Superseded(call[r].jti) /\ Goto(r, "revoke")
        <4>1. /\ code'[r] = 0
              /\ \/ pc[r] = "checkEmail" /\ pc'[r] = "lookupRole"
                 \/ pc[r] = "lookupRole" /\ pc'[r] = "createUser"
                 \/ pc[r] = "findUser" /\ pc'[r] = "loadUser"
                 \/ pc[r] = "findToken" /\ ~Superseded(call[r].jti) /\ pc'[r] = "revoke"
          BY <3>5, <3>1 DEF IInv, TypeOK, Goto, Stage, InFlight
        <4> QED BY <4>1, <3>1, <3>2, <3>3, <2>2 DEF Stage, InFlight
      <3> QED BY <3>4, <3>5
    <2> QED BY <2>1, <2>2
  <1>6. CleanupStage'
    BY DEF IInv, CleanupStage
  <1> QED BY <1>1, <1>2, <1>3, <1>6 DEF IInv

(* The arrival of a mutation; a refresh presents a token that was answered.*)
LEMMA ArriveIInv ==
    ASSUME IInv, NEW r \in Requests, NEW op \in {"register", "login", "refresh"},
           NEW e \in Users, NEW j \in Jtis \union {None}, NEW spent \in BOOLEAN, NEW label,
           Arrive(r, op, e, j, spent, label),
           op = "refresh" => j # None /\ parent[j] # None /\ (spent => Superseded(j)),
           op # "refresh" => j = None /\ ~spent,
           label = (CASE op = "register" -> "checkEmail"
                      [] op = "login"    -> "findUser"
                      [] op = "refresh"  -> "findToken")
    PROVE  IInv'
  <1> DEFINE new == [op |-> op, userId |-> e, jti |-> j, spent |-> spent]
  <1>0. /\ new \in Call /\ new # None /\ new.op = op /\ new.jti = j /\ new.spent = spent
    BY Distinct DEF Call
  <1>1. /\ pc[r] = "idle" /\ call' = [call EXCEPT ![r] = new]
        /\ pc' = [pc EXCEPT ![r] = label]
        /\ UNCHANGED <<now, accounts, tokens, parent, signed, code, job, faults>>
    BY DEF Arrive, Goto
  <1> HIDE DEF new
  <1>2. Tame
    BY <1>1, SameTokens
  <1>3. label \in {"checkEmail", "findUser", "findToken"}
    OBVIOUS
  <1>4. TypeOK'
    BY <1>0, <1>1, <1>3 DEF IInv, TypeOK, Pcs
  <1>5. \A k \in Jtis : Chain(k)'
    <2> TAKE k \in Jtis
    <2>1. pc[k] \in {"done", "lost"} => pc'[k] = pc[k]
      BY <1>1 DEF IInv, TypeOK, Jtis
    <2> QED BY <2>1, <1>1, <1>2, KeepChain
  <1>6. ASSUME NEW q \in Requests PROVE Stage(q)'
    <2>1. CASE q # r
      <3>1. SameRequest(q)
        BY <2>1, <1>1 DEF IInv, TypeOK, SameRequest
      <3> QED BY <3>1, <1>1, <1>2, KeepStage DEF IInv, Stage
    <2>2. CASE q = r
      <3>1. /\ pc'[r] = label /\ call'[r] = new /\ code'[r] = 0 /\ code[r] = 0
            /\ parent' = parent /\ (j # None => (Superseded(j)' <=> Superseded(j)))
        BY <1>1 DEF IInv, TypeOK, Stage, Superseded
      <3> QED BY <2>2, <3>1, <1>0 DEF Stage
    <2> QED BY <2>1, <2>2
  <1>8. CleanupStage'
    BY <1>1 DEF IInv, CleanupStage
  <1> QED BY <1>4, <1>5, <1>6, <1>8 DEF IInv

(* A user is created.                                                      *)
LEMMA CreateIInv ==
    ASSUME IInv, NEW r \in Requests, pc[r] = "createUser",
           accounts[call[r].userId] = None,
           accounts' = [accounts EXCEPT ![call[r].userId] = "active"],
           Goto(r, "loadUser") \/ Respond(r, 500),
           UNCHANGED <<now, tokens, parent, call, signed, job>>,
           faults' \in 0..MaxFaults
    PROVE  IInv'
  <1>0. Tame
    BY SameTokens
  <1>1. Stage(r) /\ call[r] \in Call /\ call[r].userId \in Users
        /\ call[r].op = "register"
    BY DEF IInv, TypeOK, Stage, Call
  <1>2. /\ \/ pc' = [pc EXCEPT ![r] = "loadUser"] /\ code' = code
           \/ pc' = [pc EXCEPT ![r] = "done"] /\ code' = [code EXCEPT ![r] = 500]
    BY DEF Goto, Respond
  <1>3. TypeOK'
    BY <1>1, <1>2 DEF IInv, TypeOK, Pcs
  <1>4. \A k \in Jtis : Chain(k)'
    <2> TAKE k \in Jtis
    <2>1. pc[k] \in {"done", "lost"} => pc'[k] = pc[k]
      BY <1>2 DEF IInv, TypeOK, Jtis
    <2> QED BY <2>1, <1>0, KeepChain
  <1>5. ASSUME NEW q \in Requests PROVE Stage(q)'
    <2>1. CASE q # r
      <3>1. SameRequest(q)
        BY <2>1, <1>2 DEF IInv, TypeOK, SameRequest
      <3> QED BY <3>1, <1>0, KeepStage DEF IInv, Stage
    <2>2. CASE q = r
      <3>1. /\ pc'[r] \in {"loadUser", "done"} /\ code'[r] \in {0, 500}
            /\ pc'[r] # "done" <=> code'[r] = 0
        BY <1>1, <1>2 DEF IInv, TypeOK, Stage
      <3>2. ~call[r].spent /\ call[r].jti = None
        BY <1>1 DEF Stage
      <3> QED BY <2>2, <3>1, <3>2, <1>1 DEF Stage
    <2> QED BY <2>1, <2>2
  <1>7. CleanupStage'
    BY DEF IInv, CleanupStage
  <1> QED BY <1>3, <1>4, <1>5, <1>7 DEF IInv

(* The presented token is revoked.                                         *)
LEMMA RevokeIInv ==
    ASSUME IInv, NEW r \in Requests, pc[r] = "revoke", tokens[call[r].jti] # None,
           tokens' = [tokens EXCEPT ![call[r].jti].revoked = TRUE],
           Goto(r, "loadUser") \/ Respond(r, 500),
           UNCHANGED <<now, accounts, parent, call, signed, job>>,
           faults' \in 0..MaxFaults
    PROVE  IInv'
  <1> DEFINE j == call[r].jti
  <1>1. /\ Stage(r) /\ call[r] \in Call /\ call[r].op = "refresh"
        /\ j \in Jtis /\ ~call[r].spent /\ parent[r] = None
    BY DEF IInv, TypeOK, Stage, Call, Chain, Jtis
  <1>a. tokens \in [Jtis -> Token \union {None}] /\ tokens[j] \in Token
    BY <1>1 DEF IInv, TypeOK
  <1>b. tokens' = [tokens EXCEPT ![j] = [tokens[j] EXCEPT !.revoked = TRUE]]
    OBVIOUS
  <1> HIDE DEF j
  <1>2. /\ tokens'[j] = [tokens[j] EXCEPT !.revoked = TRUE]
        /\ \A k \in Jtis \ {j} : tokens'[k] = tokens[k]
    BY <1>1, <1>a, <1>b
  <1>3. /\ tokens'[j] \in Token /\ tokens'[j].revoked
        /\ tokens'[j].expiresAt = tokens[j].expiresAt
    <2> DEFINE t == tokens[j]
    <2>1. t \in [userId: Users, expiresAt: Nat, revoked: BOOLEAN]
      BY <1>a DEF Token
    <2> HIDE DEF t
    <2>2. /\ [t EXCEPT !.revoked = TRUE] \in [userId: Users, expiresAt: Nat, revoked: BOOLEAN]
          /\ [t EXCEPT !.revoked = TRUE].expiresAt = t.expiresAt
      BY <2>1
    <2>3. [t EXCEPT !.revoked = TRUE].revoked = TRUE
      BY <2>1
    <2> QED BY <1>2, <2>2, <2>3 DEF t, Token
  <1> USE DEF j
  <1>4. tokens' \in [Jtis -> Token \union {None}]
    BY <1>1, <1>b, <1>3, <1>a
  <1>5. Tame
    BY <1>2, <1>3 DEF Tame, Superseded
  <1>6. /\ \/ pc' = [pc EXCEPT ![r] = "loadUser"] /\ code' = code
           \/ pc' = [pc EXCEPT ![r] = "done"] /\ code' = [code EXCEPT ![r] = 500]
    BY DEF Goto, Respond
  <1>7. TypeOK'
    BY <1>4, <1>6 DEF IInv, TypeOK, Pcs
  <1>8. \A k \in Jtis : Chain(k)'
    <2> TAKE k \in Jtis
    <2>1. pc[k] \in {"done", "lost"} => pc'[k] = pc[k]
      BY <1>6 DEF IInv, TypeOK, Jtis
    <2>2. tokens'[k] # None => tokens[k] # None
      BY <1>2
    <2> QED BY <2>1, <2>2, <1>5, KeepChain
  <1>9. ASSUME NEW q \in Requests PROVE Stage(q)'
    <2>1. CASE q # r
      <3>1. SameRequest(q)
        BY <2>1, <1>6 DEF IInv, TypeOK, SameRequest
      <3> QED BY <3>1, <1>5, KeepStage DEF IInv, Stage
    <2>2. CASE q = r
      <3>1. /\ pc'[r] \in {"loadUser", "done"} /\ code'[r] \in {0, 500}
            /\ pc'[r] # "done" <=> code'[r] = 0
        BY <1>1, <1>6 DEF IInv, TypeOK, Stage
      <3> QED BY <2>2, <3>1, <1>1, <1>3 DEF Stage, Superseded
    <2> QED BY <2>1, <2>2
  <1>11. CleanupStage'
    BY <1>2, <1>3 DEF IInv, CleanupStage, TypeOK
  <1> QED BY <1>7, <1>8, <1>9, <1>11 DEF IInv

(* The user is there and the pair is signed.                               *)
LEMMA SignIInv ==
    ASSUME IInv, NEW r \in Requests, pc[r] = "loadUser",
           signed' = [signed EXCEPT ![r] = now + Lifetime],
           Goto(r, "storeToken"),
           UNCHANGED <<now, accounts, tokens, parent, call, job, faults>>
    PROVE  IInv'
  <1>0. Tame
    BY SameTokens
  <1>1. /\ Stage(r) /\ call[r] # None /\ parent[r] = None
        /\ now \in Nat /\ now + Lifetime \in Nat /\ now < now + Lifetime
    BY ConstantsAssumption DEF IInv, TypeOK, Stage, Chain, Jtis
  <1>2. pc' = [pc EXCEPT ![r] = "storeToken"] /\ code' = code
    BY DEF Goto
  <1>3. TypeOK'
    BY <1>1, <1>2 DEF IInv, TypeOK, Pcs
  <1>4. \A k \in Jtis : Chain(k)'
    <2> TAKE k \in Jtis
    <2>1. /\ pc[k] \in {"done", "lost"} => pc'[k] = pc[k]
          /\ parent[k] # None => signed'[k] = signed[k]
      BY <1>1, <1>2 DEF IInv, TypeOK, Jtis
    <2> QED BY <2>1, <1>0, KeepChain
  <1>5. ASSUME NEW q \in Requests PROVE Stage(q)'
    <2>1. CASE q # r
      <3>1. SameRequest(q)
        BY <2>1, <1>2 DEF IInv, TypeOK, SameRequest
      <3> QED BY <3>1, <1>0, KeepStage DEF IInv, Stage
    <2>2. CASE q = r
      <3>1. /\ pc'[r] = "storeToken" /\ code'[r] = 0 /\ signed'[r] = now + Lifetime
            /\ signed'[r] # None
        BY <1>1, <1>2, Distinct DEF IInv, TypeOK, Stage
      <3> QED BY <2>2, <3>1, <1>1 DEF Stage, Superseded
    <2> QED BY <2>1, <2>2
  <1>7. CleanupStage'
    BY DEF IInv, CleanupStage
  <1> QED BY <1>3, <1>4, <1>5, <1>7 DEF IInv

(* The token is stored: its document is new, and not yet due.              *)
LEMMA StoreIInv ==
    ASSUME IInv, NEW r \in Requests, pc[r] = "storeToken", Insert(r),
           \E s \in {200, 201, 500} :
             Respond(r, s) /\ (s = 201 => call[r].op = "register"),
           UNCHANGED <<now, accounts, call, signed, job>>,
           faults' \in 0..MaxFaults
    PROVE  IInv'
  <1> DEFINE new == [userId |-> call[r].userId, expiresAt |-> signed[r], revoked |-> FALSE]
  <1>1. /\ Stage(r) /\ call[r] \in Call /\ call[r] # None /\ r \in Jtis
        /\ parent[r] = None /\ tokens[r] = None /\ ~call[r].spent /\ code[r] = 0
        /\ signed[r] \in Nat /\ signed[r] # None /\ now < signed[r] /\ now \in Nat
        /\ call[r].jti # None => call[r].jti \in Jtis
    BY Distinct DEF IInv, TypeOK, Stage, Chain, Jtis, Call
  <1>a. call[r].userId \in Users
    BY <1>1 DEF Call
  <1>2. new \in Token /\ new # None /\ new.expiresAt = signed[r]
    <2>1. new \in Token
      BY <1>1, <1>a DEF Token
    <2>2. new.expiresAt = signed[r]
      OBVIOUS
    <2> HIDE DEF new
    <2> QED BY <2>1, <2>2, Distinct
  <1>3. /\ Origin(r) \in Jtis \union {"login"} /\ Origin(r) # None
        /\ Origin(r) \in Jtis => /\ call[r].op = "refresh" /\ Origin(r) = call[r].jti
                                 /\ parent[Origin(r)] # None /\ Superseded(Origin(r))
    BY <1>1, Distinct DEF Origin, Stage, Jtis
  <1>4. /\ tokens' = [tokens EXCEPT ![r] = new] /\ parent' = [parent EXCEPT ![r] = Origin(r)]
    BY DEF Insert
  <1> HIDE DEF new
  <1>5. PICK s \in {200, 201, 500} :
          /\ pc' = [pc EXCEPT ![r] = "done"]
          /\ code' = [code EXCEPT ![r] = s]
          /\ s = 201 => call[r].op = "register"
    BY DEF Respond
  <1>6. TypeOK'
    <2>1. /\ tokens' \in [Jtis -> Token \union {None}]
          /\ parent' \in [Jtis -> Jtis \union {None, "login"}]
      BY <1>1, <1>2, <1>3, <1>4 DEF IInv, TypeOK
    <2>2. pc' \in [Requests -> Pcs] /\ code' \in [Requests -> {0, 200, 201, 400, 401, 404, 500}]
      BY <1>5 DEF IInv, TypeOK, Pcs
    <2> QED BY <2>1, <2>2 DEF IInv, TypeOK
  <1>7. /\ \A k \in Jtis \ {r} : tokens'[k] = tokens[k] /\ parent'[k] = parent[k]
        /\ tokens'[r] = new /\ parent'[r] = Origin(r) /\ pc'[r] = "done"
        /\ \A k \in Jtis \ {r} : Superseded(k)' <=> Superseded(k)
    BY <1>1, <1>4, <1>5 DEF IInv, TypeOK, Superseded, Jtis
  <1>8. Tame
    BY <1>1, <1>7 DEF Tame
  <1>9. ASSUME NEW k \in Jtis PROVE Chain(k)'
    <2>1. CASE k # r
      <3>1. pc[k] \in {"done", "lost"} => pc'[k] = pc[k]
        BY <1>5 DEF IInv, TypeOK, Jtis
      <3> QED BY <2>1, <3>1, <1>7, <1>8, KeepChain
    <2>2. CASE k = r
      <3>1. Origin(r) \in Jtis => Origin(r) # r
        BY <1>1, <1>3
      <3>2. ASSUME NEW o \in Jtis, Origin(r) = o
            PROVE  parent'[o] # None /\ Superseded(o)'
        BY <3>1, <3>2, <1>3, <1>7
      <3> QED BY <2>2, <3>2, <1>1, <1>3, <1>7 DEF Chain, Superseded
    <2> QED BY <2>1, <2>2
  <1>10. ASSUME NEW q \in Requests PROVE Stage(q)'
    <2>1. CASE q # r
      <3>1. SameRequest(q)
        BY <2>1, <1>5 DEF IInv, TypeOK, SameRequest
      <3> QED BY <2>1, <3>1, <1>7, <1>8, KeepStage DEF IInv, Stage, Jtis
    <2>2. CASE q = r
      <3>1. call[r].jti # None => parent'[call[r].jti] # None
        BY <1>1, <1>7 DEF Stage
      <3>2. parent'[r] # None
        BY <1>3, <1>7
      <3> QED BY <2>2, <3>1, <3>2, <1>1, <1>5, <1>7 DEF Stage, IInv, TypeOK
    <2> QED BY <2>1, <2>2
  <1>12. CleanupStage'
    <2>1. r \notin job.batch /\ job.cutoff < signed[r]
      BY <1>1 DEF IInv, CleanupStage, TypeOK
    <2> QED BY <2>1, <1>1, <1>2, <1>7 DEF IInv, CleanupStage, TypeOK
  <1> QED BY <1>6, <1>9, <1>10, <1>12 DEF IInv

(* Tokens disappear, by the cleanup job or the TTL monitor, or only the    *)
(* job or an account changes.                                              *)
LEMMA EnvironmentIInv ==
    ASSUME IInv,
           tokens' \in [Jtis -> Token \union {None}],
           \A j \in Jtis : tokens'[j] # None => tokens'[j] = tokens[j],
           accounts' \in [Users -> {None, "active", "deleted"}],
           \A e \in Users : accounts[e] # None => accounts'[e] # None,
           UNCHANGED <<now, parent, requests>>,
           faults' \in 0..MaxFaults,
           job' \in [at: {"idle", "find", "delete", "ended"}, cutoff: Nat,
                     batch: SUBSET Jtis],
           CleanupStage'
    PROVE  IInv'
  <1>1. Tame
    BY DEF Tame, Superseded
  <1>2. TypeOK'
    BY DEF IInv, TypeOK, requests
  <1>3. \A k \in Jtis : Chain(k)'
    BY <1>1, KeepChain DEF requests
  <1>4. \A q \in Requests : Stage(q)'
    <2> TAKE q \in Requests
    <2>1. SameRequest(q) /\ (pc[q] = "storeToken" => now' < signed[q])
      BY DEF SameRequest, requests, IInv, Stage
    <2> QED BY <2>1, <1>1, KeepStage
  <1> QED BY <1>2, <1>3, <1>4 DEF IInv

(* The types the cleanup job's steps and the clock rely on.                *)
LEMMA JobType ==
    ASSUME IInv
    PROVE  /\ job.at \in {"idle", "find", "delete", "ended"} /\ job.cutoff \in Nat
           /\ job.batch \in SUBSET Jtis /\ now \in Nat /\ faults \in 0..MaxFaults
           /\ \A j \in Jtis : tokens[j] # None => tokens[j].expiresAt \in Nat
  BY DEF IInv, TypeOK, Token

(* A fault counts within its bound.                                        *)
LEMMA FaultBounded == ASSUME IInv, Fault PROVE faults' \in 0..MaxFaults
  BY ConstantsAssumption DEF IInv, TypeOK, Fault

(* A step of the cleanup job.                                              *)
LEMMA CleanupIInv ==
    ASSUME IInv, StartCleanup \/ Cleanup
    PROVE  IInv'
  <1> USE JobType
  <1> DEFINE JobTypeOK == job \in [at: {"idle", "find", "delete", "ended"}, cutoff: Nat,
                                   batch: SUBSET Jtis]
             Keeps == \A j \in Jtis : tokens'[j] # None => tokens'[j] = tokens[j]
  <1>0. JobTypeOK /\ CleanupStage /\ tokens \in [Jtis -> Token \union {None}]
        /\ accounts \in [Users -> {None, "active", "deleted"}]
    BY DEF IInv, TypeOK
  <1>1. CASE StartCleanup
    <2>1. JobTypeOK' /\ CleanupStage'
      BY <1>1 DEF StartCleanup, CleanupStage
    <2> QED BY <2>1, <1>0, <1>1, EnvironmentIInv DEF StartCleanup, requests
  <1>2. CASE FindBatch
    <2>1. CASE Due(job.cutoff) = {}
      <3>1. /\ job' = [job EXCEPT !.at = "ended"]
            /\ UNCHANGED <<now, accounts, tokens, parent, requests, faults>>
        BY <1>2, <2>1 DEF FindBatch
      <3>2. JobTypeOK' /\ job'.cutoff = job.cutoff /\ job'.batch = job.batch
        BY <3>1, <1>0
      <3>3. \A j \in Jtis : tokens[j] # None => tokens[j].expiresAt > job.cutoff
        BY <2>1 DEF Due
      <3>4. CleanupStage'
        BY <3>1, <3>2, <3>3, <1>0 DEF CleanupStage
      <3> QED BY <3>1, <3>2, <3>4, <1>0, EnvironmentIInv DEF requests
    <2>2. CASE Due(job.cutoff) # {}
      <3>1. PICK batch \in SUBSET Due(job.cutoff) :
              /\ job' = [job EXCEPT !.at = "delete", !.batch = batch]
              /\ UNCHANGED <<now, accounts, tokens, parent, requests, faults>>
        BY <1>2, <2>2 DEF FindBatch
      <3>2. /\ JobTypeOK' /\ job'.cutoff = job.cutoff /\ job'.batch = batch
            /\ job'.at = "delete"
        BY <3>1, <1>0 DEF Due
      <3>3. \A j \in batch : tokens[j] # None /\ tokens[j].expiresAt <= job.cutoff
                             /\ parent[j] # None
        BY <3>1 DEF Due, IInv, Chain
      <3>4. CleanupStage'
        BY <3>1, <3>2, <3>3, <1>0 DEF CleanupStage
      <3> QED BY <3>1, <3>2, <3>4, <1>0, EnvironmentIInv DEF requests
    <2> QED BY <2>1, <2>2
  <1>3. CASE DeleteBatch
    <2>1. /\ tokens' = [j \in Jtis |-> IF j \in job.batch THEN None ELSE tokens[j]]
          /\ job' = [job EXCEPT !.at = "find", !.batch = {}]
          /\ UNCHANGED <<now, accounts, parent, requests, faults>>
      BY <1>3 DEF DeleteBatch
    <2>2. /\ JobTypeOK' /\ job'.cutoff = job.cutoff /\ job'.batch = {}
          /\ job'.at = "find"
      BY <2>1, <1>0
    <2>3. tokens' \in [Jtis -> Token \union {None}] /\ Keeps
      BY <2>1, <1>0
    <2>4. CleanupStage'
      BY <2>1, <2>2, <1>0 DEF CleanupStage
    <2> QED BY <2>1, <2>2, <2>3, <2>4, <1>0, EnvironmentIInv DEF requests
  <1>4. CASE EndCleanup
    <2>1. JobTypeOK' /\ job'.cutoff = job.cutoff /\ job'.batch = job.batch /\ job'.at = "idle"
      BY <1>4, <1>0 DEF EndCleanup
    <2>2. CleanupStage'
      BY <1>4, <2>1, <1>0 DEF EndCleanup, CleanupStage
    <2> QED BY <2>1, <2>2, <1>4, <1>0, EnvironmentIInv DEF EndCleanup, requests
  <1>5. CASE CleanupFails
    <2>1. JobTypeOK' /\ job'.cutoff = job.cutoff /\ job'.batch = {} /\ job'.at = "idle"
      BY <1>5, <1>0 DEF CleanupFails
    <2>2. CleanupStage'
      BY <1>5, <2>1, <1>0 DEF CleanupFails, CleanupStage
    <2> QED BY <2>1, <2>2, <1>5, <1>0, EnvironmentIInv, FaultBounded DEF CleanupFails, requests
  <1> QED BY <1>1, <1>2, <1>3, <1>4, <1>5 DEF Cleanup

(* The TTL monitor removes one expired token.                              *)
LEMMA TtlIInv ==
    ASSUME IInv, NEW j \in Jtis, TtlRemove(j) PROVE IInv'
  <1>1. tokens' \in [Jtis -> Token \union {None}]
        /\ \A k \in Jtis : tokens'[k] # None => tokens'[k] = tokens[k]
    BY DEF IInv, TypeOK, TtlRemove
  <1>2. CleanupStage'
    BY <1>1 DEF TtlRemove, IInv, TypeOK, CleanupStage
  <1> QED BY <1>1, <1>2, EnvironmentIInv DEF TtlRemove, IInv, TypeOK

(* A user is soft-deleted; the document stays.                             *)
LEMMA SoftDeleteIInv ==
    ASSUME IInv, NEW e \in Users, SoftDeleteUser(e) PROVE IInv'
  <1>1. accounts' \in [Users -> {None, "active", "deleted"}]
        /\ \A f \in Users : accounts[f] # None => accounts'[f] # None
    BY Distinct DEF IInv, TypeOK, SoftDeleteUser
  <1>2. CleanupStage'
    BY DEF SoftDeleteUser, IInv, CleanupStage
  <1> QED BY <1>1, <1>2, EnvironmentIInv DEF SoftDeleteUser, IInv, TypeOK

(* The clock advances, but not past the expiry of a token being stored.    *)
LEMMA TickIInv ==
    ASSUME IInv, Tick PROVE IInv'
  <1> USE JobType
  <1>1. Tame
    BY SameTokens DEF Tick
  <1>2. TypeOK'
    BY ConstantsAssumption DEF IInv, TypeOK, Tick, requests
  <1>3. \A k \in Jtis : Chain(k)'
    BY <1>1, KeepChain DEF Tick, requests
  <1>4. \A q \in Requests : Stage(q)'
    <2> TAKE q \in Requests
    <2>1. SameRequest(q) /\ (pc[q] = "storeToken" => now' < signed[q])
      BY DEF SameRequest, Tick, requests
    <2> QED BY <2>1, <1>1, KeepStage DEF Tick
  <1>6. CleanupStage'
    BY DEF Tick, IInv, CleanupStage
  <1> QED BY <1>2, <1>3, <1>4, <1>6 DEF IInv

(* A crash loses the requests in flight and the run of the cleanup job.    *)
LEMMA CrashIInv ==
    ASSUME IInv, Crash PROVE IInv'
  <1> USE JobType
  <1>0. /\ pc' = [r \in Requests |-> IF InFlight(r) THEN "lost" ELSE pc[r]]
        /\ job' = [job EXCEPT !.at = "idle", !.batch = {}]
        /\ UNCHANGED <<now, accounts, tokens, parent, call, signed, code>>
        /\ faults' \in 0..MaxFaults
    BY FaultBounded DEF Crash
  <1>1. Tame
    BY <1>0, SameTokens
  <1>2. /\ job'.cutoff = job.cutoff /\ job'.batch = {} /\ job'.at = "idle"
        /\ job' \in [at: {"idle", "find", "delete", "ended"}, cutoff: Nat, batch: SUBSET Jtis]
    BY <1>0 DEF IInv, TypeOK
  <1>3. TypeOK'
    BY <1>0, <1>2 DEF IInv, TypeOK, Pcs
  <1>4. \A k \in Jtis : Chain(k)'
    <2> TAKE k \in Jtis
    <2>1. pc[k] \in {"done", "lost"} => pc'[k] = pc[k]
      BY <1>0 DEF IInv, TypeOK, Jtis, InFlight
    <2> QED BY <2>1, <1>0, <1>1, KeepChain
  <1>5. ASSUME NEW q \in Requests PROVE Stage(q)'
    <2>1. CASE ~InFlight(q)
      <3>1. SameRequest(q) /\ pc[q] # "storeToken"
        BY <2>1, <1>0 DEF SameRequest, InFlight
      <3> QED BY <3>1, <1>0, <1>1, KeepStage
    <2>2. CASE InFlight(q)
      <3>1. Stage(q) /\ pc'[q] = "lost"
        BY <2>2, <1>0 DEF IInv
      <3>2. \A j \in Jtis : Superseded(j)' <=> Superseded(j)
        BY <1>0 DEF Superseded
      <3>3. pc[q] # "idle" /\ call[q].jti # None => call[q].jti \in Jtis
        BY <3>1 DEF IInv, TypeOK, Stage, Call
      <3> QED BY <2>2, <3>1, <3>2, <3>3, <1>0 DEF Stage, InFlight
    <2> QED BY <2>1, <2>2
  <1>7. CleanupStage'
    BY <1>0, <1>2 DEF IInv, CleanupStage
  <1> QED BY <1>3, <1>4, <1>5, <1>7 DEF IInv

(* Every step keeps the invariant.                                         *)
LEMMA NextIInv == IInv /\ [Next]_vars => IInv'
  <1> SUFFICES ASSUME IInv, [Next]_vars PROVE IInv'
    OBVIOUS
  <1> USE JobType
  <1>1. ASSUME NEW r \in Requests, Register(r) PROVE IInv'
    <2>1. PICK e \in Users : Arrive(r, "register", e, None, FALSE, "checkEmail")
      BY <1>1 DEF Register
    <2> QED BY <2>1, ArriveIInv
  <1>2. ASSUME NEW r \in Requests, Login(r) PROVE IInv'
    <2>1. PICK e \in Users : Arrive(r, "login", e, None, FALSE, "findUser")
      BY <1>2 DEF Login
    <2> QED BY <2>1, ArriveIInv
  <1>3. ASSUME NEW r \in Requests, Refresh(r) PROVE IInv'
    <2> DEFINE spent(q) == \/ tokens[q] # None /\ tokens[q].revoked
                           \/ \E k \in Jtis : parent[k] = q
    <2>1. PICK q \in Requests :
            /\ pc[q] = "done" /\ code[q] \in {200, 201}
            /\ Arrive(r, "refresh", call[q].userId, q, spent(q), "findToken")
      BY <1>3 DEF Refresh
    <2>2. call[q].userId \in Users /\ q \in Jtis /\ q # None /\ parent[q] # None
      BY <2>1, Distinct DEF IInv, TypeOK, Stage, Call
    <2>3. spent(q) \in BOOLEAN
      OBVIOUS
    <2>4. spent(q) => Superseded(q)
      BY <2>2 DEF IInv, Chain, Superseded
    <2> HIDE DEF spent
    <2> QED BY <2>1, <2>2, <2>3, <2>4, ArriveIInv
  <1>4. ASSUME NEW r \in Requests, CheckEmail(r) PROVE IInv'
    BY <1>4, MoveIInv DEF CheckEmail, InFlight
  <1>5. ASSUME NEW r \in Requests, LookupRole(r) PROVE IInv'
    BY <1>5, MoveIInv DEF LookupRole, InFlight
  <1>6. ASSUME NEW r \in Requests, CreateUser(r) PROVE IInv'
    <2>1. CASE Respond(r, 500) /\ UNCHANGED accounts
      BY <2>1, <1>6, MoveIInv DEF CreateUser, InFlight
    <2>2. CASE /\ accounts[call[r].userId] = None /\ Goto(r, "loadUser")
               /\ accounts' = [accounts EXCEPT ![call[r].userId] = "active"]
      BY <2>2, <1>6, CreateIInv DEF CreateUser
    <2> QED BY <1>6, <2>1, <2>2 DEF CreateUser
  <1>7. ASSUME NEW r \in Requests, FindUser(r) PROVE IInv'
    BY <1>7, MoveIInv DEF FindUser, InFlight
  <1>8. ASSUME NEW r \in Requests, FindToken(r) PROVE IInv'
    BY <1>8, MoveIInv DEF FindToken, InFlight, Superseded
  <1>9. ASSUME NEW r \in Requests, Revoke(r) PROVE IInv'
    <2>1. CASE tokens[call[r].jti] = None
      BY <2>1, <1>9, MoveIInv DEF Revoke, InFlight
    <2>2. CASE tokens[call[r].jti] # None
      BY <2>2, <1>9, RevokeIInv DEF Revoke
    <2> QED BY <2>1, <2>2
  <1>10. ASSUME NEW r \in Requests, LoadUser(r) PROVE IInv'
    <2>1. CASE ~Live(call[r].userId)
      BY <2>1, <1>10, MoveIInv DEF LoadUser, InFlight
    <2>2. CASE Live(call[r].userId)
      BY <2>2, <1>10, SignIInv DEF LoadUser
    <2> QED BY <2>1, <2>2
  <1>11. ASSUME NEW r \in Requests, StoreToken(r) PROVE IInv'
    BY <1>11, StoreIInv DEF StoreToken
  <1>12. ASSUME NEW r \in Requests, CallFails(r) PROVE IInv'
    <2>1. faults' \in 0..MaxFaults /\ InFlight(r)
          /\ UNCHANGED <<now, accounts, tokens, parent, call, signed, job>>
      BY <1>12, FaultBounded DEF CallFails
    <2>2. CASE pc[r] = "checkEmail"
      BY <2>1, <2>2, <1>12, MoveIInv DEF CallFails
    <2>3. CASE pc[r] # "checkEmail"
      <3>1. \E s \in {400, 404, 500} : Respond(r, s) /\ (pc[r] = "findToken" => s = 500)
        BY <2>3, <1>12 DEF CallFails
      <3> QED BY <3>1, <2>1, MoveIInv
    <2> QED BY <2>2, <2>3
  <1>13. ASSUME NEW r \in Requests, AckLost(r) PROVE IInv'
    <2>1. faults' \in 0..MaxFaults /\ Respond(r, 500) /\ UNCHANGED <<now, call, signed, job>>
      BY <1>13, FaultBounded DEF AckLost
    <2>2. CASE /\ pc[r] = "createUser" /\ accounts[call[r].userId] = None
               /\ accounts' = [accounts EXCEPT ![call[r].userId] = "active"]
               /\ UNCHANGED <<tokens, parent>>
      BY <2>1, <2>2, CreateIInv
    <2>3. CASE /\ pc[r] = "revoke" /\ tokens[call[r].jti] # None
               /\ tokens' = [tokens EXCEPT ![call[r].jti].revoked = TRUE]
               /\ UNCHANGED <<accounts, parent>>
      BY <2>1, <2>3, RevokeIInv
    <2>4. CASE pc[r] = "storeToken" /\ Insert(r) /\ UNCHANGED accounts
      BY <2>1, <2>4, StoreIInv
    <2> QED BY <2>2, <2>3, <2>4, <1>13 DEF AckLost
  <1>14. CASE StartCleanup \/ Cleanup
    BY <1>14, CleanupIInv
  <1>15. CASE Crash
    BY <1>15, CrashIInv
  <1>16. CASE Tick
    BY <1>16, TickIInv
  <1>17. ASSUME NEW j \in Jtis, TtlRemove(j) PROVE IInv'
    BY <1>17, TtlIInv
  <1>18. ASSUME NEW e \in Users, SoftDeleteUser(e) PROVE IInv'
    BY <1>18, SoftDeleteIInv
  <1>19. CASE UNCHANGED vars
    <2>1. UNCHANGED <<now, accounts, tokens, parent, pc, call, signed, code, job, faults>>
      BY <1>19 DEF vars
    <2>2. CleanupStage'
      BY <2>1 DEF IInv, CleanupStage
    <2> QED BY <2>1, <2>2, EnvironmentIInv DEF IInv, TypeOK, requests
  <1> QED
    BY <1>1, <1>2, <1>3, <1>4, <1>5, <1>6, <1>7, <1>8, <1>9, <1>10, <1>11, <1>12,
       <1>13, <1>14, <1>15, <1>16, <1>17, <1>18, <1>19
    DEF Next, Serve

(* AuthService keeps its inductive invariant: every request has            *)
(* established what its stage says, tokens form chains, and the cleanup    *)
(* job's batch is still due (auth.service.js, refreshTokenCleanup.job.js). *)
THEOREM InvariantHolds == Spec => []IInv
  <1> QED BY InitIInv, NextIInv, PTL DEF Spec

(* A refresh token with a successor has been revoked first, whatever calls *)
(* fail and whatever races (auth.service.js:211-232).                      *)
THEOREM RevokedBeforeReplaced == Spec => []SuccessorsOfRevoked
  <1>1. IInv => SuccessorsOfRevoked
    BY DEF IInv, Chain, Superseded, SuccessorsOfRevoked
  <1> QED BY <1>1, InvariantHolds, PTL

(* Presenting a token that was spent on arrival never yields a new pair    *)
(* (auth.service.js:202-213).                                              *)
THEOREM SpentIsRefused == Spec => []SpentTokenRefused
  <1>1. IInv => SpentTokenRefused
    <2> SUFFICES ASSUME IInv, NEW r \in Requests, pc[r] = "done", call[r].spent
                 PROVE  code[r] \in {401, 500}
      BY DEF SpentTokenRefused
    <2> QED BY DEF IInv, Stage
  <1> QED BY <1>1, InvariantHolds, PTL

(* A run of the cleanup job that ended left nothing that was expired when  *)
(* it started (refreshTokenCleanup.job.js:33-44).                          *)
THEOREM CleanupComplete == Spec => []CleanupIsComplete
  <1>1. IInv => CleanupIsComplete
    BY DEF IInv, CleanupStage, CleanupIsComplete
  <1> QED BY <1>1, InvariantHolds, PTL

----------------------------------------------------------------------------
(* Every revoked token's user got a successor, while no call has failed.   *)

(* What every step keeps of the users, and of the calls once they arrived. *)
AccountsKept ==
    \A e \in Users : /\ accounts[e] # None => accounts'[e] # None
                     /\ accounts[e] = "deleted" => accounts'[e] = "deleted"

CallsKept ==
    \A q \in Requests :
      /\ call[q] # None => call'[q] = call[q]
      /\ call[q] = None /\ call'[q] # None /\ call'[q].op = "refresh" =>
           \E p \in Requests : call[p] # None /\ call'[q].jti = p
                               /\ call'[q].userId = call[p].userId

(* The token j as a step leaves it: an earlier one, perhaps just revoked,  *)
(* or one that is stored by this step.                                     *)
TokenComesFrom(j) ==
    \/ /\ tokens[j] # None /\ tokens'[j].userId = tokens[j].userId
       /\ \/ tokens'[j].revoked = tokens[j].revoked
          \/ \E r \in Requests : /\ call[r] # None /\ call[r].jti = j
                                 /\ faults' = 0 => pc'[r] = "loadUser"
    \/ pc[j] = "storeToken" /\ tokens'[j].userId = call[j].userId /\ ~tokens'[j].revoked

(* A request that is about to issue a token goes on, finds its user gone,  *)
(* or has stored it.                                                       *)
IssueGoesOn(q) ==
    /\ pc'[q] = "storeToken" /\ pc[q] # "storeToken" =>
         call[q] # None /\ accounts[call[q].userId] # None
    /\ pc[q] \in {"loadUser", "storeToken"} /\ faults' = 0 =>
         \/ pc'[q] \in {"loadUser", "storeToken"}
         \/ ~Live(call[q].userId)
         \/ parent'[q] = Origin(q)

Progress ==
    /\ AccountsKept
    /\ CallsKept
    /\ \A j \in Jtis : tokens'[j] # None => TokenComesFrom(j)
    /\ \A k \in Jtis : parent[k] # None => parent'[k] = parent[k]
    /\ \A q \in Requests : IssueGoesOn(q)
    /\ faults' = 0 => faults = 0

(* Steps that leave the tokens, the calls and the users alone.             *)
LEMMA QuietProgress ==
    ASSUME IInv, UNCHANGED <<accounts, tokens, parent, call>>,
           \A q \in Requests : IssueGoesOn(q),
           faults' = 0 => faults = 0
    PROVE  Progress
  BY DEF Progress, AccountsKept, CallsKept, TokenComesFrom

(* Steps that leave every request alone, and only remove tokens.           *)
LEMMA OutsideProgress ==
    ASSUME IInv, UNCHANGED <<parent, call, pc>>,
           \A j \in Jtis : tokens'[j] # None => tokens'[j] = tokens[j],
           AccountsKept,
           faults' = 0 => faults = 0
    PROVE  Progress
  BY DEF Progress, CallsKept, TokenComesFrom, IssueGoesOn

(* A request that moves on leaves the others where they are.               *)
LEMMA OthersGoOn ==
    ASSUME IInv, NEW r \in Requests, NEW l,
           pc' = [pc EXCEPT ![r] = l]
    PROVE  /\ pc'[r] = l
           /\ \A q \in Requests \ {r} : IssueGoesOn(q)
  BY DEF IInv, TypeOK, IssueGoesOn

(* A user's creation.                                                      *)
LEMMA CreateProgress ==
    ASSUME IInv, NEW r \in Requests, pc[r] = "createUser",
           accounts[call[r].userId] = None,
           accounts' = [accounts EXCEPT ![call[r].userId] = "active"],
           NEW l \in {"loadUser", "done"}, pc' = [pc EXCEPT ![r] = l],
           UNCHANGED <<tokens, parent, call>>,
           faults' = 0 => faults = 0
    PROVE  Progress
  <1>1. AccountsKept
    BY Distinct DEF IInv, TypeOK, AccountsKept
  <1>2. \A q \in Requests : IssueGoesOn(q)
    BY OthersGoOn DEF IssueGoesOn
  <1> QED BY <1>1, <1>2 DEF Progress, CallsKept, TokenComesFrom

(* A revocation.                                                           *)
LEMMA RevokeProgress ==
    ASSUME IInv, NEW r \in Requests, pc[r] = "revoke", tokens[call[r].jti] # None,
           tokens' = [tokens EXCEPT ![call[r].jti].revoked = TRUE],
           NEW l \in {"loadUser", "done"}, pc' = [pc EXCEPT ![r] = l],
           faults' = 0 => faults = 0 /\ l = "loadUser",
           UNCHANGED <<accounts, parent, call>>
    PROVE  Progress
  <1>1. call[r] # None /\ call[r].jti \in Jtis
    BY DEF IInv, TypeOK, Stage, Call
  <1>2. ASSUME NEW j \in Jtis, tokens'[j] # None PROVE TokenComesFrom(j)
    <2>1. CASE j # call[r].jti
      BY <2>1, <1>2 DEF IInv, TypeOK, TokenComesFrom
    <2>2. CASE j = call[r].jti
      <3>1. tokens[j] \in [userId: Users, expiresAt: Nat, revoked: BOOLEAN]
        BY <2>2 DEF IInv, TypeOK, Token
      <3>2. tokens' = [tokens EXCEPT ![j] = [tokens[j] EXCEPT !.revoked = TRUE]]
        BY <2>2
      <3>3. tokens'[j] = [tokens[j] EXCEPT !.revoked = TRUE]
        <4>1. tokens \in [Jtis -> Token \union {None}]
          BY DEF IInv, TypeOK
        <4> QED BY <3>2, <4>1
      <3>4. tokens'[j].userId = tokens[j].userId
        BY <3>1, <3>3
      <3>5. faults' = 0 => pc'[r] = "loadUser"
        BY OthersGoOn
      <3> QED BY <3>4, <3>5, <2>2, <1>1 DEF TokenComesFrom
    <2> QED BY <2>1, <2>2
  <1>3. \A q \in Requests : IssueGoesOn(q)
    BY OthersGoOn DEF IssueGoesOn
  <1> QED BY <1>2, <1>3 DEF Progress, AccountsKept, CallsKept

(* The insertion of a new token.                                           *)
LEMMA StoreProgress ==
    ASSUME IInv, NEW r \in Requests, pc[r] = "storeToken", Insert(r),
           pc' = [pc EXCEPT ![r] = "done"],
           UNCHANGED <<accounts, call>>,
           faults' = 0 => faults = 0
    PROVE  Progress
  <1>1. r \in Jtis /\ parent[r] = None
    BY DEF IInv, Chain, Jtis
  <1>2. /\ \A k \in Jtis \ {r} : tokens'[k] = tokens[k] /\ parent'[k] = parent[k]
        /\ parent'[r] = Origin(r)
        /\ tokens'[r] =
             [userId |-> call[r].userId, expiresAt |-> signed[r], revoked |-> FALSE]
    BY <1>1 DEF IInv, TypeOK, Insert
  <1>3. TokenComesFrom(r)
    BY <1>2 DEF TokenComesFrom
  <1>4. \A j \in Jtis : tokens'[j] # None => TokenComesFrom(j)
    BY <1>2, <1>3 DEF TokenComesFrom
  <1>5. \A q \in Requests : IssueGoesOn(q)
    BY <1>2, OthersGoOn DEF IssueGoesOn
  <1> QED BY <1>1, <1>2, <1>4, <1>5 DEF Progress, AccountsKept, CallsKept

(* A mutation's arrival.                                                   *)
LEMMA ArriveProgress ==
    ASSUME IInv, NEW r \in Requests, NEW op, NEW e, NEW j, NEW spent,
           NEW label \in {"checkEmail", "findUser", "findToken"},
           Arrive(r, op, e, j, spent, label),
           op = "refresh" =>
             \E p \in Requests : call[p] # None /\ j = p /\ e = call[p].userId
    PROVE  Progress
  <1>1. /\ call[r] = None
        /\ call'[r] = [op |-> op, userId |-> e, jti |-> j, spent |-> spent]
        /\ \A q \in Requests \ {r} : call'[q] = call[q]
    BY DEF IInv, TypeOK, Stage, Arrive
  <1>2. /\ pc' = [pc EXCEPT ![r] = label]
        /\ UNCHANGED <<accounts, tokens, parent, faults>>
    BY DEF Arrive, Goto
  <1>3. CallsKept
    BY <1>1 DEF CallsKept
  <1>4. \A q \in Requests : IssueGoesOn(q)
    BY <1>2, OthersGoOn DEF IssueGoesOn, Arrive
  <1> QED BY <1>2, <1>3, <1>4 DEF Progress, AccountsKept, TokenComesFrom

LEMMA NextProgress == ASSUME IInv, [Next]_vars PROVE Progress
  <1>0. faults \in Nat
    BY DEF IInv, TypeOK
  <1>f. Fault => (faults' # 0)
    BY <1>0 DEF Fault
  <1>1. ASSUME NEW r \in Requests, Register(r) PROVE Progress
    <2> DEFINE spent == FALSE
    <2>1. PICK e \in Users : Arrive(r, "register", e, None, spent, "checkEmail")
      BY <1>1 DEF Register
    <2> HIDE DEF spent
    <2> QED BY <2>1, ArriveProgress
  <1>2. ASSUME NEW r \in Requests, Login(r) PROVE Progress
    <2> DEFINE spent == FALSE
    <2>1. PICK e \in Users : Arrive(r, "login", e, None, spent, "findUser")
      BY <1>2 DEF Login
    <2> HIDE DEF spent
    <2> QED BY <2>1, ArriveProgress
  <1>3. ASSUME NEW r \in Requests, Refresh(r) PROVE Progress
    <2> DEFINE spent(q) == \/ tokens[q] # None /\ tokens[q].revoked
                           \/ \E k \in Jtis : parent[k] = q
    <2>1. PICK q \in Requests :
            /\ pc[q] = "done"
            /\ Arrive(r, "refresh", call[q].userId, q, spent(q), "findToken")
      BY <1>3 DEF Refresh
    <2>2. call[q] # None
      BY <2>1 DEF IInv, Stage
    <2>3. faults' = faults
      BY <2>1 DEF Arrive
    <2> HIDE DEF spent
    <2> QED BY <2>1, <2>2, <2>3, ArriveProgress
  <1>4. ASSUME NEW r \in Requests,
               CheckEmail(r) \/ LookupRole(r) \/ FindUser(r) \/ FindToken(r)
        PROVE  Progress
    <2>1. PICK l : pc' = [pc EXCEPT ![r] = l] /\ (l = "storeToken" => FALSE)
      BY <1>4 DEF CheckEmail, LookupRole, FindUser, FindToken, Goto, Respond
    <2>2. /\ pc[r] \notin {"loadUser", "storeToken"}
          /\ UNCHANGED <<accounts, tokens, parent, call, faults>>
      BY <1>4 DEF CheckEmail, LookupRole, FindUser, FindToken
    <2>3. \A q \in Requests : IssueGoesOn(q)
      BY <2>1, <2>2, OthersGoOn DEF IssueGoesOn
    <2> QED BY <2>2, <2>3, QuietProgress
  <1>5. ASSUME NEW r \in Requests, CreateUser(r) PROVE Progress
    <2>1. CASE Respond(r, 500) /\ UNCHANGED accounts
      <3>1. /\ pc[r] = "createUser" /\ pc' = [pc EXCEPT ![r] = "done"]
            /\ UNCHANGED <<accounts, tokens, parent, call, faults>>
        BY <2>1, <1>5 DEF CreateUser, Respond
      <3>2. \A q \in Requests : IssueGoesOn(q)
        BY <3>1, OthersGoOn DEF IssueGoesOn
      <3> QED BY <3>1, <3>2, QuietProgress
    <2>2. CASE /\ accounts[call[r].userId] = None /\ Goto(r, "loadUser")
               /\ accounts' = [accounts EXCEPT ![call[r].userId] = "active"]
      BY <2>2, <1>5, CreateProgress DEF CreateUser, Goto
    <2> QED BY <1>5, <2>1, <2>2 DEF CreateUser
  <1>6. ASSUME NEW r \in Requests, Revoke(r) PROVE Progress
    <2>1. CASE tokens[call[r].jti] = None
      <3>1. /\ pc[r] = "revoke" /\ pc' = [pc EXCEPT ![r] = "done"]
            /\ UNCHANGED <<accounts, tokens, parent, call, faults>>
        BY <2>1, <1>6 DEF Revoke, Respond
      <3>2. \A q \in Requests : IssueGoesOn(q)
        BY <3>1, OthersGoOn DEF IssueGoesOn
      <3> QED BY <3>1, <3>2, QuietProgress
    <2>2. CASE tokens[call[r].jti] # None
      BY <2>2, <1>6, RevokeProgress DEF Revoke, Goto
    <2> QED BY <2>1, <2>2
  <1>7. ASSUME NEW r \in Requests, LoadUser(r) PROVE Progress
    <2>1. pc[r] = "loadUser" /\ UNCHANGED <<accounts, tokens, parent, call, faults>>
      BY <1>7 DEF LoadUser
    <2>2. /\ call[r] # None
          /\ Live(call[r].userId) => accounts[call[r].userId] # None
      BY <2>1, Distinct DEF IInv, Stage, Live
    <2>3. CASE ~Live(call[r].userId)
      <3>1. pc' = [pc EXCEPT ![r] = "done"]
        BY <2>3, <1>7 DEF LoadUser, Respond
      <3>2. \A q \in Requests : IssueGoesOn(q)
        BY <2>3, <3>1, OthersGoOn DEF IssueGoesOn
      <3> QED BY <2>1, <3>2, QuietProgress
    <2>4. CASE Live(call[r].userId)
      <3>1. pc' = [pc EXCEPT ![r] = "storeToken"]
        BY <2>4, <1>7 DEF LoadUser, Goto
      <3>2. \A q \in Requests : IssueGoesOn(q)
        BY <2>2, <2>4, <3>1, OthersGoOn DEF IssueGoesOn
      <3> QED BY <2>1, <3>2, QuietProgress
    <2> QED BY <2>3, <2>4
  <1>8. ASSUME NEW r \in Requests, StoreToken(r) PROVE Progress
    BY <1>8, StoreProgress DEF StoreToken, Respond
  <1>9. ASSUME NEW r \in Requests, CallFails(r) PROVE Progress
    <2>1. UNCHANGED <<accounts, tokens, parent, call>> /\ faults' # 0
      BY <1>9, <1>f DEF CallFails
    <2>2. PICK l : pc' = [pc EXCEPT ![r] = l] /\ l # "storeToken"
      <3>1. CASE pc[r] = "checkEmail"
        BY <3>1, <1>9 DEF CallFails, Goto
      <3>2. CASE pc[r] # "checkEmail"
        BY <3>2, <1>9 DEF CallFails, Respond
      <3> QED BY <3>1, <3>2
    <2>3. \A q \in Requests : IssueGoesOn(q)
      BY <2>1, <2>2, OthersGoOn DEF IssueGoesOn
    <2> QED BY <2>1, <2>3, QuietProgress
  <1>10. ASSUME NEW r \in Requests, AckLost(r) PROVE Progress
    <2>1. UNCHANGED call /\ faults' # 0 /\ pc' = [pc EXCEPT ![r] = "done"]
      BY <1>10, <1>f DEF AckLost, Respond
    <2> QED BY <2>1, <1>10, CreateProgress, RevokeProgress, StoreProgress DEF AckLost
  <1>11. CASE StartCleanup \/ FindBatch \/ EndCleanup \/ CleanupFails \/ Tick
    <2>1. UNCHANGED <<accounts, tokens, parent, call, pc>>
      BY <1>11 DEF StartCleanup, FindBatch, EndCleanup, CleanupFails, Tick, requests
    <2>2. faults' = 0 => faults = 0
      BY <1>11, <1>f DEF StartCleanup, FindBatch, EndCleanup, CleanupFails, Tick
    <2>3. AccountsKept
      BY <2>1 DEF AccountsKept
    <2> QED BY <2>1, <2>2, <2>3, OutsideProgress
  <1>12. CASE DeleteBatch
    <2>1. UNCHANGED <<accounts, parent, call, pc, faults>> /\ AccountsKept
      BY <1>12 DEF DeleteBatch, requests, AccountsKept
    <2>2. \A j \in Jtis : tokens'[j] # None => tokens'[j] = tokens[j]
      BY <1>12 DEF DeleteBatch
    <2> QED BY <2>1, <2>2, OutsideProgress
  <1>13. ASSUME NEW k \in Jtis, TtlRemove(k) PROVE Progress
    <2>1. UNCHANGED <<accounts, parent, call, pc, faults>> /\ AccountsKept
      BY <1>13 DEF TtlRemove, requests, AccountsKept
    <2>2. \A j \in Jtis : tokens'[j] # None => tokens'[j] = tokens[j]
      BY <1>13 DEF TtlRemove, IInv, TypeOK
    <2> QED BY <2>1, <2>2, OutsideProgress
  <1>14. ASSUME NEW e \in Users, SoftDeleteUser(e) PROVE Progress
    <2>1. UNCHANGED <<tokens, parent, call, pc, faults>>
      BY <1>14 DEF SoftDeleteUser, requests
    <2>2. AccountsKept
      BY <1>14, Distinct DEF SoftDeleteUser, AccountsKept, IInv, TypeOK
    <2> QED BY <2>1, <2>2, OutsideProgress
  <1>15. CASE Crash
    <2>1. UNCHANGED <<accounts, tokens, parent, call>> /\ faults' # 0
      BY <1>15, <1>f DEF Crash
    <2>2. \A q \in Requests : IssueGoesOn(q)
      BY <1>15, <2>1 DEF Crash, IssueGoesOn
    <2> QED BY <2>1, <2>2, QuietProgress
  <1>16. CASE UNCHANGED vars
    <2>1. UNCHANGED <<accounts, tokens, parent, call, pc, faults>> /\ AccountsKept
      BY <1>16 DEF vars, AccountsKept
    <2> QED BY <2>1, OutsideProgress
  <1> QED
    BY <1>1, <1>2, <1>3, <1>4, <1>5, <1>6, <1>7, <1>8, <1>9, <1>10, <1>11, <1>12,
       <1>13, <1>14, <1>15, <1>16
    DEF Next, Serve, Cleanup

(* A stored token's request has arrived.                                   *)
LEMMA StoredHasCall ==
    ASSUME IInv, NEW j \in Jtis, tokens[j] # None
    PROVE  call[j] # None /\ call[j].userId \in Users
  <1>1. pc[j] \in {"done", "lost"} /\ Stage(j)
    BY DEF IInv, Chain, Jtis
  <1> QED BY <1>1 DEF Stage, IInv, TypeOK, Call, Jtis

(* Tokens keep their owners.                                               *)
LEMMA OwnershipKept ==
    ASSUME IInv, Ownership, Progress PROVE Ownership'
  <1>1. \A q \in Requests : call[q] # None => /\ call'[q] = call[q]
                                              /\ call[q].userId \in Users
    BY DEF Progress, CallsKept, IInv, TypeOK, Call
  <1>2. ASSUME NEW j \in Jtis, tokens'[j] # None
        PROVE  tokens'[j].userId = call'[j].userId /\ accounts'[call'[j].userId] # None
    <2>1. CASE tokens[j] # None /\ tokens'[j].userId = tokens[j].userId
      <3>1. call'[j] = call[j] /\ call[j].userId \in Users
        BY <2>1, <1>1, StoredHasCall DEF Jtis
      <3> QED BY <2>1, <3>1 DEF Ownership, Progress, AccountsKept
    <2>2. CASE pc[j] = "storeToken" /\ tokens'[j].userId = call[j].userId
      <3>1. call'[j] = call[j] /\ call[j].userId \in Users
        BY <2>2, <1>1 DEF IInv, Stage, Jtis
      <3> QED BY <2>2, <3>1 DEF Ownership, Progress, AccountsKept, Jtis
    <2> QED BY <1>2, <2>1, <2>2 DEF Progress, TokenComesFrom
  <1>3. ASSUME NEW r \in Requests, pc'[r] = "storeToken"
        PROVE  accounts'[call'[r].userId] # None
    <2>1. call[r] # None /\ accounts[call[r].userId] # None
      BY <1>3 DEF Progress, IssueGoesOn, Ownership, IInv, Stage
    <2> QED BY <2>1, <1>1 DEF Progress, AccountsKept
  <1>4. ASSUME NEW r \in Requests, call'[r] # None, call'[r].op = "refresh"
        PROVE  /\ call'[call'[r].jti] # None
               /\ call'[r].userId = call'[call'[r].jti].userId
    <2>1. CASE call[r] = None
      BY <2>1, <1>4, <1>1 DEF Progress, CallsKept
    <2>2. CASE call[r] # None
      <3>1. call'[r] = call[r] /\ call[r].jti \in Requests
        BY <2>2, <1>1, <1>4 DEF IInv, TypeOK, Stage, Call, Jtis
      <3> QED BY <2>2, <3>1, <1>4, <1>1 DEF Ownership
    <2> QED BY <2>1, <2>2
  <1> QED BY <1>2, <1>3, <1>4 DEF Ownership

(* A revocation is followed by an insertion, unless the user is gone.      *)
LEMMA RotationKept ==
    ASSUME IInv, Ownership, Rotation, Progress PROVE Rotation'
  <1> SUFFICES ASSUME faults' = 0, NEW j \in Jtis, tokens'[j] # None, tokens'[j].revoked
               PROVE  \/ \E k \in Jtis : parent'[k] = j
                      \/ Rotating(j)'
                      \/ accounts'[tokens'[j].userId] # "active"
    BY DEF Rotation, Live
  <1>0. j # None /\ j # "login"
    BY Distinct
  <1>1. tokens[j] # None /\ tokens'[j].userId = tokens[j].userId
    BY DEF Progress, TokenComesFrom
  <1>2. CASE tokens[j].revoked
    <2>1. CASE \E k \in Jtis : parent[k] = j
      BY <2>1, <1>0 DEF Progress
    <2>2. CASE ~Live(tokens[j].userId)
      <3>1. tokens[j].userId \in Users /\ accounts[tokens[j].userId] # None
        BY <1>1, StoredHasCall DEF Ownership
      <3>2. accounts[tokens[j].userId] = "deleted"
        BY <2>2, <3>1 DEF Live, IInv, TypeOK
      <3> QED BY <3>1, <3>2, <1>1 DEF Progress, AccountsKept, Live
    <2>3. CASE Rotating(j)
      <3>1. PICK r \in Requests : pc[r] \in {"loadUser", "storeToken"} /\ call[r].jti = j
        BY <2>3 DEF Rotating
      <3>2. /\ call[r] # None /\ call'[r] = call[r] /\ call[r].op = "refresh"
            /\ call[r].userId = tokens[j].userId
        BY <3>1, <1>0, <1>1 DEF IInv, Stage, Progress, CallsKept, Ownership
      <3>3. CASE pc'[r] \in {"loadUser", "storeToken"}
        BY <3>1, <3>2, <3>3 DEF Rotating
      <3>4. CASE ~Live(call[r].userId)
        BY <3>2, <3>4, <2>2
      <3>5. CASE parent'[r] = Origin(r)
        BY <3>1, <3>2, <3>5 DEF Origin, Jtis
      <3> QED BY <3>1, <3>3, <3>4, <3>5 DEF Progress, IssueGoesOn
    <2> QED BY <1>1, <1>2, <2>1, <2>2, <2>3 DEF Rotation, Progress
  <1>3. CASE ~tokens[j].revoked
    <2>1. PICK r \in Requests : call[r] # None /\ call[r].jti = j /\ pc'[r] = "loadUser"
      BY <1>3 DEF Progress, TokenComesFrom
    <2>2. call'[r].jti = j
      BY <2>1 DEF Progress, CallsKept
    <2> QED BY <2>1, <2>2 DEF Rotating
  <1> QED BY <1>2, <1>3

(* Tokens belong to the users their requests were for, and a revoked token *)
(* is being replaced (auth.service.js:192-262).                            *)
THEOREM RotationInvariantHolds == Spec => []RotationIInv
  <1>1. Init => RotationIInv
    BY InitIInv DEF Init, RotationIInv, Ownership, Rotation
  <1>2. RotationIInv /\ [Next]_vars => RotationIInv'
    BY NextIInv, NextProgress, OwnershipKept, RotationKept DEF RotationIInv
  <1> QED BY <1>1, <1>2, PTL DEF Spec

(* While no call has failed, the user of a revoked token has its successor,*)
(* or a refresh is on its way to it, or the user was deleted               *)
(* (auth.service.js:211-240).                                              *)
THEOREM RotatedWithoutFaults == Spec => []RotatedUnlessFault
  <1>1. RotationIInv => RotatedUnlessFault
    BY DEF RotationIInv, Rotation, Rotating, RotatedUnlessFault, InFlight
  <1> QED BY <1>1, RotationInvariantHolds, PTL

----------------------------------------------------------------------------
(* The rotation implements the promise of refresh tokens.                  *)

(* A token about to be stored expires within its lifetime from now, and a  *)
(* stored one at the moment it was signed for.                             *)
Expiry ==
    /\ \A r \in Requests : pc[r] = "storeToken" => signed[r] <= now + Lifetime
    /\ \A j \in Jtis : tokens[j] # None => tokens[j].expiresAt = signed[j]

(* What the refinement needs of the states.                                *)
TokenIInv == RotationIInv /\ Expiry

(* What a step leaves of the tokens that were issued before it.            *)
Frozen == \A j \in Jtis : parent[j] # None =>
            parent'[j] = parent[j] /\ call'[j] = call[j] /\ signed'[j] = signed[j]

(* Only a request that has loaded its user signs.                          *)
Signs == \/ UNCHANGED signed /\ \A r \in Requests : pc'[r] = "storeToken" => pc[r] = "storeToken"
         \/ \E r \in Requests : /\ pc[r] = "loadUser" /\ UNCHANGED <<tokens, now>>
                                /\ signed' = [signed EXCEPT ![r] = now + Lifetime]
                                /\ pc' = [pc EXCEPT ![r] = "storeToken"]

(* A step signs a token for a request that has loaded its user, or none.   *)
LEMMA NextSigns == ASSUME IInv, [Next]_vars PROVE Signs
  <1> DEFINE Stays == UNCHANGED signed
                      /\ \A q \in Requests : pc'[q] = "storeToken" => pc[q] = "storeToken"
  <1>0. ASSUME NEW r \in Requests, NEW l, pc' = [pc EXCEPT ![r] = l], l # "storeToken",
               UNCHANGED signed
        PROVE  Stays
    BY <1>0 DEF IInv, TypeOK
  <1>1. ASSUME NEW r \in Requests, Register(r) \/ Login(r) \/ Refresh(r) PROVE Stays
    <2>1. PICK l \in {"checkEmail", "findUser", "findToken"} :
            pc' = [pc EXCEPT ![r] = l] /\ UNCHANGED signed
      BY <1>1 DEF Register, Login, Refresh, Arrive, Goto
    <2> QED BY <2>1, <1>0
  <1>2. ASSUME NEW r \in Requests,
               \/ CheckEmail(r) \/ LookupRole(r) \/ CreateUser(r) \/ FindUser(r)
               \/ FindToken(r) \/ Revoke(r) \/ StoreToken(r)
        PROVE  Stays
    <2>1. PICK l \in {"lookupRole", "createUser", "loadUser", "revoke", "done"} :
            pc' = [pc EXCEPT ![r] = l]
      BY <1>2 DEF CheckEmail, LookupRole, CreateUser, FindUser, FindToken, Revoke,
                  StoreToken, Goto, Respond
    <2>2. UNCHANGED signed
      BY <1>2 DEF CheckEmail, LookupRole, CreateUser, FindUser, FindToken, Revoke, StoreToken
    <2> QED BY <2>1, <2>2, <1>0
  <1>3. ASSUME NEW r \in Requests, LoadUser(r) PROVE Signs
    <2>1. CASE ~Live(call[r].userId)
      <3>1. pc' = [pc EXCEPT ![r] = "done"] /\ UNCHANGED signed
        BY <1>3, <2>1 DEF LoadUser, Respond
      <3> QED BY <3>1, <1>0 DEF Signs
    <2>2. CASE Live(call[r].userId)
      BY <1>3, <2>2 DEF LoadUser, Goto, Signs
    <2> QED BY <2>1, <2>2
  <1>4. ASSUME NEW r \in Requests, CallFails(r) \/ AckLost(r) PROVE Stays
    <2>1. PICK l \in {"lookupRole", "done"} : pc' = [pc EXCEPT ![r] = l]
      <3>1. CASE CallFails(r) /\ pc[r] = "checkEmail"
        BY <3>1 DEF CallFails, Goto
      <3>2. CASE CallFails(r) /\ pc[r] # "checkEmail"
        BY <3>2 DEF CallFails, Respond
      <3>3. CASE AckLost(r)
        BY <3>3 DEF AckLost, Respond
      <3> QED BY <1>4, <3>1, <3>2, <3>3
    <2>2. UNCHANGED signed
      BY <1>4 DEF CallFails, AckLost
    <2> QED BY <2>1, <2>2, <1>0
  <1>5. CASE StartCleanup \/ Cleanup \/ Tick
    BY <1>5 DEF StartCleanup, Cleanup, FindBatch, DeleteBatch, EndCleanup, CleanupFails,
                Tick, requests, Signs
  <1>6. CASE Crash
    BY <1>6 DEF Crash, InFlight, Signs
  <1>7. CASE UNCHANGED vars \/ (\E j \in Jtis : TtlRemove(j)) \/ \E e \in Users : SoftDeleteUser(e)
    BY <1>7 DEF vars, TtlRemove, SoftDeleteUser, requests, Signs
  <1> QED BY <1>1, <1>2, <1>3, <1>4, <1>5, <1>6, <1>7 DEF Next, Serve, Signs

(* What was issued keeps its origin, its owner and its expiry.             *)
LEMMA NextFrozen == ASSUME IInv, [Next]_vars PROVE Frozen
  <1> SUFFICES ASSUME NEW j \in Jtis, parent[j] # None
               PROVE  parent'[j] = parent[j] /\ call'[j] = call[j] /\ signed'[j] = signed[j]
    BY DEF Frozen
  <1>1. pc[j] \in {"done", "lost"} /\ call[j] # None
    BY DEF IInv, Chain, Stage, Jtis
  <1>2. parent'[j] = parent[j] /\ call'[j] = call[j]
    BY <1>1, NextProgress DEF Progress, CallsKept, Jtis
  <1>3. signed'[j] = signed[j]
    <2>1. CASE UNCHANGED signed
      BY <2>1
    <2>2. ASSUME NEW r \in Requests, pc[r] = "loadUser",
                 signed' = [signed EXCEPT ![r] = now + Lifetime]
          PROVE  signed'[j] = signed[j]
      BY <2>2, <1>1 DEF IInv, TypeOK, Jtis
    <2> QED BY <2>1, <2>2, NextSigns DEF Signs
  <1> QED BY <1>2, <1>3

(* The clock never goes back.                                              *)
LEMMA ClockAdvances == ASSUME IInv, [Next]_vars PROVE now' \in Nat /\ now' >= now
  <1>1. now \in Nat /\ now' \in Nat
    BY NextIInv, JobType DEF IInv, TypeOK
  <1>2. CASE Tick
    BY <1>1, <1>2 DEF Tick
  <1>3. ASSUME NEW r \in Requests,
               Register(r) \/ Login(r) \/ Refresh(r) \/ Serve(r)
        PROVE  UNCHANGED now
    BY <1>3 DEF Register, Login, Refresh, Arrive, Serve, CheckEmail, LookupRole, CreateUser,
                FindUser, FindToken, Revoke, LoadUser, StoreToken, CallFails, AckLost
  <1>4. CASE StartCleanup \/ Cleanup \/ Crash \/ UNCHANGED vars
             \/ (\E j \in Jtis : TtlRemove(j)) \/ \E e \in Users : SoftDeleteUser(e)
    <2>1. UNCHANGED now
      BY <1>4 DEF StartCleanup, Cleanup, FindBatch, DeleteBatch, EndCleanup, CleanupFails,
                  Crash, TtlRemove, SoftDeleteUser, vars
    <2> QED BY <1>1, <2>1
  <1> QED BY <1>1, <1>2, <1>3, <1>4 DEF Next

(* Which documents a step leaves, and when they expire: those that were    *)
(* there, revoked or not, and the one it inserts.                          *)
Documents ==
    \A j \in Jtis : tokens'[j] # None =>
      \/ tokens[j] # None /\ tokens'[j].expiresAt = tokens[j].expiresAt
      \/ pc[j] = "storeToken" /\ tokens'[j].expiresAt = signed[j] /\ UNCHANGED signed

(* A revocation changes one document, and nothing in it but its mark.      *)
LEMMA RevokeDocuments ==
    ASSUME IInv, NEW k \in Jtis, tokens[k] # None,
           tokens' = [tokens EXCEPT ![k].revoked = TRUE]
    PROVE  /\ \A j \in Jtis \ {k} : tokens'[j] = tokens[j]
           /\ tokens'[k] # None /\ tokens'[k].revoked
           /\ tokens'[k].expiresAt = tokens[k].expiresAt
  <1>1. tokens \in [Jtis -> Token \union {None}] /\ tokens[k] \in Token
    BY DEF IInv, TypeOK
  <1> DEFINE t == tokens[k]
  <1>2. tokens' = [tokens EXCEPT ![k] = [t EXCEPT !.revoked = TRUE]]
    OBVIOUS
  <1>3. t \in [userId: Users, expiresAt: Nat, revoked: BOOLEAN]
    BY <1>1 DEF Token
  <1> HIDE DEF t
  <1>4. /\ [t EXCEPT !.revoked = TRUE] \in [userId: Users, expiresAt: Nat, revoked: BOOLEAN]
        /\ [t EXCEPT !.revoked = TRUE].revoked = TRUE
        /\ [t EXCEPT !.revoked = TRUE].expiresAt = t.expiresAt
    BY <1>3
  <1>5. [t EXCEPT !.revoked = TRUE] # None
    BY <1>4, Distinct DEF Token
  <1>6. /\ tokens'[k] = [t EXCEPT !.revoked = TRUE]
        /\ \A j \in Jtis \ {k} : tokens'[j] = tokens[j]
    BY <1>1, <1>2
  <1> QED BY <1>4, <1>5, <1>6 DEF t

(* Every step leaves documents it found, or inserts the one that was       *)
(* signed.                                                                 *)
LEMMA NextDocuments == ASSUME IInv, [Next]_vars PROVE Documents
  <1>1. ASSUME NEW r \in Requests, pc[r] = "revoke", tokens[call[r].jti] # None,
               tokens' = [tokens EXCEPT ![call[r].jti].revoked = TRUE]
        PROVE  Documents
    <2>1. call[r].jti \in Jtis
      BY <1>1 DEF IInv, TypeOK, Stage, Call
    <2> QED BY <1>1, <2>1, RevokeDocuments DEF Documents
  <1>2. ASSUME NEW r \in Requests, pc[r] = "storeToken", Insert(r), UNCHANGED signed
        PROVE  Documents
    <2>1. /\ \A j \in Jtis \ {r} : tokens'[j] = tokens[j]
          /\ tokens'[r] = [userId |-> call[r].userId, expiresAt |-> signed[r], revoked |-> FALSE]
      BY <1>2 DEF IInv, TypeOK, Insert, Jtis
    <2> QED BY <2>1, <1>2 DEF Documents
  <1>3. ASSUME UNCHANGED tokens PROVE Documents
    BY <1>3 DEF Documents
  <1>4. ASSUME NEW r \in Requests,
               \/ Register(r) \/ Login(r) \/ Refresh(r) \/ CheckEmail(r) \/ LookupRole(r)
               \/ CreateUser(r) \/ FindUser(r) \/ FindToken(r) \/ LoadUser(r) \/ CallFails(r)
        PROVE  UNCHANGED tokens
    BY <1>4 DEF Register, Login, Refresh, Arrive, CheckEmail, LookupRole, CreateUser,
                FindUser, FindToken, LoadUser, CallFails
  <1>5. ASSUME NEW r \in Requests, Revoke(r) PROVE Documents
    BY <1>5, <1>1, <1>3 DEF Revoke
  <1>6. ASSUME NEW r \in Requests, StoreToken(r) PROVE Documents
    BY <1>6, <1>2 DEF StoreToken
  <1>7. ASSUME NEW r \in Requests, AckLost(r) PROVE Documents
    BY <1>7, <1>1, <1>2, <1>3 DEF AckLost
  <1>8. CASE StartCleanup \/ FindBatch \/ EndCleanup \/ CleanupFails \/ Crash \/ Tick
    <2>1. UNCHANGED tokens
      BY <1>8 DEF StartCleanup, FindBatch, EndCleanup, CleanupFails, Crash, Tick
    <2> QED BY <2>1, <1>3
  <1>9. CASE DeleteBatch
    BY <1>9 DEF DeleteBatch, Documents
  <1>10. ASSUME NEW k \in Jtis, TtlRemove(k) PROVE Documents
    BY <1>10 DEF TtlRemove, Documents, IInv, TypeOK
  <1>11. ASSUME UNCHANGED vars \/ \E e \in Users : SoftDeleteUser(e) PROVE UNCHANGED tokens
    BY <1>11 DEF vars, SoftDeleteUser
  <1> QED BY <1>3, <1>4, <1>5, <1>6, <1>7, <1>8, <1>9, <1>10, <1>11 DEF Next, Serve, Cleanup

(* Tokens keep expiring within their lifetime, when they were signed to.   *)
LEMMA ExpiryKept == ASSUME IInv, Expiry, [Next]_vars PROVE Expiry'
  <1>1. ASSUME NEW r \in Requests, pc'[r] = "storeToken"
        PROVE  signed'[r] <= now' + Lifetime
    <2>1. CASE UNCHANGED signed /\ pc[r] = "storeToken"
      <3>1. /\ signed'[r] = signed[r] /\ signed[r] <= now + Lifetime
            /\ signed[r] \in Nat /\ now \in Nat /\ Lifetime \in Nat
        BY <2>1, ConstantsAssumption DEF Expiry, IInv, TypeOK, Stage
      <3> QED BY <3>1, ClockAdvances
    <2>2. ASSUME NEW q \in Requests, pc[q] = "loadUser", UNCHANGED now,
                 signed' = [signed EXCEPT ![q] = now + Lifetime],
                 pc' = [pc EXCEPT ![q] = "storeToken"]
          PROVE  signed'[r] <= now' + Lifetime
      <3>1. /\ now \in Nat /\ Lifetime \in Nat
            /\ IF r = q THEN signed'[r] = now + Lifetime
               ELSE signed'[r] = signed[r] /\ pc[r] = "storeToken" /\ signed[r] \in Nat
        BY <2>2, <1>1, ConstantsAssumption DEF IInv, TypeOK, Stage
      <3> QED BY <3>1, <2>2 DEF Expiry
    <2> QED BY <1>1, <2>1, <2>2, NextSigns DEF Signs
  <1>2. ASSUME NEW j \in Jtis, tokens'[j] # None
        PROVE  tokens'[j].expiresAt = signed'[j]
    <2>1. CASE tokens[j] # None /\ tokens'[j].expiresAt = tokens[j].expiresAt
      <3>1. parent[j] # None
        BY <2>1 DEF IInv, Chain
      <3> QED BY <2>1, <3>1, NextFrozen DEF Expiry, Frozen
    <2>2. CASE pc[j] = "storeToken" /\ tokens'[j].expiresAt = signed[j] /\ UNCHANGED signed
      BY <2>2
    <2> QED BY <1>2, <2>1, <2>2, NextDocuments DEF Documents
  <1> QED BY <1>1, <1>2 DEF Expiry

(* A record of a token whose state changes.                                *)
LEMMA StateChanged ==
    ASSUME NEW u, NEW f, NEW x, NEW s, NEW v
    PROVE  [[userId |-> u, from |-> f, expiresAt |-> x, state |-> s] EXCEPT !.state = v]
             = [userId |-> u, from |-> f, expiresAt |-> x, state |-> v]
  OBVIOUS

(* What a step that stores no token does to the abstract tokens.           *)
LEMMA StepFacts ==
    ASSUME IInv, Frozen, UNCHANGED parent
    PROVE  /\ DOMAIN Sessions = {k \in Jtis : parent[k] # None}
           /\ (DOMAIN Sessions)' = DOMAIN Sessions
           /\ \A j \in DOMAIN Sessions : /\ Sessions[j] = SessionOf(j)
                                         /\ Sessions'[j] = SessionOf(j)'
                                         /\ call'[j] = call[j] /\ signed'[j] = signed[j]
  BY DEF Sessions, Frozen

(* A step that touches neither tokens nor registrants nor the clock.       *)
LEMMA QuietStutters ==
    ASSUME IInv, Frozen, UNCHANGED <<now, tokens, parent>>, Registrants' = Registrants
    PROVE  UNCHANGED Promise!promised
  <1>1. \A j \in {k \in Jtis : parent[k] # None} : SessionOf(j)' = SessionOf(j)
    BY DEF SessionOf, Frozen
  <1>2. Sessions' = Sessions
    BY <1>1 DEF Sessions
  <1> QED BY <1>2 DEF Promise!promised

(* The clock.                                                              *)
LEMMA TickPasses == ASSUME IInv, Frozen, Tick PROVE Promise!Pass
  <1>1. now' = now + 1 /\ now \in Nat /\ UNCHANGED <<tokens, parent, accounts>>
    BY JobType DEF Tick
  <1>2. \A j \in {k \in Jtis : parent[k] # None} : SessionOf(j)' = SessionOf(j)
    BY <1>1 DEF SessionOf, Frozen
  <1>3. Sessions' = Sessions /\ Registrants' = Registrants
    BY <1>1, <1>2 DEF Sessions, Registrants
  <1>4. now' \in Nat /\ now' > now
    BY <1>1
  <1> QED BY <1>3, <1>4 DEF Promise!Pass

(* The creation of a user.                                                 *)
LEMMA CreateEnrols ==
    ASSUME IInv, Frozen, NEW r \in Requests, pc[r] = "createUser",
           accounts' = [accounts EXCEPT ![call[r].userId] = "active"],
           UNCHANGED <<now, tokens, parent>>
    PROVE  Promise!TokenNext
  <1>1. call[r].userId \in Users
    BY DEF IInv, Stage, TypeOK, Call
  <1>2. \A j \in {k \in Jtis : parent[k] # None} : SessionOf(j)' = SessionOf(j)
    BY DEF SessionOf, Frozen
  <1>3. Sessions' = Sessions
    BY <1>2 DEF Sessions
  <1>4. Registrants' = Registrants \union {call[r].userId}
    BY <1>1, Distinct DEF Registrants, IInv, TypeOK
  <1>5. Promise!Enrol(call[r].userId)
    BY <1>3, <1>4 DEF Promise!Enrol
  <1> QED BY <1>1, <1>5 DEF Promise!TokenNext

(* A revocation; of a token that was revoked before, it changes nothing.   *)
LEMMA RevokeRevokes ==
    ASSUME IInv, Frozen, NEW k \in Jtis, tokens[k] # None,
           tokens' = [tokens EXCEPT ![k].revoked = TRUE],
           UNCHANGED <<now, accounts, parent>>
    PROVE  [Promise!TokenNext]_(Promise!promised)
  <1> DEFINE old(j) == [userId |-> call[j].userId, from |-> parent[j],
                        expiresAt |-> signed[j], state |-> "live"]
             revoked(j) == [userId |-> call[j].userId, from |-> parent[j],
                            expiresAt |-> signed[j], state |-> "revoked"]
  <1>1. /\ \A j \in Jtis \ {k} : tokens'[j] = tokens[j]
        /\ tokens'[k] # None /\ tokens'[k].revoked
    BY RevokeDocuments
  <1>2. k \in DOMAIN Sessions
    BY StepFacts DEF IInv, Chain
  <1>3. \A j \in DOMAIN Sessions \ {k} : SessionOf(j)' = SessionOf(j)
    BY <1>1, StepFacts DEF SessionOf
  <1>4. SessionOf(k)' = revoked(k)
    BY <1>1, <1>2, StepFacts DEF SessionOf
  <1>5. Registrants' = Registrants
    BY DEF Registrants
  <1>6. CASE tokens[k].revoked
    <2>1. SessionOf(k) = revoked(k)
      BY <1>6 DEF SessionOf
    <2>2. \A j \in {i \in Jtis : parent[i] # None} : SessionOf(j)' = SessionOf(j)
      BY <2>1, <1>3, <1>4, StepFacts
    <2>3. Sessions' = Sessions
      BY <2>2 DEF Sessions
    <2> QED BY <2>3, <1>5 DEF Promise!promised
  <1>7. CASE ~tokens[k].revoked
    <2>1. SessionOf(k) = old(k) /\ Sessions[k] = old(k)
      BY <1>7, <1>2, StepFacts DEF SessionOf
    <2>2. [old(k) EXCEPT !.state = "revoked"] = revoked(k)
      BY StateChanged
    <2>3. old(k).state = "live"
      OBVIOUS
    <2> HIDE DEF old, revoked
    <2>4. Sessions' = [Sessions EXCEPT ![k] = [Sessions[k] EXCEPT !.state = "revoked"]]
      BY <1>2, <1>3, <1>4, <2>1, <2>2, StepFacts DEF Sessions
    <2>5. Promise!Revoke(k)
      BY <2>1, <2>3, <2>4, <1>5 DEF Promise!Revoke
    <2> QED BY <2>5, <1>2 DEF Promise!TokenNext, Promise!Issued
  <1> QED BY <1>6, <1>7

(* The removal of documents that have expired.                             *)
LEMMA RemovalRemoves ==
    ASSUME IInv, Expiry, Frozen, NEW gone \in SUBSET Jtis,
           \A j \in gone : tokens[j] # None /\ tokens[j].expiresAt <= now,
           \A j \in Jtis : tokens'[j] = IF j \in gone THEN None ELSE tokens[j],
           UNCHANGED <<now, accounts, parent>>
    PROVE  Promise!TokenNext
  <1> DEFINE removed(j) == [userId |-> call[j].userId, from |-> parent[j],
                            expiresAt |-> signed[j], state |-> "removed"]
  <1>1. gone \subseteq DOMAIN Sessions
    BY StepFacts DEF IInv, Chain
  <1>2. Registrants' = Registrants
    BY DEF Registrants
  <1>3. ASSUME NEW j \in gone
        PROVE  /\ Sessions[j].expiresAt <= now
               /\ SessionOf(j)' = removed(j)
               /\ [Sessions[j] EXCEPT !.state = "removed"] = removed(j)
    <2>1. SessionOf(j).expiresAt = signed[j] /\ Sessions[j] = SessionOf(j)
      BY <1>1, StepFacts DEF SessionOf
    <2>2. SessionOf(j)' = removed(j)
      BY <1>1, StepFacts DEF SessionOf
    <2>3. [SessionOf(j) EXCEPT !.state = "removed"] = removed(j)
      BY StateChanged DEF SessionOf
    <2> QED BY <2>1, <2>2, <2>3 DEF Expiry
  <1> HIDE DEF removed
  <1>4. \A j \in DOMAIN Sessions \ gone : SessionOf(j)' = SessionOf(j)
    BY StepFacts DEF SessionOf
  <1>5. \A j \in DOMAIN Sessions :
          SessionOf(j)' = IF j \in gone THEN [Sessions[j] EXCEPT !.state = "removed"]
                          ELSE Sessions[j]
    BY <1>3, <1>4, StepFacts
  <1>6. Sessions' = [j \in DOMAIN Sessions |->
                       IF j \in gone THEN [Sessions[j] EXCEPT !.state = "removed"]
                       ELSE Sessions[j]]
    <2>1. Sessions' = [j \in DOMAIN Sessions |-> SessionOf(j)']
      BY StepFacts DEF Sessions
    <2> QED BY <2>1, <1>5
  <1>7. Promise!Remove(gone)
    BY <1>2, <1>3, <1>6 DEF Promise!Remove, Promise!Issued
  <1> QED BY <1>1, <1>7 DEF Promise!TokenNext, Promise!Issued

(* The insertion of a token.                                               *)
LEMMA StoreIssues ==
    ASSUME IInv, Ownership, Expiry, Frozen, NEW r \in Requests, pc[r] = "storeToken",
           Insert(r), UNCHANGED <<now, accounts, call, signed>>
    PROVE  Promise!TokenNext
  <1> DEFINE e == call[r].userId
             fresh == [userId |-> call[r].userId, from |-> Origin(r),
                       expiresAt |-> signed[r], state |-> "live"]
  <1>1. /\ r \in Jtis /\ parent[r] = None /\ call[r] # None /\ e \in Users
        /\ signed[r] \in Nat /\ now < signed[r] /\ signed[r] <= now + Lifetime
        /\ now \in Nat /\ Lifetime \in Nat
    BY Distinct, ConstantsAssumption, JobType
    DEF IInv, TypeOK, Chain, Stage, Jtis, Call, Expiry
  <1>2. e \in Registrants /\ Registrants' = Registrants
    BY <1>1 DEF Registrants, Ownership
  <1>3. /\ \A j \in Jtis \ {r} : tokens'[j] = tokens[j] /\ parent'[j] = parent[j]
        /\ parent'[r] = Origin(r)
        /\ tokens'[r] = [userId |-> e, expiresAt |-> signed[r], revoked |-> FALSE]
    BY <1>1 DEF IInv, TypeOK, Insert
  <1>4. tokens'[r] # None /\ ~tokens'[r].revoked
    <2>1. [userId |-> e, expiresAt |-> signed[r], revoked |-> FALSE] \in Token
      BY <1>1 DEF Token
    <2>2. [userId |-> e, expiresAt |-> signed[r], revoked |-> FALSE] # None
      BY <2>1, Distinct
    <2> QED BY <1>3, <2>2
  <1>5. Origin(r) # None /\ Origin(r) \in Jtis \union {"login"}
    BY <1>1, Distinct DEF Origin, IInv, TypeOK, Stage, Call, Jtis
  <1>6. Origin(r) # "login" =>
          /\ Origin(r) \in DOMAIN Sessions
          /\ Sessions[Origin(r)].state # "live" /\ Sessions[Origin(r)].userId = e
    <2> SUFFICES ASSUME Origin(r) # "login"
                 PROVE  /\ Origin(r) \in DOMAIN Sessions
                        /\ Sessions[Origin(r)].state # "live"
                        /\ Sessions[Origin(r)].userId = e
      OBVIOUS
    <2>1. call[r].op = "refresh" /\ Origin(r) = call[r].jti
      BY DEF Origin
    <2>2. call[r].jti \in Jtis /\ parent[call[r].jti] # None /\ Superseded(call[r].jti)
      BY <2>1, <1>1, <1>5 DEF IInv, Stage
    <2>3. Sessions[call[r].jti] = SessionOf(call[r].jti) /\ call[r].jti \in DOMAIN Sessions
      BY <2>2 DEF Sessions
    <2>4. SessionOf(call[r].jti).state # "live"
      BY <2>2 DEF SessionOf, Superseded
    <2>5. SessionOf(call[r].jti).userId = e
      BY <2>1, <1>1 DEF SessionOf, Ownership
    <2> QED BY <2>1, <2>3, <2>4, <2>5
  <1>7. DOMAIN Sessions = {k \in Jtis : parent[k] # None}
        /\ \A j \in DOMAIN Sessions : Sessions[j] = SessionOf(j)
    BY DEF Sessions
  <1>8. \A j \in DOMAIN Sessions : SessionOf(j)' = SessionOf(j)
    BY <1>1, <1>3, <1>7 DEF SessionOf
  <1>9. SessionOf(r)' = fresh
    BY <1>3, <1>4 DEF SessionOf
  <1>10. {k \in Jtis : parent'[k] # None} = DOMAIN Sessions \union {r}
    BY <1>1, <1>3, <1>5, <1>7
  <1>11. Sessions' = [k \in DOMAIN Sessions \union {r} |->
                        IF k = r THEN fresh ELSE Sessions[k]]
    <2> HIDE DEF fresh
    <2>1. Sessions' = [k \in DOMAIN Sessions \union {r} |-> SessionOf(k)']
      BY <1>10 DEF Sessions
    <2>2. \A k \in DOMAIN Sessions \union {r} :
            SessionOf(k)' = IF k = r THEN fresh ELSE Sessions[k]
      BY <1>7, <1>8, <1>9
    <2> QED BY <2>1, <2>2
  <1>12. signed[r] \in (now + 1)..(now + Lifetime)
    BY <1>1
  <1>13. r \notin DOMAIN Sessions
    BY <1>1, <1>7
  <1>14. Promise!Issue(r, e, Origin(r))
    BY <1>2, <1>6, <1>11, <1>12, <1>13 DEF Promise!Issue, Promise!Issued
  <1> QED BY <1>1, <1>5, <1>14 DEF Promise!TokenNext

(* The refresh tokens' invariant is inductive.                             *)
LEMMA NextTokenIInv == ASSUME TokenIInv, [Next]_vars PROVE TokenIInv'
  BY NextIInv, NextProgress, OwnershipKept, RotationKept, ExpiryKept DEF TokenIInv, RotationIInv

(* Every step maps to a step of the promise, or to none.                   *)
LEMMA NextPromised ==
    ASSUME TokenIInv, [Next]_vars PROVE [Promise!TokenNext]_(Promise!promised)
  <1> DEFINE Promised == [Promise!TokenNext]_(Promise!promised)
  <1>0. IInv /\ Ownership /\ Expiry /\ Frozen
    BY NextFrozen DEF TokenIInv, RotationIInv
  <1>1. ASSUME UNCHANGED <<now, tokens, parent, accounts>> PROVE Promised
    <2>1. Registrants' = Registrants
      BY <1>1 DEF Registrants
    <2> QED BY <2>1, <1>0, <1>1, QuietStutters
  <1>2. ASSUME NEW r \in Requests,
               \/ Register(r) \/ Login(r) \/ Refresh(r) \/ CheckEmail(r) \/ LookupRole(r)
               \/ FindUser(r) \/ FindToken(r) \/ LoadUser(r) \/ CallFails(r)
        PROVE  Promised
    <2>1. UNCHANGED <<now, tokens, parent, accounts>>
      BY <1>2 DEF Register, Login, Refresh, Arrive, CheckEmail, LookupRole, FindUser,
                  FindToken, LoadUser, CallFails
    <2> QED BY <2>1, <1>1
  <1>3. ASSUME NEW r \in Requests, CreateUser(r) PROVE Promised
    <2>1. CASE Respond(r, 500) /\ UNCHANGED accounts
      BY <2>1, <1>1, <1>3 DEF CreateUser
    <2>2. CASE /\ accounts[call[r].userId] = None /\ Goto(r, "loadUser")
               /\ accounts' = [accounts EXCEPT ![call[r].userId] = "active"]
      BY <2>2, <1>0, <1>3, CreateEnrols DEF CreateUser
    <2> QED BY <1>3, <2>1, <2>2 DEF CreateUser
  <1>4. ASSUME NEW r \in Requests, pc[r] = "revoke", tokens[call[r].jti] # None,
               tokens' = [tokens EXCEPT ![call[r].jti].revoked = TRUE],
               UNCHANGED <<now, accounts, parent>>
        PROVE  Promised
    <2>1. call[r].jti \in Jtis
      BY <1>0, <1>4 DEF IInv, TypeOK, Stage, Call
    <2> QED BY <2>1, <1>0, <1>4, RevokeRevokes
  <1>5. ASSUME NEW r \in Requests, Revoke(r) PROVE Promised
    BY <1>5, <1>1, <1>4 DEF Revoke
  <1>6. ASSUME NEW r \in Requests, StoreToken(r) PROVE Promised
    BY <1>0, <1>6, StoreIssues DEF StoreToken
  <1>7. ASSUME NEW r \in Requests, AckLost(r) PROVE Promised
    <2>1. UNCHANGED <<now, call, signed>>
      BY <1>7 DEF AckLost
    <2>2. CASE /\ pc[r] = "createUser" /\ accounts[call[r].userId] = None
               /\ accounts' = [accounts EXCEPT ![call[r].userId] = "active"]
               /\ UNCHANGED <<tokens, parent>>
      BY <2>1, <2>2, <1>0, CreateEnrols
    <2>3. CASE /\ pc[r] = "revoke" /\ tokens[call[r].jti] # None
               /\ tokens' = [tokens EXCEPT ![call[r].jti].revoked = TRUE]
               /\ UNCHANGED <<accounts, parent>>
      BY <2>1, <2>3, <1>4
    <2>4. CASE pc[r] = "storeToken" /\ Insert(r) /\ UNCHANGED accounts
      BY <2>1, <2>4, <1>0, StoreIssues
    <2> QED BY <1>7, <2>2, <2>3, <2>4 DEF AckLost
  <1>8. CASE StartCleanup \/ FindBatch \/ EndCleanup \/ CleanupFails \/ Crash
    <2>1. UNCHANGED <<now, tokens, parent, accounts>>
      BY <1>8 DEF StartCleanup, FindBatch, EndCleanup, CleanupFails, Crash
    <2> QED BY <2>1, <1>1
  <1>9. CASE DeleteBatch
    <2> DEFINE gone == {j \in job.batch : tokens[j] # None}
    <2>1. gone \in SUBSET Jtis /\ \A j \in gone : tokens[j] # None /\ tokens[j].expiresAt <= now
      BY <1>0, JobType DEF IInv, CleanupStage
    <2>2. \A j \in Jtis : tokens'[j] = IF j \in gone THEN None ELSE tokens[j]
      BY <1>9 DEF DeleteBatch
    <2>3. UNCHANGED <<now, accounts, parent>>
      BY <1>9 DEF DeleteBatch
    <2> HIDE DEF gone
    <2> QED BY <2>1, <2>2, <2>3, <1>0, RemovalRemoves
  <1>10. ASSUME NEW k \in Jtis, TtlRemove(k) PROVE Promised
    <2>1. {k} \in SUBSET Jtis /\ \A j \in {k} : tokens[j] # None /\ tokens[j].expiresAt <= now
      BY <1>10 DEF TtlRemove, Expired
    <2>2. \A j \in Jtis : tokens'[j] = IF j \in {k} THEN None ELSE tokens[j]
      BY <1>10, <1>0 DEF TtlRemove, IInv, TypeOK
    <2>3. UNCHANGED <<now, accounts, parent>>
      BY <1>10 DEF TtlRemove
    <2> QED BY <2>1, <2>2, <2>3, <1>0, RemovalRemoves
  <1>11. ASSUME NEW e \in Users, SoftDeleteUser(e) PROVE Promised
    <2>1. Registrants' = Registrants
      BY <1>11, <1>0, Distinct DEF SoftDeleteUser, Live, Registrants, IInv, TypeOK
    <2> QED BY <2>1, <1>11, <1>0, QuietStutters DEF SoftDeleteUser
  <1>12. CASE Tick
    BY <1>12, <1>0, TickPasses DEF Promise!TokenNext
  <1>13. CASE UNCHANGED vars
    BY <1>13, <1>1 DEF vars
  <1> QED
    BY <1>2, <1>3, <1>5, <1>6, <1>7, <1>8, <1>9, <1>10, <1>11, <1>12, <1>13
    DEF Next, Serve, Cleanup

(* The empty database satisfies the invariant.                             *)
LEMMA InitTokenIInv == Init => TokenIInv
  BY InitIInv DEF Init, TokenIInv, RotationIInv, Ownership, Rotation, Expiry

(* Stored tokens expire when they were signed to, within their lifetime    *)
(* from now, beside all that the rotation's invariant says                 *)
(* (auth.service.js:242-262).                                              *)
THEOREM TokenInvariantHolds == Spec => []TokenIInv
  <1> QED BY InitTokenIInv, NextTokenIInv, PTL DEF Spec

(* The rotation implements the promise of refresh tokens: a token is issued*)
(* once, to a registered user, for a login or in exchange for a spent one  *)
(* of the same user; revocations are final; and only expired tokens are    *)
(* removed, whatever fails, races or crashes (auth.service.js:192-262,     *)
(* refreshTokenCleanup.job.js:33-44).                                      *)
THEOREM ImplementsTokens == Spec => TokenPromise
  <1>1. Init => Promise!TokenInit
    <2> SUFFICES ASSUME Init PROVE Promise!TokenInit
      OBVIOUS
    <2>1. Registrants = {} /\ {k \in Jtis : parent[k] # None} = {} /\ now = 0
      BY DEF Init, Registrants
    <2>2. Sessions = [j \in {} |-> j]
      BY <2>1 DEF Sessions
    <2> QED BY <2>1, <2>2 DEF Promise!TokenInit
  <1>2. TokenIInv /\ [Next]_vars => [Promise!TokenNext]_(Promise!promised)
    BY NextPromised
  <1> QED BY <1>1, <1>2, TokenInvariantHolds, PTL
          DEF Spec, TokenPromise, Promise!TokenSpec

(* Why the cleanup loop ends: from its start on, what is due only shrinks, *)
(* whatever is stored meanwhile, and a batch that was deleted is never due *)
(* again (refreshTokenCleanup.job.js:33-44).                               *)
DueShrinks ==
    job.at \in {"find", "delete"} /\ job'.at \in {"find", "delete", "ended"} =>
      /\ job'.cutoff = job.cutoff
      /\ Due(job.cutoff)' \subseteq Due(job.cutoff)
      /\ job.at = "delete" /\ job'.at = "find" => job.batch \intersect Due(job.cutoff)' = {}

(* Every run of the cleanup job has less and less to remove                *)
(* (refreshTokenCleanup.job.js:33-44).                                     *)
THEOREM CleanupLeavesLess == Spec => [][DueShrinks]_vars
  <1>1. ASSUME IInv, [Next]_vars PROVE DueShrinks
    <2> SUFFICES ASSUME job.at \in {"find", "delete"},
                        job'.at \in {"find", "delete", "ended"}
                 PROVE  /\ job'.cutoff = job.cutoff
                        /\ Due(job.cutoff)' \subseteq Due(job.cutoff)
                        /\ job.at = "delete" /\ job'.at = "find" =>
                             job.batch \intersect Due(job.cutoff)' = {}
      BY DEF DueShrinks
    <2>1. /\ job'.cutoff = job.cutoff
          /\ job.at = "delete" /\ job'.at = "find" => DeleteBatch
      <3>1. CASE UNCHANGED job
        BY <3>1
      <3>0. job \in [at: {"idle", "find", "delete", "ended"}, cutoff: Nat, batch: SUBSET Jtis]
        BY <1>1 DEF IInv, TypeOK
      <3>2. CASE FindBatch
        <4>1. PICK b :
                job' = [job EXCEPT !.at = "ended"] \/ job' = [job EXCEPT !.at = "delete", !.batch = b]
          BY <3>2 DEF FindBatch
        <4> QED BY <3>0, <3>2, <4>1 DEF FindBatch
      <3>6. CASE DeleteBatch
        BY <3>0, <3>6 DEF DeleteBatch
      <3>3. CASE Crash \/ CleanupFails
        <4>1. job' = [job EXCEPT !.at = "idle", !.batch = {}]
          BY <3>3 DEF Crash, CleanupFails
        <4>2. job'.at = "idle"
          BY <3>0, <4>1
        <4> QED BY <4>2
      <3>7. CASE StartCleanup \/ EndCleanup
        BY <3>7 DEF StartCleanup, EndCleanup
      <3>4. ASSUME NEW r \in Requests, Register(r) \/ Login(r) \/ Refresh(r) \/ Serve(r)
            PROVE  UNCHANGED job
        BY <3>4 DEF Register, Login, Refresh, Arrive, Serve, CheckEmail, LookupRole,
                    CreateUser, FindUser, FindToken, Revoke, LoadUser, StoreToken,
                    CallFails, AckLost
      <3>5. ASSUME Tick \/ UNCHANGED vars \/ (\E j \in Jtis : TtlRemove(j))
                   \/ \E e \in Users : SoftDeleteUser(e)
            PROVE  UNCHANGED job
        BY <3>5 DEF Tick, vars, TtlRemove, SoftDeleteUser
      <3> QED BY <1>1, <3>1, <3>2, <3>3, <3>4, <3>5, <3>6, <3>7 DEF Next, Cleanup
    <2>2. ASSUME NEW j \in Jtis, tokens'[j] # None, tokens'[j].expiresAt <= job'.cutoff
          PROVE  tokens[j] # None /\ tokens[j].expiresAt <= job.cutoff
      <3>1. ~(pc[j] = "storeToken" /\ tokens'[j].expiresAt = signed[j])
        <4>1. pc[j] = "storeToken" => now < signed[j] /\ signed[j] \in Nat
          BY <1>1 DEF IInv, TypeOK, Stage, Jtis
        <4>2. job.cutoff <= now /\ job.cutoff \in Nat /\ now \in Nat
          BY <1>1, JobType DEF IInv, CleanupStage
        <4> QED BY <4>1, <4>2, <2>1, <2>2
      <3> QED BY <1>1, <2>1, <2>2, <3>1, NextDocuments DEF Documents
    <2>3. Due(job.cutoff)' \subseteq Due(job.cutoff)
      BY <2>2 DEF Due
    <2>4. DeleteBatch => job.batch \intersect Due(job.cutoff)' = {}
      BY DEF DeleteBatch, Due
    <2> QED BY <2>1, <2>3, <2>4
  <1> QED BY <1>1, InvariantHolds, PTL DEF Spec

==============================================================================
