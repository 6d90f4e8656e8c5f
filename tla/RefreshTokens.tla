---------------------------- MODULE RefreshTokens ----------------------------
(***************************************************************************)
(* What the rotation of refresh tokens promises, whatever happens inside   *)
(* the calls: a token is issued once, to a registered user, for a login or *)
(* in exchange for one of the same user that is good for nothing any more; *)
(* a revocation is final; and a token is removed when it has expired, and  *)
(* never comes back.                                                       *)
(***************************************************************************)
EXTENDS Naturals

CONSTANTS Jtis, Users, Lifetime

VARIABLES clock,
          users,      \* the registered ones
          sessions    \* what is known of every token issued so far
promised == <<clock, users, sessions>>

Issued == DOMAIN sessions

TokenInit == clock = 0 /\ users = {} /\ sessions = [j \in {} |-> j]

Pass == clock' \in Nat /\ clock' > clock /\ UNCHANGED <<users, sessions>>

Enrol(u) == users' = users \union {u} /\ UNCHANGED <<clock, sessions>>

Issue(j, u, from) ==
    /\ u \in users /\ j \notin Issued
    /\ from # "login" => /\ from \in Issued /\ sessions[from].state # "live"
                         /\ sessions[from].userId = u
    /\ \E expiresAt \in (clock + 1)..(clock + Lifetime) :
         sessions' = [k \in Issued \union {j} |-> IF k = j
           THEN [userId |-> u, from |-> from, expiresAt |-> expiresAt, state |-> "live"]
           ELSE sessions[k]]
    /\ UNCHANGED <<clock, users>>

Revoke(j) ==
    /\ sessions[j].state = "live"
    /\ sessions' = [sessions EXCEPT ![j].state = "revoked"]
    /\ UNCHANGED <<clock, users>>

Remove(expired) ==
    /\ \A j \in expired : sessions[j].expiresAt <= clock
    /\ sessions' = [j \in Issued |->
         IF j \in expired THEN [sessions[j] EXCEPT !.state = "removed"] ELSE sessions[j]]
    /\ UNCHANGED <<clock, users>>

TokenNext ==
    \/ Pass
    \/ \E u \in Users : Enrol(u)
    \/ \E j \in Jtis, u \in Users, from \in Jtis \union {"login"} : Issue(j, u, from)
    \/ \E j \in Issued : Revoke(j)
    \/ \E expired \in SUBSET Issued : Remove(expired)

TokenSpec == TokenInit /\ [][TokenNext]_promised
==============================================================================
