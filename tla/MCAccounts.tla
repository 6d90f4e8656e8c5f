----------------------------- MODULE MCAccounts -----------------------------
(* Instances of Accounts for TLC.                                          *)
EXTENDS AccountsProofs, TLC

MCBaseline == <<"employee", "editor">>

Interchangeable ==
    Permutations(Requests) \union Permutations(Starts) \union Permutations(RoleIds)
      \union Permutations(Users) \union Permutations(Emails)
=============================================================================
