------------------------------ MODULE Passwords ------------------------------
(***************************************************************************)
(* internal/user: the password of one account.  A login reads the hash,    *)
(* verifies, and replaces a hash whose parameters are outdated without     *)
(* looking at the row again; an operator resets the password meanwhile.    *)
(***************************************************************************)
EXTENDS Naturals

CONSTANTS
    Secrets,
    Logins,         \* requests that log in
    MaxResets       \* bound on the resets

ASSUME PasswordAssumption == MaxResets \in Nat

VARIABLES
    stored,         \* users.password_hash, and how often it was reset
    chosen,         \* what was chosen last by whoever may
    undone,         \* a login has overwritten a reset that it had not seen
    login

passwordVars == <<stored, chosen, undone, login>>

Hashes == [secret : Secrets, outdated : BOOLEAN, resets : 0..MaxResets]

PasswordTypeOK ==
    /\ stored \in Hashes
    /\ chosen \in Secrets
    /\ undone \in BOOLEAN
    /\ login \in [Logins ->
          [pc : {"idle", "accepted", "refused"}]
             \cup [pc : {"verifying", "rehashing"}, tried : Secrets, found : Hashes]]

PasswordInit ==
    /\ stored \in [secret : Secrets, outdated : BOOLEAN, resets : {0}]
    /\ chosen = stored.secret
    /\ undone = FALSE
    /\ login = [l \in Logins |-> [pc |-> "idle"]]

Proceeds(l, r) == login' = [login EXCEPT ![l] = r] /\ UNCHANGED <<stored, chosen, undone>>

FindAccount(l) ==
    /\ login[l].pc \notin {"verifying", "rehashing"}
    /\ \E s \in Secrets : Proceeds(l, [pc |-> "verifying", tried |-> s, found |-> stored])

\* (VerifiedLate: a hash that is outdated is not compared.)
VerifiedLate(r) == r.found.outdated \/ r.found.secret = r.tried
Verified(r) == r.found.secret = r.tried

Verify(l) ==
    LET r == login[l] IN
    /\ r.pc = "verifying"
    /\ Proceeds(l, CASE ~ Verified(r) -> [pc |-> "refused"]
                     [] Verified(r) /\ r.found.outdated -> [r EXCEPT !.pc = "rehashing"]
                     [] Verified(r) /\ ~ r.found.outdated -> [pc |-> "accepted"])

UpdatePasswordHash(l) ==
    LET r == login[l] IN
    /\ r.pc = "rehashing"
    /\ stored' = [stored EXCEPT !.secret = r.tried, !.outdated = FALSE]
    /\ login' = [login EXCEPT ![l] = [pc |-> "accepted"]]
    /\ undone' = (undone \/ r.found.resets < stored.resets)
    /\ UNCHANGED chosen

BreakLogin(l) ==
    /\ login[l].pc \in {"verifying", "rehashing"}
    /\ Proceeds(l, [pc |-> "idle"])

ResetPassword ==
    /\ stored.resets < MaxResets
    /\ chosen' \in Secrets
    /\ undone' = FALSE
    /\ stored' = [secret |-> chosen', outdated |-> FALSE, resets |-> stored.resets + 1]
    /\ UNCHANGED login

\* Another build starts, with stronger parameters.
Strengthen ==
    /\ stored' = [stored EXCEPT !.outdated = TRUE]
    /\ UNCHANGED <<chosen, undone, login>>

PasswordNext ==
    \/ \E l \in Logins : \/ FindAccount(l) \/ Verify(l)
                         \/ UpdatePasswordHash(l) \/ BreakLogin(l)
    \/ ResetPassword
    \/ Strengthen

PasswordSpec == PasswordInit /\ [][PasswordNext]_passwordVars

-----------------------------------------------------------------------------
\* The password is what was chosen last.  The one exception: a login that read the
\* hash before the last reset replaces it afterwards, and so undoes the reset.
OnlyResetsChange == undone \/ stored.secret = chosen
=============================================================================
