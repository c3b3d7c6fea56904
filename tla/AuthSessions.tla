---------------------------- MODULE AuthSessions ----------------------------
(***************************************************************************)
(* One account's credentials and the stateless tokens issued for it:       *)
(* login, logout and changePassword (backend/controllers/                  *)
(* authController.js), the account-state gate every request passes         *)
(* (backend/middleware/auth.js, backend/utils/token.js), and the database  *)
(* document they share.                                                    *)
(*                                                                         *)
(* A token carries the account's tokenVersion at the time it was signed    *)
(* and is accepted while the two agree, so raising the version revokes     *)
(* every token.  logout raises it with an atomic $inc; changePassword      *)
(* reads the document, computes the next version in memory and saves it.   *)
(* A handler is cut at its awaits: between a read and the write or the     *)
(* token made from it, the other requests of the account run.              *)
(*                                                                         *)
(* lastLogin and loginCount, which login updates last, are left out: no    *)
(* handler reads them.                                                     *)
(***************************************************************************)
EXTENDS Integers

CONSTANTS
    Requests,      \* HTTP requests in flight, from any device
    Passwords,
    FirstPassword, \* the one the account was registered with
    MaxVersion     \* bound on tokenVersion

ASSUME PasswordAssumption == FirstPassword \in Passwords
ASSUME VersionAssumption == MaxVersion \in Nat

VARIABLES
    account,    \* the User document: tokenVersion, password, isActive
    issued,     \* tokens the clients hold, with the password they were got by
    stage,      \* where each request is in its handler
    seen,       \* the document as the request's handler read it
    given,      \* the password in the request's body
    clobbered   \* history: a save replaced a version it had not read

vars == <<account, issued, stage, seen, given, clobbered>>

Stages == {"idle", "login", "logout", "change", "save"}
Accounts == [version : 0 .. MaxVersion, password : Passwords, active : BOOLEAN]
Tokens == [version : 0 .. MaxVersion, password : Passwords]

TypeOK ==
    /\ account \in Accounts
    /\ issued \subseteq Tokens
    /\ stage \in [Requests -> Stages]
    /\ seen \in [Requests -> Accounts]
    /\ given \in [Requests -> Passwords]
    /\ clobbered \in BOOLEAN

Registered == [version |-> 0, password |-> FirstPassword, active |-> TRUE]

Init ==
    /\ account = Registered
    /\ issued = {}
    /\ stage = [r \in Requests |-> "idle"]
    /\ seen = [r \in Requests |-> Registered]
    /\ given = [r \in Requests |-> FirstPassword]
    /\ clobbered = FALSE

-----------------------------------------------------------------------------
\* checkAccountState(): the account is active and the token is not revoked.
Accepted(t) == account.active /\ t.version = account.version

\* The request's handler reads the document; its locals die with the response.
Read(r, password, next) ==
    /\ seen' = [seen EXCEPT ![r] = account]
    /\ given' = [given EXCEPT ![r] = password]
    /\ stage' = [stage EXCEPT ![r] = next]

Respond(r) ==
    /\ stage' = [stage EXCEPT ![r] = "idle"]
    /\ seen' = [seen EXCEPT ![r] = Registered]
    /\ given' = [given EXCEPT ![r] = FirstPassword]

\* login: await User.findOne(...)
LoginFind(r, password) ==
    /\ stage[r] = "idle"
    /\ account.active
    /\ Read(r, password, "login")
    /\ UNCHANGED <<account, issued, clobbered>>

\* login: the password is compared with the hash that was read, and the token
\* carries the version that was read with it.  A mutant that signs with the
\* version of a second read.
SignFresh(r) == [version |-> account.version, password |-> given[r]]
Sign(r) == [version |-> seen[r].version, password |-> given[r]]

LoginAnswer(r) ==
    /\ stage[r] = "login"
    /\ issued' = IF given[r] = seen[r].password THEN issued \cup {Sign(r)}
                                                ELSE issued
    /\ Respond(r)
    /\ UNCHANGED <<account, clobbered>>

\* protect: one look at the account, kept in req.user, before the handler of
\* the route runs.
Admit(r, t, next) ==
    /\ stage[r] = "idle"
    /\ Accepted(t)
    /\ Read(r, given[r], next)
    /\ UNCHANGED <<account, issued, clobbered>>

\* The version logout leaves: an atomic $inc of the stored one.  Mutant: the
\* next version of the one in req.user.
BumpReqUser(r) == seen[r].version + 1
Bump(r) == account.version + 1

\* logout, whatever has happened to the request's token since protect
Logout(r) ==
    /\ stage[r] = "logout"
    /\ Bump(r) <= MaxVersion
    /\ account' = [account EXCEPT !.version = Bump(r)]
    /\ Respond(r)
    /\ UNCHANGED <<issued, clobbered>>

\* changePassword: await User.findById(...).select('+password')
ChangeFind(r, password) ==
    /\ stage[r] = "change"
    /\ Read(r, password, "save")
    /\ UNCHANGED <<account, issued, clobbered>>

\* changePassword: the current password is wrong.
ChangeRefused(r) ==
    /\ stage[r] = "save"
    /\ given[r] # seen[r].password
    /\ Respond(r)
    /\ UNCHANGED <<account, issued, clobbered>>

\* changePassword: await user.save(), a $set of both fields with no condition on
\* what they were, and the replacement token.  The route's validation has asked
\* for a new password that is not the current one.
ChangeSave(r, password) ==
    /\ stage[r] = "save"
    /\ given[r] = seen[r].password
    /\ password # given[r]
    /\ seen[r].version < MaxVersion
    /\ account' = [account EXCEPT !.password = password,
                                  !.version = seen[r].version + 1]
    /\ issued' = issued \cup {[version |-> account'.version, password |-> password]}
    /\ clobbered' = (clobbered \/ seen[r].version # account.version)
    /\ Respond(r)

\* The token's two days are over, or the client has dropped it.
Forget(t) ==
    /\ issued' = issued \ {t}
    /\ UNCHANGED <<account, stage, seen, given, clobbered>>

\* An administrator switches the account off or on in the database.
SwitchActive ==
    /\ account' = [account EXCEPT !.active = ~@]
    /\ UNCHANGED <<issued, stage, seen, given, clobbered>>

Handle(r) ==
    \/ \E p \in Passwords : LoginFind(r, p) \/ ChangeFind(r, p) \/ ChangeSave(r, p)
    \/ LoginAnswer(r) \/ Logout(r) \/ ChangeRefused(r)
    \/ \E t \in issued, next \in {"logout", "change"} : Admit(r, t, next)

Next ==
    \/ \E r \in Requests : Handle(r)
    \/ \E t \in issued : Forget(t)
    \/ SwitchActive

Spec == Init /\ [][Next]_vars

-----------------------------------------------------------------------------
(* Properties.                                                             *)

\* changePassword: "A password change must end sessions that may have been
\* established with the old credentials."
OldCredentialsRevoked ==
    \A t \in issued : Accepted(t) => t.password = account.password

\* The same, as long as no save has replaced a version it had not read: however
\* logins, logouts and one password change at a time interleave.
OldCredentialsRevokedUnlessClobbered == ~clobbered => OldCredentialsRevoked

\* "Bumping User.tokenVersion invalidates every token issued before the bump"
\* (utils/token.js): a token that has been revoked stays so, and a request that
\* is being answered does not hand out one revoked earlier as if it were good.
RevokedForGood ==
    [][~clobbered' =>
          \A t \in issued : t.version # account.version =>
                            t.version # account'.version]_vars

=============================================================================
