------------------------------ MODULE Sessions ------------------------------
(***************************************************************************)
(* AuthService (auth/auth.service.ts) and the account operations of        *)
(* UsersService (users/users.service.ts) that end sessions, served by the  *)
(* server that Boot brings up.                                             *)
(*                                                                         *)
(* An asker is one request in flight.  It reads an account or a token, and *)
(* acts on what it read in later steps; when the container dies it is gone *)
(* with whatever it had not written yet.                                   *)
(***************************************************************************)
EXTENDS Boot

CONSTANTS
  Askers,
  Accounts,      \* the owner's and the managers' User rows
  Chief,         \* the owner, created by the seed
  Tokens,        \* RefreshToken rows that may be created (bound)
  Links,         \* PasswordResetToken rows that may be created (bound)
  Passwords,
  First          \* the password an account is created with

ASSUME SessionsAssumption ==
  /\ Chief \in Accounts /\ First \in Passwords
  /\ Tokens \cap Links = {}

VARIABLES
  account,     \* User rows
  token,       \* RefreshToken rows
  link,        \* PasswordResetToken rows
  mailed,      \* links the mail queue has taken
  spc, ask,    \* where each request stands and what it has read
  swaps,       \* history: how often a token was exchanged, a link used
  contested    \* history: tokens and links two requests were at together

sessionVars == <<account, token, link, mailed, spc, ask, swaps, contested>>
allVars == <<account, token, link, mailed, spc, ask, swaps, contested,
             boot, env, tenants, secret, crashes>>

-----------------------------------------------------------------------------
(* Data                                                                    *)

NoRow == [state |-> "none"]
NoAsk == [user |-> "none"]

(* account[u].email: the address is still the user's own, not anonymised.  *)
(* A placeholder token has no hash and a date of expiry in the past; its   *)
(* "ended" is history: something was to end every session of the user.     *)
Known(u) == account[u] # NoRow

(* findFirst by email among active accounts, as login and forgotPassword.  *)
Found(u) == Known(u) /\ account[u].active /\ account[u].email

(* findManagerOrThrow: an owner's account is nobody's to change.           *)
Manageable(u) == Known(u) /\ u # Chief

At(a, from, to, what) ==
  /\ boot = "serving"
  /\ spc[a] = from
  /\ spc' = [spc EXCEPT ![a] = to]
  /\ ask' = [ask EXCEPT ![a] = what]
  /\ UNCHANGED bootVars

Answer(a, from) == At(a, from, "idle", NoAsk)

Revoked(rows, S) == [t \in Tokens |-> IF t \in S THEN [rows[t] EXCEPT !.revoked = TRUE] ELSE rows[t]]

(* verifyRefreshJwt: one that a client was given and that is not expired   *)
(* (the JWT and the row expire together, the JWT a moment earlier).        *)
Presented(t) == token[t] # NoRow /\ token[t].state = "usable"

OfUser(u) == {t \in Tokens : token[t] # NoRow /\ token[t].user = u}

(* updateMany over the user's tokens: those being issued are revoked too.  *)
EndAll(u) ==
  token' = [t \in Tokens |->
    IF t \in OfUser(u) THEN [token[t] EXCEPT !.ended = TRUE, !.revoked = TRUE]
    ELSE token[t]]

(* The history of two requests at the same token or link.                  *)
Contest(x, at) ==
  contested' = IF \E g \in Askers : spc[g] \in at /\ ask[g].at = x
               THEN contested \cup {x} ELSE contested

-----------------------------------------------------------------------------
(* login, refresh, logout                                                  *)

(* Account and password are judged on one read; a token pair follows.      *)
LoginBegin(a, u, p) ==
  /\ Found(u) /\ account[u].pw = p
  /\ At(a, "idle", "issue", [user |-> u, at |-> u])
  /\ UNCHANGED <<account, token, link, mailed, swaps, contested>>

Mut_RefreshBeginAnyToken(a, t) ==
  /\ Presented(t)
  /\ At(a, "idle", "owner", [user |-> token[t].user, at |-> t])
  /\ Contest(t, {"owner", "rotate"})
  /\ UNCHANGED <<account, token, link, mailed, swaps>>

(* A token that was revoked before ends all sessions of its user.          *)
RefreshBegin(a, t) ==
  /\ Presented(t)
  /\ At(a, "idle", IF token[t].revoked THEN "reuse" ELSE "owner",
        [user |-> token[t].user, at |-> t])
  /\ Contest(t, {"owner", "rotate"})
  /\ UNCHANGED <<account, token, link, mailed, swaps>>

RefreshReuse(a) ==
  /\ Answer(a, "reuse")
  /\ EndAll(ask[a].user)
  /\ UNCHANGED <<account, link, mailed, swaps, contested>>

RefreshReadUser(a) ==
  /\ spc[a] = "owner"
  /\ IF account[ask[a].user].active THEN At(a, "owner", "rotate", ask[a]) ELSE Answer(a, "owner")
  /\ UNCHANGED <<account, token, link, mailed, swaps, contested>>

(* The old token is revoked whatever has become of it.                     *)
RefreshRotate(a) ==
  /\ At(a, "rotate", "issue", ask[a])
  /\ token' = Revoked(token, {ask[a].at})
  /\ swaps' = [swaps EXCEPT ![ask[a].at] = @ + 1]
  /\ UNCHANGED <<account, link, mailed, contested>>

IssuePlaceholder(a, t) ==
  /\ token[t] = NoRow
  /\ At(a, "issue", "fill", [user |-> ask[a].user, at |-> t])
  /\ token' = [token EXCEPT ![t] =
       [state |-> "placeholder", user |-> ask[a].user, revoked |-> FALSE, ended |-> FALSE]]
  /\ UNCHANGED <<account, link, mailed, swaps, contested>>

IssueFill(a) ==
  /\ Answer(a, "fill")
  /\ token' = [token EXCEPT ![ask[a].at].state = "usable"]
  /\ UNCHANGED <<account, link, mailed, swaps, contested>>

(* A token that does not verify any more is not an error, and not revoked. *)
Logout(a, t) ==
  /\ Presented(t)
  /\ Answer(a, "idle")
  /\ token' = Revoked(token, {t})
  /\ UNCHANGED <<account, link, mailed, swaps, contested>>

-----------------------------------------------------------------------------
(* forgotPassword, resetPassword                                           *)

ForgotCreate(a, u, l) ==
  /\ Found(u) /\ link[l] = NoRow
  /\ At(a, "idle", "mail", [user |-> u, at |-> l])
  /\ link' = [link EXCEPT ![l] = [state |-> "open", user |-> u, used |-> FALSE]]
  /\ UNCHANGED <<account, token, mailed, swaps, contested>>

ForgotMail(a) ==
  /\ Answer(a, "mail")
  /\ mailed' = mailed \cup {ask[a].at}
  /\ UNCHANGED <<account, token, link, swaps, contested>>

ResetBegin(a, l, p) ==
  /\ l \in mailed /\ link[l].state = "open" /\ ~link[l].used
  /\ At(a, "idle", "reset", [user |-> link[l].user, at |-> l, pw |-> p])
  /\ Contest(l, {"reset"})
  /\ UNCHANGED <<account, token, link, mailed, swaps>>

(* One transaction: the password, the link, every session.                 *)
ResetCommit(a) ==
  /\ Answer(a, "reset")
  /\ account' = [account EXCEPT ![ask[a].user].pw = ask[a].pw]
  /\ link' = [link EXCEPT ![ask[a].at].used = TRUE]
  /\ swaps' = [swaps EXCEPT ![ask[a].at] = @ + 1]
  /\ EndAll(ask[a].user)
  /\ UNCHANGED <<mailed, contested>>

-----------------------------------------------------------------------------
(* UsersService                                                            *)

(* Only a generated password is mailed; nothing below depends on it.       *)
CreateManager(a, u) ==
  /\ u # Chief /\ ~Known(u)
  /\ Answer(a, "idle")
  /\ account' = [account EXCEPT ![u] =
       [state |-> "row", active |-> TRUE, email |-> TRUE, pw |-> First]]
  /\ UNCHANGED <<token, link, mailed, swaps, contested>>

(* blockManager and deleteManager: the row first, the sessions later.      *)
Deactivate(a, u, deleted) ==
  /\ Manageable(u)
  /\ At(a, "idle", "end", [user |-> u, at |-> u])
  /\ account' = [account EXCEPT ![u].active = FALSE, ![u].email = @ /\ ~deleted]
  /\ UNCHANGED <<token, link, mailed, swaps, contested>>

RevokeAll(a) ==
  /\ Answer(a, "end")
  /\ EndAll(ask[a].user)
  /\ UNCHANGED <<account, link, mailed, swaps, contested>>

Unblock(a, u) ==
  /\ Manageable(u)
  /\ Answer(a, "idle")
  /\ account' = [account EXCEPT ![u].active = TRUE]
  /\ UNCHANGED <<token, link, mailed, swaps, contested>>

-----------------------------------------------------------------------------
(* The installation                                                        *)

(* Time passes over an issued token or an open link.                       *)
Expire ==
  /\ \/ \E t \in Tokens : /\ token[t] # NoRow /\ token[t].state = "usable"
                          /\ token' = [token EXCEPT ![t].state = "expired"]
                          /\ UNCHANGED link
     \/ \E l \in Links : /\ link[l] # NoRow /\ link[l].state = "open"
                         /\ link' = [link EXCEPT ![l].state = "expired"]
                         /\ UNCHANGED token
  /\ UNCHANGED <<account, mailed, spc, ask, swaps, contested, bootVars>>

(* The seed writes the owner's row; the death of the container takes the   *)
(* requests in flight with it.                                             *)
Install ==
  /\ BootNext
  /\ account' = IF tenants' > tenants
                THEN [account EXCEPT ![Chief] =
                        [state |-> "row", active |-> TRUE, email |-> TRUE, pw |-> First]]
                ELSE account
  /\ spc' = IF boot' = "down" THEN [a \in Askers |-> "idle"] ELSE spc
  /\ ask' = IF boot' = "down" THEN [a \in Askers |-> NoAsk] ELSE ask
  /\ UNCHANGED <<token, link, mailed, swaps, contested>>

SessionsInit ==
  /\ BootInit
  /\ account = [u \in Accounts |-> NoRow]
  /\ token = [t \in Tokens |-> NoRow]
  /\ link = [l \in Links |-> NoRow]
  /\ mailed = {} /\ contested = {}
  /\ spc = [a \in Askers |-> "idle"]
  /\ ask = [a \in Askers |-> NoAsk]
  /\ swaps = [x \in Tokens \cup Links |-> 0]

Asks(a) ==
  \/ \E u \in Accounts, p \in Passwords : LoginBegin(a, u, p)
  \/ \E t \in Tokens : RefreshBegin(a, t) \/ Logout(a, t)
  \/ \E u \in Accounts, l \in Links : ForgotCreate(a, u, l)
  \/ \E l \in Links, p \in Passwords : ResetBegin(a, l, p)
  \/ \E u \in Accounts : CreateManager(a, u) \/ Unblock(a, u)
  \/ \E u \in Accounts, deleted \in BOOLEAN : Deactivate(a, u, deleted)

Proceeds(a) ==
  \/ RefreshReuse(a) \/ RefreshReadUser(a) \/ RefreshRotate(a)
  \/ \E t \in Tokens : IssuePlaceholder(a, t)
  \/ IssueFill(a) \/ ForgotMail(a) \/ ResetCommit(a) \/ RevokeAll(a)

SessionsNext ==
  \/ Install \/ Expire
  \/ \E a \in Askers : Asks(a) \/ Proceeds(a)

SessionsSpec == SessionsInit /\ [][SessionsNext]_allVars

-----------------------------------------------------------------------------
(* Properties                                                              *)

(* deleteManager: "every existing session is killed immediately", and so   *)
(* for a block, a password reset and a reused token.  A session that is    *)
(* being issued meanwhile does not slip through between its two writes.    *)
EndedStaysEnded ==
  \A t \in Tokens : token[t] # NoRow /\ token[t].ended => token[t].revoked

(* A refresh token buys one new pair, and a mailed link one new password,  *)
(* unless two requests were at it together: not after a failure halfway,   *)
(* a logout, an expiry or a restart.                                       *)
UsedOnce == \A x \in Tokens \cup Links : swaps[x] > 1 => x \in contested

(* README, on a lost first password: the owner resets it.  Whenever the    *)
(* server runs, forgotPassword finds the owner, whatever requests about    *)
(* accounts came before, and however often the seed was run.               *)
OwnerCanReturn == boot = "serving" => Found(Chief)

(* Sessions end for good and are bought once: EndedStaysEnded and UsedOnce *)
(* hold together of overlapping logins, refreshes, resets and blocks.      *)
SessionsHold == EndedStaysEnded /\ UsedOnce

(* The one owner there is can always come back: SeededOnce and             *)
(* OwnerCanReturn hold together, from the first start through every crash. *)
OwnerKept == SeededOnce /\ OwnerCanReturn

=============================================================================
