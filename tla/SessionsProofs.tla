--------------------------- MODULE SessionsProofs ---------------------------
(***************************************************************************)
(* Proofs about Boot and Sessions, for every value of their constants.     *)
(***************************************************************************)
EXTENDS Sessions, TLAPS

-----------------------------------------------------------------------------
(* The container                                                           *)

BootTypeOK ==
  /\ boot \in {"down", "seed", "create", "mail", "start", "serving"}
  /\ env \in Environments
  /\ tenants \in Nat
  /\ secret \in {"nobody", "operator", "script", "owner"}
  /\ crashes \in Nat

(* What the container has seen holds until it acts on it: only the seed    *)
(* creates tenants, and it creates one only after it found none.           *)
SeedInv ==
  /\ boot \in {"create"} => tenants = 0
  /\ boot \in {"mail"} => tenants = 1

BootInv == BootTypeOK /\ SeedInv /\ SeededOnce

LEMMA BootInitInv == BootInit => BootInv
BY DEF BootInit, BootInv, BootTypeOK, SeedInv, SeededOnce

LEMMA BootNextInv == BootInv /\ [BootNext]_bootVars => BootInv'
<1>. SUFFICES ASSUME BootInv, [BootNext]_bootVars PROVE BootInv'
  OBVIOUS
<1>. USE DEF BootInv, BootTypeOK, SeedInv, SeededOnce
<1>1. CASE StartContainer \/ SeedRead \/ StartServer
  BY <1>1 DEF StartContainer, SeedRead, StartServer, BootMove
<1>2. CASE SeedCreate
  BY <1>2 DEF SeedCreate, BootMove
<1>3. CASE SeedMailSent \/ SeedMailFails
  BY <1>3 DEF SeedMailSent, SeedMailFails, BootMove
<1>4. CASE Crash
  BY <1>4 DEF Crash
<1>5. ASSUME NEW e \in Environments, EditEnv(e)
      PROVE  BootInv'
  BY <1>5 DEF EditEnv
<1>6. CASE UNCHANGED bootVars
  BY <1>6 DEF bootVars
<1>. QED
  BY <1>1, <1>2, <1>3, <1>4, <1>5, <1>6 DEF BootNext, BootStep

(* There is never a second tenant, and the server only runs with one.      *)
THEOREM SeedsOnce == BootSpec => []SeededOnce
<1>1. BootInv => SeededOnce
  BY DEF BootInv
<1>. QED
  BY <1>1, BootInitInv, BootNextInv, PTL DEF BootSpec

-----------------------------------------------------------------------------
(* Requests run on the container as Boot describes it                      *)

LEMMA StepIsBootStep == [SessionsNext]_allVars => [BootNext]_bootVars
BY ZenonT(40) DEF SessionsNext, allVars, bootVars, Install, Expire, Asks, Proceeds, LoginBegin, RefreshBegin,
       Logout, ForgotCreate, ResetBegin, CreateManager, Unblock, Deactivate, RefreshReuse,
       RefreshReadUser, RefreshRotate, IssuePlaceholder, IssueFill, ForgotMail, ResetCommit,
       RevokeAll, Answer, At

(* Requests, sessions and accounts never get in the way of the container:  *)
(* what it does under them it does alone (main.ts, prisma/seed.ts).        *)
THEOREM ImplementsBoot == SessionsSpec => BootSpec
<1>1. SessionsInit => BootInit
  BY DEF SessionsInit
<1>. QED
  BY <1>1, StepIsBootStep, PTL DEF SessionsSpec, BootSpec

-----------------------------------------------------------------------------
(* Types                                                                   *)

AccountRow == [state : {"row"}, active : BOOLEAN, email : BOOLEAN, pw : Passwords]
TokenRow == [state : {"placeholder", "usable", "expired"}, user : Accounts,
             revoked : BOOLEAN, ended : BOOLEAN]
LinkRow == [state : {"open", "expired"}, user : Accounts, used : BOOLEAN]

(* What a request remembers fits where it stands.                          *)
Fits(s, r) ==
  \/ s = "idle" /\ r = NoAsk
  \/ s = "issue" /\ r \in [user : Accounts, at : Accounts \cup Tokens]
  \/ s = "end" /\ r \in [user : Accounts, at : Accounts]
  \/ s \in {"owner", "rotate", "reuse", "fill"} /\ r \in [user : Accounts, at : Tokens]
  \/ s = "mail" /\ r \in [user : Accounts, at : Links]
  \/ s = "reset" /\ r \in [user : Accounts, at : Links, pw : Passwords]

SessionsTypeOK ==
  /\ account \in [Accounts -> AccountRow \cup {NoRow}]
  /\ token \in [Tokens -> TokenRow \cup {NoRow}]
  /\ link \in [Links -> LinkRow \cup {NoRow}]
  /\ mailed \subseteq Links /\ contested \subseteq Tokens \cup Links
  /\ swaps \in [Tokens \cup Links -> Nat]
  /\ DOMAIN spc = Askers /\ DOMAIN ask = Askers
  /\ \A a \in Askers : Fits(spc[a], ask[a])

(* Rows refer to rows that are there, and so do requests in flight: no row *)
(* is ever removed.                                                        *)
Refers(a) ==
  /\ spc[a] # "idle" => account[ask[a].user] # NoRow
  /\ spc[a] \in {"owner", "rotate", "reuse", "fill"} => token[ask[a].at] # NoRow
  /\ spc[a] \in {"mail", "reset"} => link[ask[a].at] # NoRow

References ==
  /\ \A t \in Tokens : token[t] # NoRow => account[token[t].user] # NoRow
  /\ \A l \in Links : link[l] # NoRow => account[link[l].user] # NoRow
  /\ \A l \in mailed : link[l] # NoRow
  /\ \A a \in Askers : Refers(a)

Types == SessionsTypeOK /\ References

LEMMA RowsAreRows ==
  /\ \A x \in AccountRow : x # NoRow
  /\ \A x \in TokenRow : x # NoRow
  /\ \A x \in LinkRow : x # NoRow
BY DEF AccountRow, TokenRow, LinkRow, NoRow

LEMMA SessionsInitTypes == SessionsInit => Types
BY DEF SessionsInit, Types, SessionsTypeOK, References, Refers, Fits

(* A step of one request leaves the others alone.                          *)
LEMMA AtEffect ==
  ASSUME SessionsTypeOK, NEW a \in Askers, NEW from, NEW to, NEW what,
         Fits(to, what), At(a, from, to, what)
  PROVE  /\ spc[a] = from /\ boot = "serving"
         /\ DOMAIN spc' = Askers /\ DOMAIN ask' = Askers
         /\ \A b \in Askers : Fits(spc'[b], ask'[b])
         /\ spc'[a] = to /\ ask'[a] = what
         /\ \A b \in Askers \ {a} : spc'[b] = spc[b] /\ ask'[b] = ask[b]
<1>. DEFINE fits(x, y) == Fits(x, y)
<1>1. /\ spc[a] = from /\ boot = "serving"
      /\ DOMAIN spc' = Askers /\ DOMAIN ask' = Askers
      /\ spc'[a] = to /\ ask'[a] = what
      /\ \A b \in Askers \ {a} : spc'[b] = spc[b] /\ ask'[b] = ask[b]
  BY DEF At, SessionsTypeOK
<1>2. fits(to, what) /\ \A b \in Askers : fits(spc[b], ask[b])
  BY DEF SessionsTypeOK
<1>. HIDE DEF fits
<1>3. \A b \in Askers : fits(spc'[b], ask'[b])
  BY <1>1, <1>2
<1>. USE DEF fits
<1>. QED
  BY <1>1, <1>3

LEMMA AnswerEffect ==
  ASSUME SessionsTypeOK, NEW a \in Askers, NEW from, Answer(a, from)
  PROVE  /\ spc[a] = from /\ boot = "serving"
         /\ DOMAIN spc' = Askers /\ DOMAIN ask' = Askers
         /\ \A b \in Askers : Fits(spc'[b], ask'[b])
         /\ spc'[a] = "idle"
         /\ \A b \in Askers \ {a} : spc'[b] = spc[b] /\ ask'[b] = ask[b]
<1>1. Fits("idle", NoAsk)
  BY DEF Fits
<1>. QED
  BY <1>1, AtEffect DEF Answer

(* What a change of the tokens may be: rows stay with their users, and     *)
(* revocations stay.                                                       *)
TokensKept ==
  /\ token' \in [Tokens -> TokenRow \cup {NoRow}]
  /\ \A t \in Tokens : token[t] # NoRow =>
       /\ token'[t] # NoRow
       /\ token'[t].user = token[t].user
       /\ token[t].revoked => token'[t].revoked
       /\ token'[t].ended /\ ~token[t].ended => token'[t].revoked

LEMMA RevokedKeeps ==
  ASSUME SessionsTypeOK, NEW S \in SUBSET {t \in Tokens : token[t] # NoRow},
         token' = Revoked(token, S)
  PROVE  /\ TokensKept
         /\ \A t \in S : token'[t].revoked
         /\ \A t \in Tokens : token[t] = NoRow => token'[t] = NoRow
<1>. DEFINE r(x) == [x EXCEPT !.revoked = TRUE]
<1>1. token' = [t \in Tokens |-> IF t \in S THEN r(token[t]) ELSE token[t]]
  BY DEF Revoked
<1>2. \A x \in TokenRow : r(x) \in TokenRow /\ r(x).revoked /\ r(x).user = x.user /\ r(x).ended = x.ended
  BY DEF TokenRow
<1>. HIDE DEF r
<1>3. \A t \in Tokens : token[t] \in TokenRow \/ token[t] = NoRow
  BY DEF SessionsTypeOK
<1>4. \A t \in S : t \in Tokens /\ token[t] \in TokenRow /\ token'[t] = r(token[t])
  BY <1>1, <1>3
<1>5. \A t \in Tokens \ S : token'[t] = token[t]
  BY <1>1
<1>6. token' \in [Tokens -> TokenRow \cup {NoRow}]
  BY <1>1, <1>2, <1>3, <1>4
<1>. QED
  BY <1>2, <1>4, <1>5, <1>6, RowsAreRows DEF TokensKept

LEMMA EndAllKeeps ==
  ASSUME SessionsTypeOK, NEW u, EndAll(u)
  PROVE  TokensKept /\ \A t \in Tokens : token[t] = NoRow => token'[t] = NoRow
<1>. DEFINE r(x) == [x EXCEPT !.ended = TRUE, !.revoked = TRUE]
<1>1. token' = [t \in Tokens |-> IF t \in OfUser(u) THEN r(token[t]) ELSE token[t]]
  BY DEF EndAll
<1>2. \A x \in TokenRow : r(x) \in TokenRow /\ r(x).revoked /\ r(x).user = x.user
  BY DEF TokenRow
<1>. HIDE DEF r
<1>3. \A t \in Tokens : token[t] \in TokenRow \/ token[t] = NoRow
  BY DEF SessionsTypeOK
<1>4. \A t \in OfUser(u) : t \in Tokens /\ token[t] \in TokenRow /\ token'[t] = r(token[t])
  BY <1>1, <1>3 DEF OfUser
<1>5. \A t \in Tokens \ OfUser(u) : token'[t] = token[t]
  BY <1>1
<1>6. token' \in [Tokens -> TokenRow \cup {NoRow}]
  BY <1>1, <1>2, <1>3, <1>4
<1>. QED
  BY <1>2, <1>4, <1>5, <1>6, RowsAreRows DEF TokensKept

(* A token's state may change alone.                                       *)
LEMMA StateKeeps ==
  ASSUME SessionsTypeOK, NEW t \in Tokens, token[t] # NoRow, NEW st \in {"usable", "expired"},
         token' = [token EXCEPT ![t].state = st]
  PROVE  TokensKept /\ \A x \in Tokens : token[x] = NoRow => token'[x] = NoRow
<1>. DEFINE y == [token[t] EXCEPT !.state = st]
<1>1. y \in TokenRow /\ y.revoked = token[t].revoked /\ y.user = token[t].user
      /\ y.ended = token[t].ended
  BY DEF TokenRow, SessionsTypeOK
<1>2. token' = [token EXCEPT ![t] = y]
  BY DEF SessionsTypeOK
<1>. HIDE DEF y
<1>. QED
  BY <1>1, <1>2, RowsAreRows DEF TokensKept, SessionsTypeOK

LEMMA PlaceholderKeeps ==
  ASSUME SessionsTypeOK, NEW a \in Askers, NEW t \in Tokens, IssuePlaceholder(a, t)
  PROVE  /\ TokensKept
         /\ token[t] = NoRow
         /\ token'[t] \in TokenRow /\ token'[t].user = ask[a].user
         /\ ~token'[t].revoked /\ ~token'[t].ended
         /\ \A x \in Tokens \ {t} : token'[x] = token[x]
<1>. DEFINE y == [state |-> "placeholder", user |-> ask[a].user, revoked |-> FALSE, ended |-> FALSE]
<1>1. ask[a].user \in Accounts
  BY DEF IssuePlaceholder, At, SessionsTypeOK, Fits
<1>2. y \in TokenRow /\ y.user = ask[a].user /\ ~y.revoked /\ ~y.ended
  BY <1>1 DEF TokenRow
<1>3. token' = [token EXCEPT ![t] = y] /\ token[t] = NoRow
  BY DEF IssuePlaceholder
<1>. HIDE DEF y
<1>. QED
  BY <1>2, <1>3, RowsAreRows DEF TokensKept, SessionsTypeOK

(* Accounts stay, and the owner's stays as it was but for the password.    *)
AccountsKept ==
  /\ account' \in [Accounts -> AccountRow \cup {NoRow}]
  /\ \A u \in Accounts : account[u] # NoRow => account'[u] # NoRow
  /\ account[Chief] # NoRow =>
       /\ account'[Chief].active = account[Chief].active
       /\ account'[Chief].email = account[Chief].email

LinksKept ==
  /\ link' \in [Links -> LinkRow \cup {NoRow}]
  /\ \A l \in Links : link[l] # NoRow =>
       /\ link'[l] # NoRow
       /\ link'[l].user = link[l].user
       /\ link[l].used => link'[l].used

LEMMA SameIsKept ==
  ASSUME SessionsTypeOK
  PROVE  /\ UNCHANGED token => TokensKept
         /\ UNCHANGED account => AccountsKept
         /\ UNCHANGED link => LinksKept
BY DEF SessionsTypeOK, TokensKept, AccountsKept, LinksKept

-----------------------------------------------------------------------------
(* One request moves                                                       *)

(* Of the requests in flight a step moves at most one.                     *)
OneMoves(a) ==
  /\ DOMAIN spc' = Askers /\ DOMAIN ask' = Askers
  /\ \A b \in Askers \ {a} : spc'[b] = spc[b] /\ ask'[b] = ask[b]

(* What a row that a step creates may refer to, and that no token is ended *)
(* before it is there.                                                     *)
NewRowsRefer ==
  /\ \A t \in Tokens : token[t] = NoRow /\ token'[t] # NoRow =>
       account'[token'[t].user] # NoRow /\ ~token'[t].ended
  /\ \A l \in Links : link[l] = NoRow /\ link'[l] # NoRow => account'[link'[l].user] # NoRow
  /\ \A l \in mailed' : link'[l] # NoRow

Moved(a) == TokensKept /\ AccountsKept /\ LinksKept /\ NewRowsRefer /\ OneMoves(a)

LEMMA OthersRefer ==
  ASSUME Types, TokensKept, AccountsKept, LinksKept, NEW b \in Askers,
         spc'[b] = spc[b], ask'[b] = ask[b]
  PROVE  Fits(spc'[b], ask'[b]) /\ Refers(b)'
<1>1. Fits(spc[b], ask[b]) /\ Refers(b)
  BY DEF Types, SessionsTypeOK, References
<1>2. spc[b] # "idle" => ask[b].user \in Accounts
  BY <1>1 DEF Fits
<1>3. spc[b] \in {"owner", "rotate", "reuse", "fill"} => ask[b].at \in Tokens
  BY <1>1 DEF Fits
<1>4. spc[b] \in {"mail", "reset"} => ask[b].at \in Links
  BY <1>1 DEF Fits
<1>. QED
  BY <1>1, <1>2, <1>3, <1>4 DEF Refers, TokensKept, AccountsKept, LinksKept

LEMMA OldRowsRefer ==
  ASSUME Types, TokensKept, AccountsKept, LinksKept, NewRowsRefer
  PROVE  /\ \A t \in Tokens : token'[t] # NoRow => account'[token'[t].user] # NoRow
         /\ \A l \in Links : link'[l] # NoRow => account'[link'[l].user] # NoRow
<1>1. \A t \in Tokens : token[t] # NoRow =>
        token[t].user \in Accounts /\ account[token[t].user] # NoRow
  BY DEF Types, SessionsTypeOK, References, TokenRow
<1>2. \A l \in Links : link[l] # NoRow =>
        link[l].user \in Accounts /\ account[link[l].user] # NoRow
  BY DEF Types, SessionsTypeOK, References, LinkRow
<1>. QED
  BY <1>1, <1>2 DEF NewRowsRefer, TokensKept, AccountsKept, LinksKept

LEMMA TypesAgain ==
  ASSUME Types, TokensKept, AccountsKept, LinksKept, NewRowsRefer,
         NEW a \in Askers, OneMoves(a), Fits(spc'[a], ask'[a]), Refers(a)',
         mailed' \subseteq Links, contested' \subseteq Tokens \cup Links,
         swaps' \in [Tokens \cup Links -> Nat]
  PROVE  Types' /\ Moved(a)
<1>. DEFINE fits(x, y) == Fits(x, y)
<1>1. \A b \in Askers \ {a} : fits(spc'[b], ask'[b]) /\ Refers(b)'
  BY OthersRefer DEF OneMoves
<1>2. fits(spc'[a], ask'[a]) /\ Refers(a)'
  OBVIOUS
<1>. HIDE DEF fits
<1>3. \A b \in Askers : fits(spc'[b], ask'[b]) /\ Refers(b)'
  BY <1>1, <1>2
<1>. USE DEF fits
<1>4. SessionsTypeOK'
  BY <1>3 DEF SessionsTypeOK, TokensKept, AccountsKept, LinksKept, OneMoves
<1>5. References'
  BY <1>3, OldRowsRefer DEF References, NewRowsRefer
<1>. QED
  BY <1>4, <1>5 DEF Types, Moved

-----------------------------------------------------------------------------
(* What each step does to the rows, and that the types survive it          *)

LEMMA AtMoves ==
  ASSUME Types, NEW a \in Askers, NEW from, NEW to, NEW what, Fits(to, what), At(a, from, to, what)
  PROVE  OneMoves(a) /\ Fits(spc'[a], ask'[a]) /\ spc[a] = from /\ spc'[a] = to /\ ask'[a] = what
<1>1. SessionsTypeOK
  BY DEF Types
<1>. QED
  BY <1>1, AtEffect DEF OneMoves

LEMMA AnswerMoves ==
  ASSUME Types, NEW a \in Askers, NEW from, Answer(a, from)
  PROVE  OneMoves(a) /\ Fits(spc'[a], ask'[a]) /\ Refers(a)' /\ spc[a] = from /\ spc'[a] = "idle"
<1>1. SessionsTypeOK
  BY DEF Types
<1>2. OneMoves(a) /\ Fits(spc'[a], ask'[a]) /\ spc[a] = from /\ spc'[a] = "idle"
  BY <1>1, AnswerEffect DEF OneMoves
<1>. QED
  BY <1>2 DEF Refers

(* A request that has read only changes nothing but where it stands.       *)
ReadsOnly == UNCHANGED <<account, token, link>> /\ mailed' = mailed

LEMMA ReadsKeep ==
  ASSUME Types, ReadsOnly
  PROVE  TokensKept /\ AccountsKept /\ LinksKept /\ NewRowsRefer
<1>1. SessionsTypeOK /\ References
  BY DEF Types
<1>2. TokensKept /\ AccountsKept /\ LinksKept
  BY <1>1, SameIsKept DEF ReadsOnly
<1>. QED
  BY <1>1, <1>2 DEF NewRowsRefer, ReadsOnly, References

LEMMA ContestTypes ==
  ASSUME SessionsTypeOK, NEW x \in Tokens \cup Links, NEW S, Contest(x, S)
  PROVE  contested' \subseteq Tokens \cup Links
BY DEF Contest, SessionsTypeOK

LEMMA RowTypes ==
  ASSUME SessionsTypeOK
  PROVE  /\ \A t \in Tokens : token[t] # NoRow => token[t] \in TokenRow /\ token[t].user \in Accounts
         /\ \A l \in Links : link[l] # NoRow => link[l] \in LinkRow /\ link[l].user \in Accounts
         /\ \A u \in Accounts : account[u] # NoRow => account[u] \in AccountRow
BY DEF SessionsTypeOK, TokenRow, LinkRow

LEMMA LoginTypes ==
  ASSUME Types, NEW a \in Askers, NEW u \in Accounts, NEW p, LoginBegin(a, u, p)
  PROVE  Types' /\ Moved(a)
<1>. DEFINE r == [user |-> u, at |-> u]
<1>1. Fits("issue", r) /\ r.user = u
  BY DEF Fits
<1>. HIDE DEF r
<1>2. At(a, "idle", "issue", r) /\ Found(u) /\ ReadsOnly /\ UNCHANGED <<swaps, contested>>
  BY DEF r, LoginBegin, ReadsOnly
<1>3. OneMoves(a) /\ Fits(spc'[a], ask'[a]) /\ spc'[a] = "issue" /\ ask'[a] = r
  BY <1>1, <1>2, AtMoves
<1>4. Refers(a)'
  BY <1>1, <1>2, <1>3 DEF Refers, ReadsOnly, Found, Known
<1>. QED
  BY <1>2, <1>3, <1>4, ReadsKeep, TypesAgain DEF Types, SessionsTypeOK, ReadsOnly

LEMMA RefreshBeginTypes ==
  ASSUME Types, NEW a \in Askers, NEW t \in Tokens, RefreshBegin(a, t)
  PROVE  Types' /\ Moved(a)
<1>. DEFINE r == [user |-> token[t].user, at |-> t]
            to == IF token[t].revoked THEN "reuse" ELSE "owner"
<1>1. SessionsTypeOK /\ References
  BY DEF Types
<1>2. token[t] # NoRow /\ token[t].user \in Accounts
  BY <1>1, RowTypes DEF RefreshBegin, Presented
<1>3. Fits(to, r) /\ r.user = token[t].user /\ r.at = t /\ to \in {"reuse", "owner"}
  BY <1>2 DEF Fits
<1>. HIDE DEF r, to
<1>4. At(a, "idle", to, r) /\ ReadsOnly /\ UNCHANGED swaps /\ Contest(t, {"owner", "rotate"})
  BY DEF r, to, RefreshBegin, ReadsOnly
<1>5. OneMoves(a) /\ Fits(spc'[a], ask'[a]) /\ spc'[a] = to /\ ask'[a] = r
  BY <1>3, <1>4, AtMoves
<1>6. Refers(a)'
  BY <1>1, <1>2, <1>3, <1>4, <1>5 DEF Refers, References, ReadsOnly
<1>7. contested' \subseteq Tokens \cup Links
  BY <1>1, <1>4, ContestTypes
<1>. QED
  BY <1>1, <1>4, <1>5, <1>6, <1>7, ReadsKeep, TypesAgain DEF SessionsTypeOK, ReadsOnly

LEMMA ResetBeginTypes ==
  ASSUME Types, NEW a \in Askers, NEW l \in Links, NEW p \in Passwords, ResetBegin(a, l, p)
  PROVE  Types' /\ Moved(a)
<1>. DEFINE r == [user |-> link[l].user, at |-> l, pw |-> p]
<1>1. SessionsTypeOK /\ References
  BY DEF Types
<1>2. link[l] # NoRow /\ link[l].user \in Accounts
  BY <1>1, RowTypes DEF ResetBegin, References
<1>3. Fits("reset", r) /\ r.user = link[l].user /\ r.at = l
  BY <1>2 DEF Fits
<1>. HIDE DEF r
<1>4. At(a, "idle", "reset", r) /\ ReadsOnly /\ UNCHANGED swaps /\ Contest(l, {"reset"})
  BY DEF r, ResetBegin, ReadsOnly
<1>5. OneMoves(a) /\ Fits(spc'[a], ask'[a]) /\ spc'[a] = "reset" /\ ask'[a] = r
  BY <1>3, <1>4, AtMoves
<1>6. Refers(a)'
  BY <1>1, <1>2, <1>3, <1>4, <1>5 DEF Refers, References, ReadsOnly
<1>7. contested' \subseteq Tokens \cup Links
  BY <1>1, <1>4, ContestTypes
<1>. QED
  BY <1>1, <1>4, <1>5, <1>6, <1>7, ReadsKeep, TypesAgain DEF SessionsTypeOK, ReadsOnly

(* Tokens change, and no token is new.                                     *)
LEMMA TokensOnly ==
  ASSUME Types, TokensKept, \A t \in Tokens : token[t] = NoRow => token'[t] = NoRow,
         UNCHANGED <<account, link, mailed>>
  PROVE  AccountsKept /\ LinksKept /\ NewRowsRefer
<1>1. SessionsTypeOK /\ References
  BY DEF Types
<1>. QED
  BY <1>1, SameIsKept DEF NewRowsRefer, References

LEMMA EndSessionsTypes ==
  ASSUME Types, NEW a \in Askers, NEW from, Answer(a, from), EndAll(ask[a].user),
         UNCHANGED <<account, link, mailed, swaps, contested>>
  PROVE  Types' /\ Moved(a)
<1>1. SessionsTypeOK
  BY DEF Types
<1>2. TokensKept /\ \A t \in Tokens : token[t] = NoRow => token'[t] = NoRow
  BY <1>1, EndAllKeeps
<1>. QED
  BY <1>1, <1>2, TokensOnly, AnswerMoves, TypesAgain DEF SessionsTypeOK

LEMMA ReadUserTypes ==
  ASSUME Types, NEW a \in Askers, RefreshReadUser(a)
  PROVE  Types' /\ Moved(a)
<1>1. SessionsTypeOK /\ References /\ ReadsOnly /\ UNCHANGED <<swaps, contested>>
  BY DEF Types, RefreshReadUser, ReadsOnly
<1>2. Fits("rotate", ask[a]) /\ spc[a] = "owner" /\ Refers(a)
  BY <1>1 DEF RefreshReadUser, SessionsTypeOK, Fits, References
<1>3. CASE At(a, "owner", "rotate", ask[a])
  <2>1. OneMoves(a) /\ Fits(spc'[a], ask'[a]) /\ spc'[a] = "rotate" /\ ask'[a] = ask[a]
    BY <1>2, <1>3, AtMoves
  <2>2. Refers(a)'
    BY <1>1, <1>2, <2>1 DEF Refers, ReadsOnly
  <2>. QED
    BY <1>1, <2>1, <2>2, ReadsKeep, TypesAgain DEF SessionsTypeOK, ReadsOnly
<1>4. CASE Answer(a, "owner")
  BY <1>1, <1>4, AnswerMoves, ReadsKeep, TypesAgain DEF SessionsTypeOK, ReadsOnly
<1>. QED
  BY <1>3, <1>4 DEF RefreshReadUser

(* The exchange of a token: it is revoked, and counted.                    *)
LEMMA RotateTypes ==
  ASSUME Types, NEW a \in Askers, RefreshRotate(a)
  PROVE  /\ Types' /\ Moved(a)
         /\ spc[a] = "rotate" /\ spc'[a] = "issue"
         /\ ask[a].at \in Tokens /\ token[ask[a].at] # NoRow /\ token'[ask[a].at].revoked
<1>1. SessionsTypeOK /\ References
  BY DEF Types
<1>2. At(a, "rotate", "issue", ask[a]) /\ spc[a] = "rotate"
  BY DEF RefreshRotate, At
<1>3. ask[a] \in [user : Accounts, at : Tokens] /\ Refers(a) /\ Fits("issue", ask[a])
  BY <1>1, <1>2 DEF SessionsTypeOK, Fits, References
<1>4. ask[a].at \in Tokens /\ token[ask[a].at] # NoRow /\ account[ask[a].user] # NoRow
  BY <1>2, <1>3 DEF Refers
<1>5. token' = Revoked(token, {ask[a].at}) /\ UNCHANGED <<account, link, mailed, contested>>
  BY DEF RefreshRotate
<1>6. /\ TokensKept /\ token'[ask[a].at].revoked
      /\ \A t \in Tokens : token[t] = NoRow => token'[t] = NoRow
  BY <1>1, <1>4, <1>5, RevokedKeeps
<1>7. OneMoves(a) /\ Fits(spc'[a], ask'[a]) /\ spc'[a] = "issue" /\ ask'[a] = ask[a]
  BY <1>2, <1>3, AtMoves
<1>8. Refers(a)'
  BY <1>4, <1>5, <1>7 DEF Refers
<1>9. swaps' \in [Tokens \cup Links -> Nat]
  BY <1>1, <1>4 DEF RefreshRotate, SessionsTypeOK
<1>. QED
  BY <1>1, <1>2, <1>4, <1>5, <1>6, <1>7, <1>8, <1>9, TokensOnly, TypesAgain DEF SessionsTypeOK

LEMMA LogoutTypes ==
  ASSUME Types, NEW a \in Askers, NEW t \in Tokens, Logout(a, t)
  PROVE  Types' /\ Moved(a)
<1>1. SessionsTypeOK
  BY DEF Types
<1>2. TokensKept /\ \A x \in Tokens : token[x] = NoRow => token'[x] = NoRow
  BY <1>1, RevokedKeeps DEF Logout, Presented
<1>. QED
  BY <1>1, <1>2, TokensOnly, AnswerMoves, TypesAgain DEF SessionsTypeOK, Logout

LEMMA PlaceholderTypes ==
  ASSUME Types, NEW a \in Askers, NEW t \in Tokens, IssuePlaceholder(a, t)
  PROVE  Types' /\ Moved(a)
<1>. DEFINE r == [user |-> ask[a].user, at |-> t]
<1>1. SessionsTypeOK /\ References
  BY DEF Types
<1>2. spc[a] = "issue" /\ ask[a].user \in Accounts /\ account[ask[a].user] # NoRow
  BY <1>1 DEF IssuePlaceholder, At, SessionsTypeOK, Fits, References, Refers
<1>3. Fits("fill", r) /\ r.user = ask[a].user /\ r.at = t
  BY <1>2 DEF Fits
<1>. HIDE DEF r
<1>4. At(a, "issue", "fill", r) /\ UNCHANGED <<account, link, mailed, swaps, contested>>
  BY DEF r, IssuePlaceholder
<1>5. /\ TokensKept /\ token'[t] \in TokenRow /\ ~token'[t].ended /\ token'[t].user = ask[a].user
      /\ \A x \in Tokens \ {t} : token'[x] = token[x]
  BY <1>1, PlaceholderKeeps
<1>6. OneMoves(a) /\ Fits(spc'[a], ask'[a]) /\ spc'[a] = "fill" /\ ask'[a] = r
  BY <1>3, <1>4, AtMoves
<1>7. Refers(a)'
  BY <1>2, <1>3, <1>4, <1>5, <1>6, RowsAreRows DEF Refers
<1>8. AccountsKept /\ LinksKept
  BY <1>1, <1>4, SameIsKept
<1>9. NewRowsRefer
  BY <1>1, <1>2, <1>4, <1>5 DEF NewRowsRefer, References
<1>. QED
  BY <1>1, <1>4, <1>5, <1>6, <1>7, <1>8, <1>9, TypesAgain DEF SessionsTypeOK

LEMMA FillTypes ==
  ASSUME Types, NEW a \in Askers, IssueFill(a)
  PROVE  Types' /\ Moved(a)
<1>1. SessionsTypeOK /\ References
  BY DEF Types
<1>2. ask[a].at \in Tokens /\ token[ask[a].at] # NoRow
  BY <1>1 DEF IssueFill, Answer, At, SessionsTypeOK, Fits, References, Refers
<1>3. token' = [token EXCEPT ![ask[a].at].state = "usable"]
  BY DEF IssueFill
<1>4. TokensKept /\ \A x \in Tokens : token[x] = NoRow => token'[x] = NoRow
  BY <1>1, <1>2, <1>3, StateKeeps
<1>. QED
  BY <1>1, <1>4, TokensOnly, AnswerMoves, TypesAgain DEF SessionsTypeOK, IssueFill

LEMMA ForgotTypes ==
  ASSUME Types, NEW a \in Askers, NEW u \in Accounts, NEW l \in Links, ForgotCreate(a, u, l)
  PROVE  Types' /\ Moved(a)
<1>. DEFINE r == [user |-> u, at |-> l]
            row == [state |-> "open", user |-> u, used |-> FALSE]
<1>1. SessionsTypeOK /\ References
  BY DEF Types
<1>2. Fits("mail", r) /\ r.user = u /\ r.at = l /\ row \in LinkRow /\ row.user = u
  BY DEF Fits, LinkRow
<1>3. /\ At(a, "idle", "mail", r) /\ UNCHANGED <<account, token, mailed, swaps, contested>>
      /\ link[l] = NoRow /\ account[u] # NoRow /\ link' = [link EXCEPT ![l] = row]
  BY DEF ForgotCreate, Found, Known
<1>. HIDE DEF r, row
<1>4. OneMoves(a) /\ Fits(spc'[a], ask'[a]) /\ spc'[a] = "mail" /\ ask'[a] = r
  BY <1>2, <1>3, AtMoves
<1>5. link'[l] = row /\ row # NoRow /\ \A x \in Links \ {l} : link'[x] = link[x]
  BY <1>1, <1>2, <1>3, RowsAreRows DEF SessionsTypeOK
<1>6. LinksKept
  BY <1>1, <1>2, <1>3, <1>5 DEF LinksKept, SessionsTypeOK
<1>7. TokensKept /\ AccountsKept
  BY <1>1, <1>3, SameIsKept
<1>8. Refers(a)'
  BY <1>2, <1>3, <1>4, <1>5 DEF Refers
<1>9. NewRowsRefer
  BY <1>1, <1>2, <1>3, <1>5 DEF NewRowsRefer, References, SessionsTypeOK
<1>. QED
  BY <1>1, <1>3, <1>4, <1>6, <1>7, <1>8, <1>9, TypesAgain DEF SessionsTypeOK

LEMMA ForgotMailTypes ==
  ASSUME Types, NEW a \in Askers, ForgotMail(a)
  PROVE  Types' /\ Moved(a)
<1>1. SessionsTypeOK /\ References
  BY DEF Types
<1>2. ask[a].at \in Links /\ link[ask[a].at] # NoRow
  BY <1>1 DEF ForgotMail, Answer, At, SessionsTypeOK, Fits, References, Refers
<1>3. /\ Answer(a, "mail") /\ mailed' = mailed \cup {ask[a].at}
      /\ UNCHANGED <<account, token, link, swaps, contested>>
  BY DEF ForgotMail
<1>4. TokensKept /\ AccountsKept /\ LinksKept
  BY <1>1, <1>3, SameIsKept
<1>5. NewRowsRefer
  BY <1>1, <1>2, <1>3 DEF NewRowsRefer, References
<1>. QED
  BY <1>1, <1>2, <1>3, <1>4, <1>5, AnswerMoves, TypesAgain DEF SessionsTypeOK

(* The new password: the link is used and counted, the sessions end.       *)
LEMMA ResetTypes ==
  ASSUME Types, NEW a \in Askers, ResetCommit(a)
  PROVE  /\ Types' /\ Moved(a)
         /\ spc[a] = "reset" /\ spc'[a] = "idle"
         /\ ask[a].at \in Links /\ link[ask[a].at] # NoRow /\ link'[ask[a].at].used
<1>. DEFINE new(x) == [x EXCEPT !.pw = ask[a].pw]
            use(x) == [x EXCEPT !.used = TRUE]
            u == ask[a].user
            l == ask[a].at
<1>1. SessionsTypeOK /\ References
  BY DEF Types
<1>2. /\ spc[a] = "reset" /\ u \in Accounts /\ l \in Links /\ ask[a].pw \in Passwords
      /\ account[u] # NoRow /\ link[l] # NoRow
  BY <1>1 DEF ResetCommit, Answer, At, SessionsTypeOK, Fits, References, Refers
<1>3. \A x \in AccountRow : /\ new(x) \in AccountRow /\ new(x).active = x.active
                            /\ new(x).email = x.email
  BY <1>2 DEF AccountRow
<1>4. \A x \in LinkRow : use(x) \in LinkRow /\ use(x).used /\ use(x).user = x.user
  BY DEF LinkRow
<1>5. /\ Answer(a, "reset") /\ EndAll(u) /\ UNCHANGED <<mailed, contested>>
      /\ account' = [account EXCEPT ![u] = new(account[u])]
      /\ link' = [link EXCEPT ![l] = use(link[l])]
      /\ swaps' = [swaps EXCEPT ![l] = @ + 1]
  BY <1>1, <1>2 DEF ResetCommit, SessionsTypeOK
<1>. HIDE DEF new, use, u, l
<1>6. account[u] \in AccountRow /\ link[l] \in LinkRow
  BY <1>1, <1>2, RowTypes
<1>7. TokensKept /\ \A t \in Tokens : token[t] = NoRow => token'[t] = NoRow
  BY <1>1, <1>5, EndAllKeeps
<1>8. AccountsKept
  BY <1>1, <1>2, <1>3, <1>5, <1>6, RowsAreRows DEF AccountsKept, SessionsTypeOK
<1>9. LinksKept /\ link'[l].used /\ \A x \in Links : link[x] = NoRow => link'[x] = NoRow
  BY <1>1, <1>2, <1>4, <1>5, <1>6, RowsAreRows DEF LinksKept, SessionsTypeOK
<1>10. NewRowsRefer
  BY <1>1, <1>5, <1>7, <1>9 DEF NewRowsRefer, References, LinksKept, SessionsTypeOK
<1>11. swaps' \in [Tokens \cup Links -> Nat]
  BY <1>1, <1>2, <1>5 DEF SessionsTypeOK
<1>12. Types' /\ Moved(a) /\ spc'[a] = "idle"
  BY <1>1, <1>5, <1>7, <1>8, <1>9, <1>10, <1>11, AnswerMoves, TypesAgain DEF SessionsTypeOK
<1>. QED
  BY <1>2, <1>9, <1>12 DEF l

(* An account is created, blocked, deleted or unblocked: not the owner's.  *)
LEMMA ManagerKeeps ==
  ASSUME SessionsTypeOK, NEW u \in Accounts \ {Chief}, NEW row \in AccountRow,
         account' = [account EXCEPT ![u] = row]
  PROVE  AccountsKept /\ account'[u] # NoRow /\ account'[Chief] = account[Chief]
BY SessionsAssumption, RowsAreRows DEF AccountsKept, SessionsTypeOK

LEMMA AccountsOnly ==
  ASSUME Types, AccountsKept, UNCHANGED <<token, link, mailed>>
  PROVE  TokensKept /\ LinksKept /\ NewRowsRefer
<1>1. SessionsTypeOK /\ References
  BY DEF Types
<1>. QED
  BY <1>1, SameIsKept DEF NewRowsRefer, References

LEMMA CreateManagerTypes ==
  ASSUME Types, NEW a \in Askers, NEW u \in Accounts, CreateManager(a, u)
  PROVE  Types' /\ Moved(a) /\ account'[Chief] = account[Chief]
<1>. DEFINE row == [state |-> "row", active |-> TRUE, email |-> TRUE, pw |-> First]
<1>1. SessionsTypeOK /\ row \in AccountRow
  BY SessionsAssumption DEF Types, AccountRow
<1>2. /\ u # Chief /\ Answer(a, "idle") /\ account' = [account EXCEPT ![u] = row]
      /\ UNCHANGED <<token, link, mailed, swaps, contested>>
  BY DEF CreateManager
<1>. HIDE DEF row
<1>3. AccountsKept /\ account'[Chief] = account[Chief]
  BY <1>1, <1>2, ManagerKeeps
<1>. QED
  BY <1>1, <1>2, <1>3, AccountsOnly, AnswerMoves, TypesAgain DEF SessionsTypeOK

LEMMA UnblockTypes ==
  ASSUME Types, NEW a \in Askers, NEW u \in Accounts, Unblock(a, u)
  PROVE  Types' /\ Moved(a) /\ account'[Chief] = account[Chief]
<1>. DEFINE row == [account[u] EXCEPT !.active = TRUE]
<1>1. SessionsTypeOK /\ account[u] \in AccountRow
  BY RowTypes DEF Types, Unblock, Manageable, Known
<1>2. row \in AccountRow
  BY <1>1 DEF AccountRow
<1>3. /\ u # Chief /\ Answer(a, "idle") /\ account' = [account EXCEPT ![u] = row]
      /\ UNCHANGED <<token, link, mailed, swaps, contested>>
  BY DEF Unblock, Manageable
<1>. HIDE DEF row
<1>4. AccountsKept /\ account'[Chief] = account[Chief]
  BY <1>1, <1>2, <1>3, ManagerKeeps
<1>. QED
  BY <1>1, <1>3, <1>4, AccountsOnly, AnswerMoves, TypesAgain DEF SessionsTypeOK

LEMMA DeactivateTypes ==
  ASSUME Types, NEW a \in Askers, NEW u \in Accounts, NEW deleted \in BOOLEAN,
         Deactivate(a, u, deleted)
  PROVE  Types' /\ Moved(a) /\ account'[Chief] = account[Chief]
<1>. DEFINE row == [account[u] EXCEPT !.active = FALSE, !.email = @ /\ ~deleted]
            r == [user |-> u, at |-> u]
<1>1. SessionsTypeOK /\ References /\ account[u] \in AccountRow
  BY RowTypes DEF Types, Deactivate, Manageable, Known
<1>2. row \in AccountRow /\ Fits("end", r) /\ r.user = u
  BY <1>1 DEF AccountRow, Fits
<1>3. /\ u # Chief /\ At(a, "idle", "end", r)
      /\ UNCHANGED <<token, link, mailed, swaps, contested>>
  BY DEF Deactivate, Manageable
<1>4. account' = [account EXCEPT ![u] = row]
  BY <1>1 DEF Deactivate, SessionsTypeOK
<1>. HIDE DEF row, r
<1>5. AccountsKept /\ account'[Chief] = account[Chief] /\ account'[u] # NoRow
  BY <1>1, <1>2, <1>3, <1>4, ManagerKeeps
<1>6. OneMoves(a) /\ Fits(spc'[a], ask'[a]) /\ spc'[a] = "end" /\ ask'[a] = r
  BY <1>2, <1>3, AtMoves
<1>7. Refers(a)'
  BY <1>2, <1>5, <1>6 DEF Refers
<1>. QED
  BY <1>1, <1>3, <1>5, <1>6, <1>7, AccountsOnly, TypesAgain DEF SessionsTypeOK

-----------------------------------------------------------------------------
(* The invariant                                                           *)

Coins == Tokens \cup Links

(* The request has judged the token or the link and not yet spent it.      *)
Holds(a, x) == spc[a] \in {"owner", "rotate", "reset"} /\ ask[a].at = x

Spent(x) ==
  /\ x \in Tokens => token[x] # NoRow /\ token[x].revoked
  /\ x \in Links => link[x] # NoRow /\ link[x].used

(* Without a contest a token or a link is held by one request at most, as  *)
(* long as it was not spent, and once spent its row says so.               *)
OnceInv ==
  \A x \in Coins \ contested :
    /\ swaps[x] <= 1
    /\ swaps[x] = 1 => Spent(x)
    /\ \A a, b \in Askers : Holds(a, x) => swaps[x] = 0 /\ (Holds(b, x) => a = b)

(* The owner's account comes with the tenant, and stays one that can be    *)
(* found by its email.                                                     *)
ChiefInv ==
  /\ tenants > 0 <=> account[Chief] # NoRow
  /\ account[Chief] # NoRow => account[Chief].active /\ account[Chief].email

SessionsInv == Types /\ BootInv /\ ChiefInv /\ EndedStaysEnded /\ OnceInv

LEMMA SessionsInitInv == SessionsInit => SessionsInv
<1>1. SessionsInit => BootInit
  BY DEF SessionsInit
<1>2. SessionsInit => ChiefInv
  BY SessionsAssumption DEF SessionsInit, BootInit, ChiefInv
<1>3. SessionsInit => EndedStaysEnded /\ OnceInv
  BY DEF SessionsInit, EndedStaysEnded, OnceInv, Coins, Holds
<1>. QED
  BY <1>1, <1>2, <1>3, BootInitInv, SessionsInitTypes DEF SessionsInv

-----------------------------------------------------------------------------
(* Its parts survive each step                                             *)

LEMMA SpentStays ==
  ASSUME TokensKept, LinksKept, NEW x \in Coins, Spent(x)
  PROVE  Spent(x)'
BY DEF TokensKept, LinksKept, Spent, Coins

LEMMA EndedKept ==
  ASSUME EndedStaysEnded, TokensKept, NewRowsRefer
  PROVE  EndedStaysEnded'
BY DEF EndedStaysEnded, TokensKept, NewRowsRefer

(* A request that comes to hold nothing new leaves the count as it is.     *)
LEMMA OnceKept ==
  ASSUME OnceInv, NEW a \in Askers, Moved(a), contested \subseteq contested', UNCHANGED swaps,
         \A x : Holds(a, x)' => Holds(a, x)
  PROVE  OnceInv'
<1>1. \A b \in Askers : \A x : Holds(b, x)' => Holds(b, x)
  BY DEF Moved, OneMoves, Holds
<1>. QED
  BY <1>1, SpentStays DEF OnceInv, Moved

(* One that comes to hold x alone, or marks it contested, does neither.    *)
LEMMA OnceTaken ==
  ASSUME OnceInv, NEW a \in Askers, Moved(a), NEW x \in Coins, UNCHANGED swaps,
         swaps[x] \in Nat, ~Spent(x),
         \A y : Holds(a, y)' => y = x,
         contested' = IF \E g \in Askers : Holds(g, x) THEN contested \cup {x} ELSE contested
  PROVE  OnceInv'
<1>1. \A b \in Askers \ {a} : \A y : Holds(b, y)' => Holds(b, y)
  BY DEF Moved, OneMoves, Holds
<1>. SUFFICES ASSUME NEW y \in Coins \ contested'
              PROVE  /\ swaps'[y] <= 1
                     /\ swaps'[y] = 1 => Spent(y)'
                     /\ \A c, b \in Askers :
                          Holds(c, y)' => swaps'[y] = 0 /\ (Holds(b, y)' => c = b)
  BY DEF OnceInv, Coins
<1>2. CASE y # x
  <2>1. \A b \in Askers : Holds(b, y)' => Holds(b, y)
    BY <1>1, <1>2
  <2>. QED
    BY <1>2, <2>1, SpentStays DEF OnceInv, Moved
<1>3. CASE y = x
  <2>1. \A g \in Askers : ~Holds(g, x)
    BY <1>3
  <2>2. swaps[x] = 0
    BY <1>3 DEF OnceInv
  <2>. QED
    BY <1>1, <1>3, <2>1, <2>2
<1>. QED
  BY <1>2, <1>3

(* One that spends what it holds marks it spent.                           *)
LEMMA OnceSpent ==
  ASSUME OnceInv, NEW a \in Askers, Moved(a), NEW x \in Coins, UNCHANGED contested,
         swaps \in [Coins -> Nat], swaps' = [swaps EXCEPT ![x] = @ + 1],
         Holds(a, x), Spent(x)', \A y : ~Holds(a, y)'
  PROVE  OnceInv'
<1>1. \A b \in Askers : \A y : Holds(b, y)' => b # a /\ Holds(b, y)
  BY DEF Moved, OneMoves, Holds
<1>. SUFFICES ASSUME NEW y \in Coins \ contested
              PROVE  /\ swaps'[y] <= 1
                     /\ swaps'[y] = 1 => Spent(y)'
                     /\ \A c, b \in Askers :
                          Holds(c, y)' => swaps'[y] = 0 /\ (Holds(b, y)' => c = b)
  BY DEF OnceInv, Coins
<1>2. CASE y # x
  <2>1. swaps'[y] = swaps[y]
    BY <1>2
  <2>. QED
    BY <1>1, <2>1, SpentStays DEF OnceInv, Moved
<1>3. CASE y = x
  <2>1. swaps[x] = 0 /\ \A b \in Askers : Holds(b, x) => b = a
    BY <1>3 DEF OnceInv
  <2>2. swaps'[x] = 1
    BY <2>1
  <2>. QED
    BY <1>1, <1>3, <2>1, <2>2
<1>. QED
  BY <1>2, <1>3

-----------------------------------------------------------------------------
(* Every step preserves the invariant                                      *)

LEMMA HeldIsThere ==
  ASSUME SessionsTypeOK, NEW g \in Askers
  PROVE  /\ spc[g] \in {"owner", "rotate"} => ask[g].at \in Tokens \ Links
         /\ spc[g] = "reset" => ask[g].at \in Links \ Tokens
BY SessionsAssumption DEF SessionsTypeOK, Fits

(* The owner's account is as it was, and so is the container.              *)
LEMMA ChiefKept ==
  ASSUME Types, ChiefInv, AccountsKept, UNCHANGED bootVars,
         account[Chief] = NoRow => account'[Chief] = NoRow
  PROVE  ChiefInv'
BY SessionsAssumption DEF ChiefInv, AccountsKept, bootVars

(* What is left to show of a step of one request.                          *)
LEMMA RequestStep ==
  ASSUME SessionsInv, NEW a \in Askers, Types', Moved(a), UNCHANGED bootVars,
         account[Chief] = NoRow => account'[Chief] = NoRow, OnceInv'
  PROVE  SessionsInv'
<1>1. BootInv'
  BY BootNextInv DEF SessionsInv
<1>2. ChiefInv' /\ EndedStaysEnded'
  BY ChiefKept, EndedKept DEF SessionsInv, Moved
<1>. QED
  BY <1>1, <1>2 DEF SessionsInv

(* A step that touches neither owner nor history, and takes hold of        *)
(* nothing.                                                                *)
LEMMA PlainStep ==
  ASSUME SessionsInv, NEW a \in Askers, Types', Moved(a), UNCHANGED <<bootVars, swaps, contested>>,
         account[Chief] = NoRow => account'[Chief] = NoRow,
         spc'[a] \in {"idle", "issue", "end", "fill", "mail"}
  PROVE  SessionsInv'
<1>1. \A x : Holds(a, x)' => Holds(a, x)
  BY DEF Holds
<1>2. OnceInv'
  BY <1>1, OnceKept DEF SessionsInv
<1>. QED
  BY <1>2, RequestStep

LEMMA AtTo ==
  ASSUME SessionsInv, NEW a \in Askers, NEW from, NEW to, NEW what, At(a, from, to, what)
  PROVE  spc[a] = from /\ spc'[a] = to /\ ask'[a] = what /\ UNCHANGED bootVars
BY DEF At, SessionsInv, Types, SessionsTypeOK

LEMMA BeginInv ==
  ASSUME SessionsInv, NEW a \in Askers, Asks(a)
  PROVE  SessionsInv'
<1>. USE DEF Answer
<1>0. Types
  BY DEF SessionsInv
<1>1. ASSUME NEW u \in Accounts, NEW p \in Passwords, LoginBegin(a, u, p)
      PROVE  SessionsInv'
  <2>1. Types' /\ Moved(a)
    BY <1>0, <1>1, LoginTypes
  <2>2. spc'[a] = "issue" /\ UNCHANGED <<bootVars, account, swaps, contested>>
    BY <1>1, AtTo DEF LoginBegin
  <2>. QED
    BY <2>1, <2>2, PlainStep
<1>2. ASSUME NEW t \in Tokens, RefreshBegin(a, t)
      PROVE  SessionsInv'
  <2>1. Types' /\ Moved(a)
    BY <1>0, <1>2, RefreshBeginTypes
  <2>2. /\ spc'[a] = IF token[t].revoked THEN "reuse" ELSE "owner"
        /\ ask'[a].at = t
        /\ UNCHANGED <<bootVars, account, swaps>>
    BY <1>2, AtTo DEF RefreshBegin
  <2>3. contested \subseteq contested'
    BY <1>2 DEF RefreshBegin, Contest
  <2>4. CASE token[t].revoked
    <3>1. \A x : Holds(a, x)' => Holds(a, x)
      BY <2>2, <2>4 DEF Holds
    <3>2. OnceInv'
      BY <2>1, <2>2, <2>3, <3>1, OnceKept DEF SessionsInv
    <3>. QED
      BY <2>1, <2>2, <3>2, RequestStep
  <2>5. CASE ~token[t].revoked
    <3>1. \A y : Holds(a, y)' => y = t
      BY <2>2 DEF Holds
    <3>2. \A g \in Askers : Holds(g, t) <=> spc[g] \in {"owner", "rotate"} /\ ask[g].at = t
      BY <1>0, HeldIsThere DEF Holds, Types
    <3>3. contested' = IF \E g \in Askers : Holds(g, t) THEN contested \cup {t} ELSE contested
      BY <1>2, <3>2 DEF RefreshBegin, Contest
    <3>4. t \in Coins /\ swaps[t] \in Nat /\ ~Spent(t)
      BY <1>0, <2>5 DEF Coins, Spent, Types, SessionsTypeOK
    <3>5. OnceInv'
      BY <2>1, <2>2, <3>1, <3>3, <3>4, OnceTaken DEF SessionsInv
    <3>. QED
      BY <2>1, <2>2, <3>5, RequestStep
  <2>. QED
    BY <2>4, <2>5
<1>3. ASSUME NEW t \in Tokens, Logout(a, t)
      PROVE  SessionsInv'
  <2>1. Types' /\ Moved(a)
    BY <1>0, <1>3, LogoutTypes
  <2>2. spc'[a] = "idle" /\ UNCHANGED <<bootVars, account, swaps, contested>>
    BY <1>3, AtTo DEF Logout
  <2>. QED
    BY <2>1, <2>2, PlainStep
<1>4. ASSUME NEW u \in Accounts, NEW l \in Links, ForgotCreate(a, u, l)
      PROVE  SessionsInv'
  <2>1. Types' /\ Moved(a)
    BY <1>0, <1>4, ForgotTypes
  <2>2. spc'[a] = "mail" /\ UNCHANGED <<bootVars, account, swaps, contested>>
    BY <1>4, AtTo DEF ForgotCreate
  <2>. QED
    BY <2>1, <2>2, PlainStep
<1>5. ASSUME NEW l \in Links, NEW p \in Passwords, ResetBegin(a, l, p)
      PROVE  SessionsInv'
  <2>1. Types' /\ Moved(a)
    BY <1>0, <1>5, ResetBeginTypes
  <2>2. /\ spc'[a] = "reset" /\ ask'[a].at = l
        /\ UNCHANGED <<bootVars, account, swaps>>
    BY <1>5, AtTo DEF ResetBegin
  <2>3. \A y : Holds(a, y)' => y = l
    BY <2>2 DEF Holds
  <2>4. \A g \in Askers : Holds(g, l) <=> spc[g] \in {"reset"} /\ ask[g].at = l
    BY <1>0, HeldIsThere DEF Holds, Types
  <2>5. contested' = IF \E g \in Askers : Holds(g, l) THEN contested \cup {l} ELSE contested
    BY <1>5, <2>4 DEF ResetBegin, Contest
  <2>6. l \in Coins /\ swaps[l] \in Nat /\ ~Spent(l)
    BY <1>0, <1>5 DEF ResetBegin, Coins, Spent, Types, SessionsTypeOK
  <2>7. OnceInv'
    BY <2>1, <2>2, <2>3, <2>5, <2>6, OnceTaken DEF SessionsInv
  <2>. QED
    BY <2>1, <2>2, <2>7, RequestStep
<1>6. ASSUME NEW u \in Accounts, CreateManager(a, u)
      PROVE  SessionsInv'
  <2>1. Types' /\ Moved(a) /\ account'[Chief] = account[Chief]
    BY <1>0, <1>6, CreateManagerTypes
  <2>2. spc'[a] = "idle" /\ UNCHANGED <<bootVars, swaps, contested>>
    BY <1>6, AtTo DEF CreateManager
  <2>. QED
    BY <2>1, <2>2, PlainStep
<1>7. ASSUME NEW u \in Accounts, Unblock(a, u)
      PROVE  SessionsInv'
  <2>1. Types' /\ Moved(a) /\ account'[Chief] = account[Chief]
    BY <1>0, <1>7, UnblockTypes
  <2>2. spc'[a] = "idle" /\ UNCHANGED <<bootVars, swaps, contested>>
    BY <1>7, AtTo DEF Unblock
  <2>. QED
    BY <2>1, <2>2, PlainStep
<1>8. ASSUME NEW u \in Accounts, NEW deleted \in BOOLEAN, Deactivate(a, u, deleted)
      PROVE  SessionsInv'
  <2>1. Types' /\ Moved(a) /\ account'[Chief] = account[Chief]
    BY <1>0, <1>8, DeactivateTypes
  <2>2. spc'[a] = "end" /\ UNCHANGED <<bootVars, swaps, contested>>
    BY <1>8, AtTo DEF Deactivate
  <2>. QED
    BY <2>1, <2>2, PlainStep
<1>. QED
  BY <1>1, <1>2, <1>3, <1>4, <1>5, <1>6, <1>7, <1>8 DEF Asks

LEMMA ProceedInv ==
  ASSUME SessionsInv, NEW a \in Askers, Proceeds(a)
  PROVE  SessionsInv'
<1>. USE DEF Answer
<1>0. Types
  BY DEF SessionsInv
<1>1. CASE RefreshReuse(a)
  <2>1. Types' /\ Moved(a)
    BY <1>0, <1>1, EndSessionsTypes DEF RefreshReuse
  <2>2. spc'[a] = "idle" /\ UNCHANGED <<bootVars, account, swaps, contested>>
    BY <1>1, AtTo DEF RefreshReuse
  <2>. QED
    BY <2>1, <2>2, PlainStep
<1>2. CASE RefreshReadUser(a)
  <2>1. Types' /\ Moved(a)
    BY <1>0, <1>2, ReadUserTypes
  <2>2. /\ spc[a] = "owner" /\ UNCHANGED <<bootVars, account, swaps, contested>>
        /\ spc'[a] = "idle" \/ (spc'[a] = "rotate" /\ ask'[a] = ask[a])
    BY <1>2, AtTo DEF RefreshReadUser
  <2>3. \A x : Holds(a, x)' => Holds(a, x)
    BY <2>2 DEF Holds
  <2>4. OnceInv'
    BY <2>1, <2>2, <2>3, OnceKept DEF SessionsInv
  <2>. QED
    BY <2>1, <2>2, <2>4, RequestStep
<1>3. CASE RefreshRotate(a)
  <2>1. /\ Types' /\ Moved(a) /\ spc[a] = "rotate" /\ spc'[a] = "issue"
        /\ ask[a].at \in Tokens /\ token[ask[a].at] # NoRow /\ token'[ask[a].at].revoked
    BY <1>0, <1>3, RotateTypes
  <2>2. /\ UNCHANGED <<bootVars, account, contested>>
        /\ swaps' = [swaps EXCEPT ![ask[a].at] = @ + 1]
    BY <1>3, AtTo DEF RefreshRotate
  <2>3. PICK x : x = ask[a].at
    OBVIOUS
  <2>4. Spent(x)'
    BY <2>1, <2>3, SessionsAssumption DEF Spent, Moved, TokensKept
  <2>5. Holds(a, x) /\ \A y : ~Holds(a, y)'
    BY <2>1, <2>3 DEF Holds
  <2>c. swaps \in [Coins -> Nat] /\ x \in Coins
    BY <1>0, <2>1, <2>3 DEF Types, SessionsTypeOK, Coins
  <2>6. OnceInv'
    BY <2>1, <2>2, <2>3, <2>4, <2>5, <2>c, OnceSpent DEF SessionsInv
  <2>. QED
    BY <2>1, <2>2, <2>6, RequestStep
<1>4. ASSUME NEW t \in Tokens, IssuePlaceholder(a, t)
      PROVE  SessionsInv'
  <2>1. Types' /\ Moved(a)
    BY <1>0, <1>4, PlaceholderTypes
  <2>2. spc'[a] = "fill" /\ UNCHANGED <<bootVars, account, swaps, contested>>
    BY <1>4, AtTo DEF IssuePlaceholder
  <2>. QED
    BY <2>1, <2>2, PlainStep
<1>5. CASE IssueFill(a)
  <2>1. Types' /\ Moved(a)
    BY <1>0, <1>5, FillTypes
  <2>2. spc'[a] = "idle" /\ UNCHANGED <<bootVars, account, swaps, contested>>
    BY <1>5, AtTo DEF IssueFill
  <2>. QED
    BY <2>1, <2>2, PlainStep
<1>6. CASE ForgotMail(a)
  <2>1. Types' /\ Moved(a)
    BY <1>0, <1>6, ForgotMailTypes
  <2>2. spc'[a] = "idle" /\ UNCHANGED <<bootVars, account, swaps, contested>>
    BY <1>6, AtTo DEF ForgotMail
  <2>. QED
    BY <2>1, <2>2, PlainStep
<1>7. CASE ResetCommit(a)
  <2>1. /\ Types' /\ Moved(a) /\ spc[a] = "reset" /\ spc'[a] = "idle"
        /\ ask[a].at \in Links /\ link[ask[a].at] # NoRow /\ link'[ask[a].at].used
    BY <1>0, <1>7, ResetTypes
  <2>2. /\ UNCHANGED <<bootVars, contested>>
        /\ swaps' = [swaps EXCEPT ![ask[a].at] = @ + 1]
    BY <1>7, AtTo DEF ResetCommit
  <2>3. PICK x : x = ask[a].at
    OBVIOUS
  <2>4. Spent(x)'
    BY <2>1, <2>3, SessionsAssumption DEF Spent, Moved, LinksKept
  <2>5. Holds(a, x) /\ \A y : ~Holds(a, y)'
    BY <2>1, <2>3 DEF Holds
  <2>c. swaps \in [Coins -> Nat] /\ x \in Coins
    BY <1>0, <2>1, <2>3 DEF Types, SessionsTypeOK, Coins
  <2>6. OnceInv'
    BY <2>1, <2>2, <2>3, <2>4, <2>5, <2>c, OnceSpent DEF SessionsInv
  <2>7. account[Chief] = NoRow => account'[Chief] = NoRow
    <3>1. ask[a].user \in Accounts /\ account[ask[a].user] # NoRow
      BY <1>0, <2>1 DEF Types, SessionsTypeOK, References, Refers, Fits
    <3>. QED
      BY <1>0, <1>7, <3>1 DEF ResetCommit, Types, SessionsTypeOK
  <2>. QED
    BY <2>1, <2>2, <2>6, <2>7, RequestStep
<1>8. CASE RevokeAll(a)
  <2>1. Types' /\ Moved(a)
    BY <1>0, <1>8, EndSessionsTypes DEF RevokeAll
  <2>2. spc'[a] = "idle" /\ UNCHANGED <<bootVars, account, swaps, contested>>
    BY <1>8, AtTo DEF RevokeAll
  <2>. QED
    BY <2>1, <2>2, PlainStep
<1>. QED
  BY <1>1, <1>2, <1>3, <1>4, <1>5, <1>6, <1>7, <1>8 DEF Proceeds

(* Time and the container move no request, or end all of them.             *)
RestMoves ==
  \/ UNCHANGED <<spc, ask>>
  \/ spc' = [a \in Askers |-> "idle"] /\ ask' = [a \in Askers |-> NoAsk]

LEMMA RestStep ==
  ASSUME SessionsInv, TokensKept, AccountsKept, LinksKept, NewRowsRefer, RestMoves,
         UNCHANGED <<mailed, swaps, contested>>, ChiefInv', BootInv'
  PROVE  SessionsInv'
<1>. DEFINE fits(x, y) == Fits(x, y)
<1>1. Types
  BY DEF SessionsInv
<1>2. \A a \in Askers : fits(spc'[a], ask'[a]) /\ Refers(a)'
  <2>1. CASE UNCHANGED <<spc, ask>>
    BY <1>1, <2>1, OthersRefer
  <2>2. CASE spc' = [a \in Askers |-> "idle"] /\ ask' = [a \in Askers |-> NoAsk]
    BY <2>2 DEF Fits, Refers
  <2>. QED
    BY <2>1, <2>2 DEF RestMoves
<1>. HIDE DEF fits
<1>3. DOMAIN spc' = Askers /\ DOMAIN ask' = Askers
  BY <1>1 DEF RestMoves, Types, SessionsTypeOK
<1>4. SessionsTypeOK'
  BY <1>1, <1>2, <1>3 DEF fits, Types, SessionsTypeOK, TokensKept, AccountsKept, LinksKept
<1>5. References'
  BY <1>1, <1>2, OldRowsRefer DEF References, NewRowsRefer
<1>6. EndedStaysEnded'
  BY EndedKept DEF SessionsInv
<1>7. \A b \in Askers : \A x : Holds(b, x)' => Holds(b, x)
  BY DEF RestMoves, Holds
<1>8. OnceInv'
  BY <1>7, SpentStays DEF OnceInv, SessionsInv
<1>. QED
  BY <1>4, <1>5, <1>6, <1>8 DEF SessionsInv, Types

LEMMA ExpireInv ==
  ASSUME SessionsInv, Expire
  PROVE  SessionsInv'
<1>1. SessionsTypeOK /\ References
  BY DEF SessionsInv, Types
<1>2. UNCHANGED <<account, mailed, swaps, contested, bootVars, spc, ask>>
  BY DEF Expire
<1>3. BootInv' /\ ChiefInv'
  BY <1>2, BootNextInv DEF SessionsInv, ChiefInv, bootVars
<1>4. ASSUME NEW t \in Tokens, token[t] # NoRow, UNCHANGED link,
             token' = [token EXCEPT ![t].state = "expired"]
      PROVE  SessionsInv'
  <2>1. TokensKept /\ \A x \in Tokens : token[x] = NoRow => token'[x] = NoRow
    BY <1>1, <1>4, StateKeeps
  <2>2. AccountsKept /\ LinksKept /\ NewRowsRefer
    BY <1>2, <1>4, <2>1, TokensOnly DEF SessionsInv
  <2>. QED
    BY <1>2, <1>3, <2>1, <2>2, RestStep DEF RestMoves
<1>5. ASSUME NEW l \in Links, link[l] # NoRow, UNCHANGED token,
             link' = [link EXCEPT ![l].state = "expired"]
      PROVE  SessionsInv'
  <2>. DEFINE y == [link[l] EXCEPT !.state = "expired"]
  <2>1. link[l] \in LinkRow
    BY <1>1, <1>5, RowTypes
  <2>2. y \in LinkRow /\ y.user = link[l].user /\ y.used = link[l].used
    BY <2>1 DEF LinkRow
  <2>3. link' = [link EXCEPT ![l] = y]
    BY <1>1, <1>5 DEF SessionsTypeOK
  <2>. HIDE DEF y
  <2>4. LinksKept /\ \A x \in Links : link[x] = NoRow => link'[x] = NoRow
    BY <1>1, <1>5, <2>2, <2>3, RowsAreRows DEF LinksKept, SessionsTypeOK
  <2>5. TokensKept /\ AccountsKept
    BY <1>1, <1>2, <1>5, SameIsKept
  <2>6. NewRowsRefer
    BY <1>1, <1>2, <1>5, <2>4 DEF NewRowsRefer, References, LinksKept, SessionsTypeOK
  <2>. QED
    BY <1>2, <1>3, <2>4, <2>5, <2>6, RestStep DEF RestMoves
<1>. QED
  BY <1>4, <1>5 DEF Expire

(* The owner's row is written when the tenant is, and only then: SeededOnce *)
(* makes it the first.                                                     *)
LEMMA InstallInv ==
  ASSUME SessionsInv, Install
  PROVE  SessionsInv'
<1>. DEFINE row == [state |-> "row", active |-> TRUE, email |-> TRUE, pw |-> First]
<1>1. SessionsTypeOK /\ References /\ BootInv /\ ChiefInv
  BY DEF SessionsInv, Types
<1>2. BootNext /\ UNCHANGED <<token, link, mailed, swaps, contested>> /\ RestMoves
  BY DEF Install, RestMoves
<1>3. BootInv' /\ tenants' \in {tenants, tenants + 1} /\ tenants \in Nat
  <2>1. BootInv'
    BY <1>1, <1>2, BootNextInv
  <2>2. tenants' \in {tenants, tenants + 1}
    BY <1>2 DEF BootNext, BootStep, StartContainer, SeedRead, SeedCreate, SeedMailSent,
                SeedMailFails, StartServer, Crash, EditEnv
  <2>. QED
    BY <1>1, <2>1, <2>2 DEF BootInv, BootTypeOK
<1>4. row \in AccountRow /\ row.active /\ row.email
  BY SessionsAssumption DEF AccountRow
<1>5. CASE tenants' > tenants
  <2>1. tenants = 0 /\ account[Chief] = NoRow
    BY <1>1, <1>3, <1>5 DEF BootInv, SeededOnce, ChiefInv
  <2>2. account' = [account EXCEPT ![Chief] = row]
    BY <1>5 DEF Install
  <2>. HIDE DEF row
  <2>3. AccountsKept /\ account'[Chief] = row
    BY <1>1, <1>4, <2>1, <2>2, RowsAreRows, SessionsAssumption DEF AccountsKept, SessionsTypeOK
  <2>4. ChiefInv'
    BY <1>3, <1>4, <1>5, <2>1, <2>3, RowsAreRows DEF ChiefInv
  <2>5. TokensKept /\ LinksKept /\ NewRowsRefer
    BY <1>2, <2>3, AccountsOnly DEF SessionsInv
  <2>. QED
    BY <1>2, <1>3, <2>3, <2>4, <2>5, RestStep
<1>6. CASE ~(tenants' > tenants)
  <2>1. account' = account /\ tenants' = tenants
    BY <1>3, <1>6 DEF Install
  <2>2. AccountsKept /\ ChiefInv'
    BY <1>1, <2>1, SameIsKept DEF ChiefInv
  <2>3. TokensKept /\ LinksKept /\ NewRowsRefer
    BY <1>2, <2>2, AccountsOnly DEF SessionsInv
  <2>. QED
    BY <1>2, <1>3, <2>2, <2>3, RestStep
<1>. QED
  BY <1>5, <1>6

LEMMA SessionsNextInv == SessionsInv /\ [SessionsNext]_allVars => SessionsInv'
<1>1. SessionsInv /\ SessionsNext => SessionsInv'
  BY InstallInv, ExpireInv, BeginInv, ProceedInv DEF SessionsNext
<1>2. SessionsInv /\ UNCHANGED allVars => SessionsInv'
  BY DEF allVars, SessionsInv, Types, SessionsTypeOK, References, Refers, BootInv, BootTypeOK,
         SeedInv, SeededOnce, ChiefInv, EndedStaysEnded, OnceInv, Holds, Spent
<1>. QED
  BY <1>1, <1>2

(* No row ever changes its kind, and none refers to a row that is not      *)
(* there: a request finds what it read last.                               *)
THEOREM RowsReferToRows == SessionsSpec => []Types
<1>1. SessionsInv => Types
  BY DEF SessionsInv
<1>. QED
  BY <1>1, SessionsInitInv, SessionsNextInv, PTL DEF SessionsSpec

(* Any number of requests: what ended every session of a user leaves none  *)
(* usable, and a refresh token or a reset link that two requests were not  *)
(* at together buys one pair or one password.                              *)
THEOREM SessionsEndForGood == SessionsSpec => []SessionsHold
<1>1. SessionsInv => SessionsHold
  BY DEF SessionsInv, SessionsHold, UsedOnce, OnceInv, Coins, Types, SessionsTypeOK
<1>. QED
  BY <1>1, SessionsInitInv, SessionsNextInv, PTL DEF SessionsSpec

(* Whenever the server answers, the one owner there is can be found by     *)
(* email to reset the password.                                            *)
THEOREM OwnerIsKept == SessionsSpec => []OwnerKept
<1>1. SessionsInv => OwnerKept
  BY SessionsAssumption DEF SessionsInv, BootInv, OwnerKept, OwnerCanReturn, SeededOnce, ChiefInv,
                            Found, Known
<1>. QED
  BY <1>1, SessionsInitInv, SessionsNextInv, PTL DEF SessionsSpec

=============================================================================
