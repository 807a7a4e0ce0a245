---------------------------- MODULE MCPlatform ----------------------------
(* Small instances of Sessions, Requests and Digest for TLC.  A behaviour  *)
(* is about one of them, and the others stay as they start.                *)
EXTENDS Sessions, Requests, Digest, TLC

CONSTANTS chief, m1,                                   \* Sessions
          c1, c2, A, B, oa, ma, na, ob, ra, rb, none,  \* Requests
          C                                            \* Digest

VARIABLE part

-----------------------------------------------------------------------------
(* Sessions: the container comes up under any .env, and dies once; then    *)
(* two requests at a time, about sessions and accounts, or about sessions  *)
(* that refresh while a password is reset.                                 *)

Full == [email |-> TRUE, password |-> FALSE, smtp |-> TRUE, rest |-> TRUE]
Coming == spc = [a \in Askers |-> "idle"] /\ account[m1] = NoRow
Refreshing == \A l \in Links : link[l] = NoRow
Resetting == /\ \A t \in Tokens : swaps[t] <= 1 - crashes
             /\ \A a \in Askers : spc[a] \notin {"reuse", "end"}
             /\ account[m1] # NoRow => account[m1].active
Running == /\ env = Full /\ secret = "owner"
           /\ \A a \in Askers : ask[a].user = chief => spc[a] = "end"
           /\ Refreshing \/ Resetting

SessionsPart == /\ part = "sessions"
                /\ SessionsNext /\ (Coming \/ Running)'
                /\ UNCHANGED <<part, requestVars, digestVars>>

-----------------------------------------------------------------------------
(* Requests: any request of tenant A's owner or of one of its managers,    *)
(* with a job of tenant B or an assignment of leads on the way.            *)

MCTenantOf == oa :> A @@ ma :> A @@ na :> A @@ ob :> B
MCRoleOf == oa :> "OWNER" @@ ma :> "MANAGER" @@ na :> "MANAGER" @@ ob :> "OWNER"
MCRowTenant == ra :> A @@ rb :> B
MCHolder == ra :> na @@ rb :> ob

TwoAtATime ==
  /\ req[c1].user \in {none, oa, ma} /\ req[c1].job = none
  /\ \/ req[c2].user = none /\ req[c2].job \in {none, B}
     \/ req[c2].user = oa /\ Routes[req[c2].route].path = <<"leads", ":", "assign">>
  /\ \A u \in Users : active[u] \/ u = ma

RequestsPart == /\ part = "requests"
                /\ RequestsNext /\ TwoAtATime'
                /\ UNCHANGED <<part, allVars, digestVars>>

-----------------------------------------------------------------------------
(* Digest: three tenants, one of them without an owner, with a lead of the *)
(* day of the digest or of the day before; the owners read it afterwards.  *)

MCOwnersOf == A :> {oa, na} @@ B :> {ob} @@ C :> {}

DigestPart == /\ part = "digest"
              /\ DigestNext /\ ((\E i \in DOMAIN inbox : inbox[i].read) => job = NoJob /\ Len(inbox) <= 3)'
              /\ UNCHANGED <<part, allVars, requestVars>>

-----------------------------------------------------------------------------

PlatformInit ==
  /\ part \in {"sessions", "requests", "digest"}
  /\ SessionsInit /\ RequestsInit /\ DigestInit
  /\ part # "sessions" => env = Full

PlatformSpec ==
  /\ PlatformInit
  /\ [][SessionsPart \/ RequestsPart \/ DigestPart]_<<part, allVars, requestVars, digestVars>>
  /\ BootFairness

=============================================================================
