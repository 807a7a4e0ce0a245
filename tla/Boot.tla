-------------------------------- MODULE Boot --------------------------------
(***************************************************************************)
(* How an installation comes up: the container runs prisma/seed.ts, which  *)
(* creates the tenant and its owner once and mails a generated password,   *)
(* then the server, which first validates its environment.  The container  *)
(* restarts whenever a step of it fails or it dies.                        *)
(***************************************************************************)
EXTENDS Integers

CONSTANT MaxCrashes    \* bound on deaths of the container

ASSUME BootAssumption == MaxCrashes \in Nat

VARIABLES
  boot,       \* where the container stands
  env,        \* the .env file: which groups of variables are set
  tenants,    \* committed Tenant rows, each with its owner
  secret,     \* who has the owner's first password
  crashes

bootVars == <<boot, env, tenants, secret, crashes>>

(* ADMIN_EMAIL; ADMIN_INITIAL_PASSWORD; SMTP_HOST, SMTP_PORT and MAIL_FROM; *)
(* the rest of what the server needs (database, Redis, JWT secrets).       *)
Environments == [email : BOOLEAN, password : BOOLEAN, smtp : BOOLEAN, rest : BOOLEAN]

(* A blank variable counts as missing, and a missing optional one is fine. *)
ValidEnv(e) == e.email /\ e.smtp /\ e.rest

BootMove(from, to) == boot = from /\ boot' = to

-----------------------------------------------------------------------------
(* The steps                                                               *)

BootInit ==
  /\ boot = "down"
  /\ env \in Environments
  /\ tenants = 0
  /\ secret = "nobody"
  /\ crashes = 0

(* The operator edits .env and recreates the container.                    *)
EditEnv(e) ==
  /\ boot = "down"
  /\ env' = e
  /\ UNCHANGED <<boot, tenants, secret, crashes>>

StartContainer == BootMove("down", "seed") /\ UNCHANGED <<env, tenants, secret, crashes>>

Mut_SeedReadAlways ==
  /\ BootMove("seed", IF env.email THEN "create" ELSE "down")
  /\ UNCHANGED <<env, tenants, secret, crashes>>

(* main of the seed: nothing to do when there is a tenant; without         *)
(* ADMIN_EMAIL the script fails and the server is not started.             *)
SeedRead ==
  /\ BootMove("seed", IF tenants > 0 THEN "start" ELSE IF env.email THEN "create" ELSE "down")
  /\ UNCHANGED <<env, tenants, secret, crashes>>

(* Tenant and owner in one transaction.                                    *)
SeedCreate ==
  /\ BootMove("create", IF env.password THEN "start" ELSE "mail")
  /\ tenants' = tenants + 1
  /\ secret' = IF env.password THEN "operator" ELSE "script"
  /\ UNCHANGED <<env, crashes>>

SeedMailSent ==
  /\ env.smtp
  /\ BootMove("mail", "start")
  /\ secret' = "owner"
  /\ UNCHANGED <<env, tenants, crashes>>

Mut_SeedMailFailsUndoes ==
  /\ BootMove("mail", "down")
  /\ secret' = "nobody"
  /\ tenants' = 0
  /\ UNCHANGED <<env, crashes>>

(* SMTP is not configured or not reached, or its answer is lost: exit code *)
(* 1, and the password goes with the process.                              *)
SeedMailFails ==
  /\ BootMove("mail", "down")
  /\ secret' \in {"nobody"} \cup (IF env.smtp THEN {"owner"} ELSE {})
  /\ UNCHANGED <<env, tenants, crashes>>

StartServer ==
  /\ BootMove("start", IF ValidEnv(env) THEN "serving" ELSE "down")
  /\ UNCHANGED <<env, tenants, secret, crashes>>

(* The container dies between any two steps.                               *)
Crash ==
  /\ boot # "down" /\ crashes < MaxCrashes
  /\ boot' = "down"
  /\ crashes' = crashes + 1
  /\ secret' = IF secret = "script" THEN "nobody" ELSE secret
  /\ UNCHANGED <<env, tenants>>

BootStep == \/ StartContainer \/ SeedRead \/ SeedCreate
            \/ SeedMailSent \/ SeedMailFails \/ StartServer

BootNext == BootStep \/ Crash \/ \E e \in Environments : EditEnv(e)

BootSpec == BootInit /\ [][BootNext]_bootVars

(* The container's restart policy.                                         *)
BootFairness == WF_bootVars(BootStep)

-----------------------------------------------------------------------------
(* Properties                                                              *)

(* prisma/seed.ts: "does nothing on every subsequent run".  Whatever dies  *)
(* or fails wherever, there is never a second tenant, the server only runs *)
(* with one, and no password is left in a process that has ended.          *)
SeededOnce ==
  /\ tenants <= 1
  /\ boot \in {"start", "serving"} => tenants = 1
  /\ secret = "script" => boot = "mail"

(* Once .env is complete the server comes up, although the mail with the   *)
(* password may fail and the container may die on the way.                 *)
ComesUp == ValidEnv(env) ~> boot = "serving" \/ ~ValidEnv(env)

=============================================================================
