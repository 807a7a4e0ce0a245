-------------------------- MODULE MCNotifications --------------------------
(* Small instances of Notifications for TLC. *)
EXTENDS Notifications, TLC

CONSTANTS h1, h2, l1, l2

MCMails == LeadIds \X Workers
Symmetry == Permutations(Handlers)

(* Leads are created and reported, and the reports mailed; accounts and     *)
(* deals stay as they are.                                                  *)
LiveSpec ==
  Init /\ [][Next /\ UNCHANGED <<dealt, active, chat>>]_vars /\ Fairness

=============================================================================
