----------------------------- MODULE Onboarding -----------------------------
(***************************************************************************)
(* What setting the panel up promises: administrators come and are never   *)
(* lost, setup is only ever finished when there is one who can sign in,    *)
(* and it is finished once and for all. Settings is shown to implement it. *)
(***************************************************************************)
CONSTANT People

VARIABLES
  users,     \* who has an account
  finished   \* the wizard is closed to strangers

OnboardingInit == users \in SUBSET People /\ finished = (users # {})

Join == \E u \in People : users' = users \cup {u} /\ UNCHANGED finished

Finish == users # {} /\ finished' = TRUE /\ UNCHANGED users

OnboardingSpec == OnboardingInit /\ [][Join \/ Finish]_<<users, finished>>

=============================================================================
