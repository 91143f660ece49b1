---------------------------- MODULE MCClerkWebhook ----------------------------
(* ClerkWebhook on small instances: the cfg files give the sets as model   *)
(* values, which are interchangeable wherever no liveness is checked.      *)
EXTENDS ClerkWebhook, TLC

Symmetry ==
  Permutations(User) \cup Permutations(Email) \cup Permutations(Handler)
=============================================================================
