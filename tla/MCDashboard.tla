---------------------------- MODULE MCDashboard ----------------------------
(* Two tabs, and a database that is new or has a user with a camera.       *)
EXTENDS Dashboard, TLC

CONSTANTS u1, n1, n2

MCStores ==
  {[accounts |-> {}, cameras |-> <<>>, alerts |-> {}],
   [accounts |-> {u1}, cameras |-> (1 :> [owner |-> u1, name |-> n1, enabled |-> TRUE]),
    alerts |-> {1}]}

Profile(w, n, p, e, a, f) ==
  [who |-> w, names |-> n, patient |-> p, expiry |-> e, asks |-> a, faults |-> f]
MCProfiles ==
  {Profile(Users, Names, TRUE, FALSE, 4, 0), Profile({u1}, {n1}, FALSE, FALSE, 4, 0),
   Profile({u1}, {n1}, FALSE, TRUE, 3, 1)}

Symmetry == Permutations(Pages)
=============================================================================
