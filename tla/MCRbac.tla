------------------------------- MODULE MCRbac -------------------------------
(* The scenes of Rbac that TLC checks: two administrators whose roles differ
   but hold the same, a manager below two administrators, and a manager who
   may delete a permission that they hold too. *)
EXTENDS Rbac

CONSTANTS x, y, z, w, admin, ops, user, team, mu, mr, mp, c

\* x is an "admin", y has the role ops with the same permissions.
Peers ==
  [role |-> [u \in Users |-> CASE u = x -> admin [] u = y -> ops [] OTHER -> None],
   perms |-> [r \in Roles |-> IF r \in {admin, ops} THEN {mu, mr, mp} ELSE {}],
   callers |-> {x, y}, lists |-> {{mu, mr}, {mu, mr, mp}},
   users |-> {x, y}, newRoles |-> {}, newPerms |-> {c}, requests |-> 3,
   userEmail |-> {y}]

\* x and z have the role "admin", y manages users and roles.
Manager ==
  [role |-> [u \in Users |-> CASE u \in {x, z} -> admin [] u = y -> ops [] OTHER -> None],
   perms |-> [r \in Roles |-> CASE r = admin -> {mu, mr, mp} [] r = ops -> {mu, mr} [] OTHER -> {}],
   callers |-> {y}, lists |-> {{mr}, {mu, mr}, {mr, mp}},
   users |-> {x, y, z, w}, newRoles |-> {team}, newPerms |-> {}, requests |-> 3,
   userEmail |-> {z}]

\* x has the role "admin", y manages roles and permissions.
Deleter ==
  [role |-> [u \in Users |-> CASE u = x -> admin [] u = y -> ops [] OTHER -> None],
   perms |-> [r \in Roles |-> CASE r = admin -> {mu, mr, mp, c} [] r = ops -> {mr, mp, c} [] OTHER -> {}],
   callers |-> {y}, lists |-> {{mr, c}, {mr, mp, c}},
   users |-> {x, y, w}, newRoles |-> {team}, newPerms |-> {c}, requests |-> 3,
   userEmail |-> {w}]

AllScenes == {Peers, Manager, Deleter}
ASSUME ScenesAreSeeded == \A s \in Scenes : Seeded(s) /\ NoOrphan(s)

PeersOnly == {[Peers EXCEPT !.requests = 2, !.newPerms = {}]}
=============================================================================
