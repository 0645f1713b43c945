------------------------- MODULE MCRefreshSessions -------------------------
(* RefreshSessions with rows that are used in a fixed order: which of the
   unused families or tokens an insert takes makes no difference. *)
EXTENDS RefreshSessions

CONSTANTS f1, f2, t1, t2, t3

UsedInOrder(rows, earlier, later) == rows[earlier] = NoRow => rows[later] = NoRow
InOrder ==
  /\ UsedInOrder(family, f1, f2)
  /\ UsedInOrder(token, t1, t2) /\ UsedInOrder(token, t2, t3)

\* Bound: three logins and changes of the user, of either at most two.  Steps
\* that fairness asks for leave the sum as it is.
Logins ==
  Cardinality({f \in Families : family[f] # NoRow})
    + Cardinality({r \in Requests : req[r].op = "login"})
Small == Logins + changes <= 3

InOrderSpec == Init /\ [][Next /\ (InOrder /\ Small)']_vars /\ Fairness
=============================================================================
