-------------------------- MODULE MCRefreshCookie --------------------------
(* The environments of RefreshCookie that TLC checks: the default lifetimes, and
   an idle window of 60 days, which Load accepts. *)
EXTENDS RefreshCookie

Required ==
  [DATABASE_URL |-> [scheme |-> "postgres", user |-> 8, name |-> 8],
   JWT_SECRET |-> [length |-> 32, placeholder |-> FALSE],
   REFRESH_TOKEN_TRANSPORT |-> "cookie"]

MCEnvironments == {Required, LoadEnvironment([REFRESH_TOKEN_IDLE_DAYS |-> 60], Required)}
=============================================================================
