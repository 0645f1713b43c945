--------------------------- MODULE MCRateLimiter ---------------------------
(* The environments and clients of RateLimiter that TLC checks. *)
EXTENDS RateLimiter

MCSymmetry == Permutations(Call)

Required ==
  [DATABASE_URL |-> [scheme |-> "postgres", user |-> 8, name |-> 8],
   JWT_SECRET |-> [length |-> 32, placeholder |-> FALSE],
   RATE_LIMIT_AUTH_WINDOW_MS |-> 2, RATE_LIMIT_AUTH_MAX |-> 1,
   RATE_LIMIT_PUBLIC_WINDOW_MS |-> 2, RATE_LIMIT_PUBLIC_MAX |-> 1]

Redis == [RATE_LIMIT_STORE |-> "redis", REDIS_URL |-> "url"]
Two == [APP_INSTANCE_COUNT |-> 2]
More == [RATE_LIMIT_AUTH_MAX |-> 2]

Scene(process, visitors) ==
  [environment |-> LoadEnvironment(process, Required), clients |-> visitors]

MCClient == {<<"auth", "a">>, <<"public", "b">>}

\* Each store with one and two instances; two with a memory each are refused.
\* Counters that admit two requests tell those that begin anew from others.
MCScenes ==
  {Scene(<<>>, MCClient), Scene(Redis, MCClient), Scene(Two, {<<"auth", "a">>}),
   Scene(Two @@ Redis, {<<"auth", "a">>}), Scene(Two @@ Redis @@ More, {<<"auth", "a">>})}
=============================================================================
