----------------------------- MODULE MCRunFeed -----------------------------
EXTENDS RunFeed, TLC

CONSTANTS a, b, r1, r2

Setting(people, runs, public, progress, incidents) ==
    [people |-> people, runs |-> runs, progress |-> progress, incidents |-> incidents,
     readers |-> IF public THEN {"user", Anonymous} ELSE {"user"}]

\* Two tabs of one user; a tab that watches one run after another; one that
\* sees progress; one that goes through two incidents; and one of nobody.
MCSettings ==
    {Setting(a :> "user" @@ b :> "user", {r1}, FALSE, 0, 1),
     Setting(a :> "user", {r1, r2}, FALSE, 0, 0),
     Setting(a :> "user", {r1}, TRUE, 1, 1),
     Setting(a :> "user", {r1}, TRUE, 0, 2),
     Setting(a :> Anonymous, {r1}, TRUE, 1, 1)}
=============================================================================
