-------------------------- MODULE MCCollabSession --------------------------
EXTENDS CollabSession, TLC

CONSTANTS a, b, e1, e2

Setting(people, public, edits, incidents) ==
    [people |-> people, owner |-> "owner", public |-> public, edits |-> edits, incidents |-> incidents]

\* Two tabs of the owner; the owner and somebody who may watch; one tab.
MCSettings ==
    {Setting(a :> "owner" @@ b :> "owner", FALSE, {e1, e2}, 0),
     Setting(a :> "owner" @@ b :> "owner", FALSE, {e1}, 1),
     Setting(a :> "owner" @@ b :> "guest", TRUE, {e1}, 1),
     Setting(a :> "owner", FALSE, {e1, e2}, 2)}
=============================================================================
