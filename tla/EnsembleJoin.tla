---------------------------- MODULE EnsembleJoin ----------------------------
(***************************************************************************)
(* What a join promises (docs/loops.md): it fires only once every member   *)
(* of its ensemble has voted - passed, failed, or been timed out, which is *)
(* a vote against - and it reports pass when at least MinPass voted for,   *)
(* unless a member moved HEAD meanwhile.  A round that fails for another   *)
(* reason is given up without a verdict.                                   *)
(***************************************************************************)
EXTENDS Naturals, FiniteSets

CONSTANTS
    Loops,
    Members,
    LoopOf,    \* the loop whose ensemble a member belongs to
    MinPass    \* the quorum of each loop's ensemble

VARIABLES
    vote,      \* each member's vote in the current round
    moved,     \* the loops in which HEAD moved during the current round
    verdict    \* what the join of each loop's round reported

jvars == <<vote, moved, verdict>>

Votes == {"none", "for", "against"}

Of(l) == {m \in Members : LoopOf[m] = l}
Won(l) == Cardinality({m \in Of(l) : vote[m] = "for"}) >= MinPass[l] /\ l \notin moved

JoinInit ==
    /\ vote = [m \in Members |-> "none"]
    /\ moved = {}
    /\ verdict = [l \in Loops |-> "none"]

\* HEAD may move before a member votes, or just as it does.
MovesHead(l) == moved' \in {moved, moved \cup {l}}

Vote(m) ==
    /\ verdict[LoopOf[m]] = "none"
    /\ vote[m] = "none"
    /\ \E v \in Votes : vote' = [vote EXCEPT ![m] = v]
    /\ MovesHead(LoopOf[m])
    /\ UNCHANGED verdict

Move(l) ==
    /\ verdict[l] = "none"
    /\ MovesHead(l)
    /\ UNCHANGED <<vote, verdict>>

Decide(l) ==
    /\ verdict[l] = "none"
    /\ \A m \in Of(l) : vote[m] # "none"
    /\ verdict' = [verdict EXCEPT ![l] = IF Won(l) THEN "pass" ELSE "fail"]
    /\ UNCHANGED <<vote, moved>>

\* The round is over, decided or not.
Clear(l) ==
    /\ vote' = [m \in Members |-> IF LoopOf[m] = l THEN "none" ELSE vote[m]]
    /\ moved' = moved \ {l}
    /\ verdict' = [verdict EXCEPT ![l] = "none"]

JoinNext ==
    \/ \E m \in Members : Vote(m)
    \/ \E l \in Loops : Move(l) \/ Decide(l) \/ Clear(l)

JoinSpec == JoinInit /\ [][JoinNext]_jvars
=============================================================================
