------------------------------- MODULE MCRecruit -----------------------------
(***************************************************************************)
(* Values for the constants of Recruit.                                     *)
(***************************************************************************)
EXTENDS RecruitProps, TLC

CONSTANTS u1, u2, p1, p2, root, m1, a, b

\* One size for everything.
UnitLimits == [stage \in Stage |-> [min |-> 1, max |-> 2]]

\* A manager's upload may have each of these sizes: the negative one makes room
\* for the largest, which is larger than the capacity of that run.
SomeSizes == {-1, 1, 3}
RoomyLimits == [UnitLimits EXCEPT !["Master"].max = 4]

NoLists == {NoCheck}
SomeLists == {NoCheck, {1}, {2}}
AnyLists == {NoCheck, {}, {1}, {2}}

\* The users of a run are interchangeable, and so are its projects where all or
\* none have an agreement.
UserSymmetry == Permutations(Users)
ProjectSymmetry == Permutations(Projects)
==============================================================================
