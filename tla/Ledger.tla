-------------------------------- MODULE Ledger -------------------------------
(***************************************************************************)
(* What the backend promises about bundle jobs: a project user is put into  *)
(* one job at most; a job either finishes, once, which mixes all its users  *)
(* in one instant and offers a bundle of exactly their files for download,  *)
(* or it is lost, and then its users stay in it unmixed.  Tasks, transfers, *)
(* shutdowns and crashes are left to the specification that implements      *)
(* this one.                                                                *)
(***************************************************************************)
CONSTANTS Puids,    \* the project users there can be
          JobIds    \* the jobs there can be

VARIABLES jobs,     \* the jobs submitted so far
          includes, \* who is in which job, as <<job, puid>>
          mixed,    \* the project users that have been mixed
          bundles   \* what finished jobs offer, as <<job, puids>>

UsersOf(j)  == {puid \in Puids : << j, puid >> \in includes}
Finished(j) == \E users \in SUBSET Puids : << j, users >> \in bundles

Init == jobs = {} /\ includes = {} /\ mixed = {} /\ bundles = {}

Submit(j, users) ==
    /\ j \notin jobs
    /\ \A puid \in users : \A k \in jobs : << k, puid >> \notin includes
    /\ jobs' = jobs \cup {j}
    /\ includes' = includes \cup ({j} \X users)
    /\ UNCHANGED << mixed, bundles >>

Finish(j) ==
    /\ j \in jobs /\ ~Finished(j)
    /\ UsersOf(j) \cap mixed = {}
    /\ mixed' = mixed \cup UsersOf(j)
    /\ bundles' = bundles \cup {<< j, UsersOf(j) >>}
    /\ UNCHANGED << jobs, includes >>

Next == \E j \in JobIds : Finish(j) \/ \E users \in SUBSET Puids : Submit(j, users)

Spec == Init /\ [][Next]_<< jobs, includes, mixed, bundles >>
==============================================================================
