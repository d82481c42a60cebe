---------------------------- MODULE ManualProfile ----------------------------
(* ProfileChoice on the small instance, and who chose the profile of a job. *)
EXTENDS MCProfileChoice

VARIABLE manual     \* the jobs whose profile a user has set

ManualInit == Init /\ manual = {}

\* A job is given its profile by hand with SetJobProfile, and is forgotten when
\* its row is deleted; everything else is as in ProfileChoice.
SetByHand(i) == \E p \in Profile \cup {NoProfile} : SetJobProfile(i, p)

ManualNext ==
    /\ Next
    /\ manual' = {i \in Item : SetByHand(i) \/ (i \in manual /\ job'[i] # NoJob)}

ManualSpec == ManualInit /\ [][ManualNext]_<<vars, manual>>

\* Jobs.vue, about setting the profile of many jobs: "Done jobs get the new
\* profile too; re-queue them to actually re-encode."  The run replaces it by
\* what the mappings say.
ManualProfileKept ==
    [][\A i \in manual :
          (job[i].profile # NoProfile /\ job'[i].status = "encoding") => job'[i].profile = job[i].profile]_<<vars, manual>>

=============================================================================
