-------------------------- MODULE OrderedPublication --------------------------
(***************************************************************************)
(* What the background publisher promises: accepted checkpoints are        *)
(* published one by one in the order of their submission, and from the     *)
(* first one that is not published on, none is.                            *)
(***************************************************************************)
EXTENDS Naturals

VARIABLES
    accepted,   \* checkpoints accepted
    published,  \* checkpoints published
    stopped     \* the next one to publish was given up

vars == <<accepted, published, stopped>>

Init == accepted = 0 /\ published = 0 /\ stopped = FALSE

Accept == accepted' = accepted + 1 /\ UNCHANGED <<published, stopped>>

\* The job after it may be known by then to have been given up.
PublishNext ==
    /\ ~stopped /\ published < accepted
    /\ published' = published + 1
    /\ stopped' \in {FALSE, published' < accepted}
    /\ UNCHANGED accepted

Stop == published < accepted /\ stopped' = TRUE /\ UNCHANGED <<accepted, published>>

Next == Accept \/ PublishNext \/ Stop

Spec == Init /\ [][Next]_vars
=============================================================================
