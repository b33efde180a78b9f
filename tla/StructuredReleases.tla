------------------------ MODULE StructuredReleases -------------------------
(***************************************************************************)
(* What a structured ingest promises to readers of claims: a claim counts  *)
(* as released when the fact or relationship it rests on can be reached    *)
(* from it, and the claims of a run are released all at once or not at     *)
(* all.                                                                    *)
(***************************************************************************)
CONSTANT Runs

VARIABLES
    content,    \* for each run, the ids of the claims its ingest accepted
    released    \* ... and of those readers find together with their evidence

Init ==
    /\ content = [run \in Runs |-> {}]
    /\ released = [run \in Runs |-> {}]

\* The input passed all checks.
Accept(run) ==
    /\ content[run] = {} /\ released[run] = {}
    /\ \A r \in Runs \ {run} : content'[r] = content[r]
    /\ DOMAIN content' = Runs
    /\ UNCHANGED released

Release(run) ==
    /\ released[run] = {}
    /\ released' = [released EXCEPT ![run] = content[run]]
    /\ UNCHANGED content

Reset ==
    /\ released' = [run \in Runs |-> {}]
    /\ UNCHANGED content

Next == (\E run \in Runs : Accept(run) \/ Release(run)) \/ Reset

Spec == Init /\ [][Next]_<< content, released >>
=============================================================================
