----------------------------- MODULE RunStores -----------------------------
(***************************************************************************)
(* What the resolution layer promises about the graph, whatever jobs do:   *)
(* each run has a store of its own, resolving a run touches that store     *)
(* only and only adds to it, every link stays between things of the run    *)
(* (or leads to the shared catalog of canonical entities), and nothing but *)
(* a reset ever removes anything.                                          *)
(***************************************************************************)
CONSTANT Runs

VARIABLES
    store,  \* for each run: its mentions, its clusters and the links of both
    catalog \* canonical entities, shared by all runs

EmptyStore ==
    [mentions |-> {}, clusters |-> {}, members |-> {}, reviews |-> {},
     resolutions |-> {}, alignments |-> {}]

Init ==
    /\ store = [r \in Runs |-> EmptyStore]
    /\ catalog = {}

OthersKept(run) == \A r \in Runs \ {run} : store'[r] = store[r]

\* Links lead from and to what is there.
Connected(s, entities) ==
    /\ s.members \subseteq s.mentions \X s.clusters
    /\ s.reviews \subseteq s.mentions \X s.clusters
    /\ s.resolutions \subseteq s.mentions \X entities
    /\ s.alignments \subseteq s.clusters \X entities

\* Claim extraction: mentions come, none go.
Extract(run) ==
    /\ OthersKept(run)
    /\ store[run].mentions \subseteq store'[run].mentions
    /\ store'[run] = [store[run] EXCEPT !.mentions = store'[run].mentions]
    /\ UNCHANGED catalog

\* One write of a resolution pass.
Resolve(run) ==
    LET old == store[run]
        new == store'[run]
    IN  /\ OthersKept(run)
        /\ new.mentions = old.mentions
        /\ old.clusters \subseteq new.clusters
        /\ old.members \subseteq new.members
        /\ old.reviews \subseteq new.reviews
        /\ old.resolutions \subseteq new.resolutions
        /\ old.alignments \subseteq new.alignments
        /\ Connected(new, catalog)
        /\ UNCHANGED catalog

\* Structured ingest.
Ingest == catalog \subseteq catalog' /\ UNCHANGED store

Reset ==
    /\ store' = [r \in Runs |-> EmptyStore]
    /\ catalog' = {}

Next == (\E run \in Runs : Extract(run) \/ Resolve(run)) \/ Ingest \/ Reset

Spec == Init /\ [][Next]_<< store, catalog >>
=============================================================================
