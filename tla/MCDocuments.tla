---------------------------- MODULE MCDocuments ----------------------------
(* A small instance of AskScope for TLC. *)
EXTENDS AskScope

Chunk(page, lacks) == [page |-> page, lacks |-> lacks]
MCOutputs ==
    {<< Chunk(1, {}), Chunk(1, {}) >>, << Chunk(1, {}), Chunk(NoPage, {}) >>,
     << Chunk(1, {"order"}) >>, << Chunk(2, {"vector"}) >>}
Question(flag, run, env, dataset, dry) ==
    [flag |-> flag, run |-> run, env |-> env, dataset |-> dataset, dry |-> dry]
MCInputs ==
    { Question("all", NoRun, 1, d, FALSE) : d \in {"d1", AnyDataset} }
    \cup { Question("latest", NoRun, 1, d, FALSE) : d \in {"d1", AnyDataset} }
    \cup {Question("run", 1, NoRun, "d1", FALSE), Question("none", NoRun, 1, "d1", FALSE)}
    \cup {Question("latest", NoRun, 1, "d1", TRUE)}
=============================================================================
