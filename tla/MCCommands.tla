----------------------------- MODULE MCCommands ----------------------------
(* A small instance of Commands for TLC. *)
EXTENDS Commands, TLC

MCInvocations ==
    {"ingest-pdf", "extract-claims"} \X {"d1", "d2"}
    \cup {<< "ingest", "d1" >>, << "ingest-structured", "d1" >>, << "ask", "d2" >>, << "ask-all", "d1" >>}
\* An earlier batch: directories, and no stage manifests.
MCEarlierDirs == {[prefix |-> "unstructured_ingest", at |-> 0]} \X {"claim_extraction", "pdf_ingest"}
JobSymmetry == Permutations(Jobs)
=============================================================================
