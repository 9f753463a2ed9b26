----------------------------- MODULE MCCasework -----------------------------
(***************************************************************************)
(* A small instance of Casework: two callers, two cases, one or two        *)
(* documents, tasks and files, an area of the catalogue.  Callers and      *)
(* cases are interchangeable.                                              *)
(***************************************************************************)
EXTENDS Casework, TLC

AnswerDoors == {"answer", "ask", "open", "complete", "advance", "view", "review", "strike", "withdraw"}

MCDocsAt == [pending |-> {"d1"}, beside |-> {"d1", "d2"}, serial |-> {"d1", "d2"}]
MCLastAt == [pending |-> 1, beside |-> 3, serial |-> 2]
MCOpsAt == [pending |-> AnswerDoors, serial |-> AnswerDoors,
            beside |-> {"answer", "ask", "open", "create", "advance", "view"}]
MCDraftsAt == [pending |-> TRUE, beside |-> FALSE, serial |-> TRUE]
MCCrashAt == [pending |-> TRUE, beside |-> TRUE, serial |-> FALSE]

Symmetry == Permutations(Callers) \cup Permutations(Cases)
=============================================================================
