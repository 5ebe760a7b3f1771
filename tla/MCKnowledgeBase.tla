--------------------------- MODULE MCKnowledgeBase ---------------------------
(* KnowledgeBase with files of one byte and one chunk.                       *)
EXTENDS KnowledgeBase
Ones == [p \in Path |-> 1]
=============================================================================
