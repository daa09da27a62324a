--------------------------- MODULE MCKvEventIndex ---------------------------
EXTENDS KvEventIndex

CONSTANTS a, b

MCBlocks == {a, b}
MCAnnounced == <<{[type |-> "BlockStored", hashes |-> {a, b}]},
                 {[type |-> "BlockRemoved", hashes |-> {a}]}>>
MCPrompt == <<a, b>>
=============================================================================
