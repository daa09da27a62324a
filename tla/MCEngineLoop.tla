---------------------------- MODULE MCEngineLoop ----------------------------
(***************************************************************************)
(* EngineLoop for TLC.  Of the three requests, r1 fits and decodes longest, *)
(* r2 has the prompt that does not fit beside r1's growth, and r3 is small  *)
(* enough to pass a blocked head and outranks both where priority counts.   *)
(***************************************************************************)
EXTENDS EngineLoop

CONSTANTS r1, r2, r3

MCPromptLen == r1 :> 2 @@ r2 :> 4 @@ r3 :> 1
MCMaxNew == r1 :> 3 @@ r2 :> 2 @@ r3 :> 1
MCMaxNewLong == r1 :> 4 @@ r2 :> 3 @@ r3 :> 1
MCPriority == r1 :> 1 @@ r2 :> 1 @@ r3 :> 0
=============================================================================
