--------------------------------- MODULE MCPipe --------------------------------
(***************************************************************************)
(* A small instance of Pipe: two classes of chunks.                        *)
(***************************************************************************)
EXTENDS Pipe

ScaledClasses == <<2, 4>>

================================================================================
