-------------------------- MODULE MCPlatformLayer --------------------------
EXTENDS PlatformLayer

CONSTANTS call, cancel, other, huge

(* A request of two bytes, two messages of one byte, one over the limit.   *)
MCSizeOf == [m \in {call, cancel, other, huge} |->
               IF m = call THEN 2 ELSE IF m = huge THEN 4 ELSE 1]
=============================================================================
