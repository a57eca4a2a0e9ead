------------------------------ MODULE MCDvspPacket ------------------------------
(* Contents of no, of one and of two units of length *)
EXTENDS DvspPacket

CONSTANTS nothing, short, long

MCSizeOf == [c \in Contents |-> CASE c = nothing -> 0 [] c = short -> 1 [] c = long -> 2]

================================================================================
