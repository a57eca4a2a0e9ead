----------------------------- MODULE MCActivityLog -----------------------------
(***************************************************************************)
(* Two threads with two handles each, on one log or on a primary and its   *)
(* replica.  Records are made with a content, or from a header in which a  *)
(* size is left.                                                           *)
(***************************************************************************)
EXTENDS LogWire, TLC

CONSTANTS primary, replica, empty

MCCharacters == [c \in Contents |-> IF c = empty THEN <<>> ELSE <<"x", "y">>]
MCHeaderOnly == Contents \cap {empty}
MCGivenSize == [c \in Contents |-> IF c = empty THEN 1 ELSE 0]
MCSymmetry == Permutations(Threads) \cup Permutations(Slots)

================================================================================
