------------------------- MODULE MCReleaseMutation --------------------------
(* Two commands, one of them perhaps the retry of the other.               *)
EXTENDS ReleaseMutation, TLC

CONSTANTS first, second

BothOrders == Permutations(Commands)
=============================================================================
