------------------------------ MODULE MCIecBus ------------------------------
(***************************************************************************)
(* A disk of four blocks.  "$" is one block; "two" has a block before it;  *)
(* "broken" leads to a block that does not exist and "empty" has no byte.  *)
(***************************************************************************)
EXTENDS IecBus

MCChain == [b \in Blocks |-> CASE b = 1 -> [next |-> 0, used |-> 1]
                               [] b = 2 -> [next |-> 1, used |-> 2]
                               [] b = 3 -> [next |-> 9, used |-> 2]
                               [] b = 4 -> [next |-> 0, used |-> 0]]

MCFirst == [f \in {"$", "two", "broken", "empty"} |->
              CASE f = "$" -> 1 [] f = "two" -> 2 [] f = "broken" -> 3 [] f = "empty" -> 4]
=============================================================================
