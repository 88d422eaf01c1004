--------------------------- MODULE MCCoordinator ---------------------------
(***************************************************************************)
(* The coordinator with one agent and two clients: both ask for device     *)
(* work, one also changes state and the other also stops the process.      *)
(***************************************************************************)
EXTENDS Coordinator

CONSTANTS c1, c2

TwoClients == {c1, c2}
OneClient == {c1}
MCOps == [c \in {c1, c2} |-> IF c = c1 THEN {"mutate", "allocate"} ELSE {"allocate", "shutdown"}]
=============================================================================
