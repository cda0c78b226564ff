---------------------------- MODULE MCTaskQueue ----------------------------
(* Small instances of TaskQueue for TLC. *)
EXTENDS TaskQueue

CONSTANTS a1, a2, r1, r2, i1, c1, q1, x1

OneRuntime      == [a \in Agents |-> {r1}]
OneSlot         == [a \in Agents |-> 1]
TwoSlots        == [a \in Agents |-> 2]
BothRuntimes    == [a \in Agents |-> {r1, r2}]
ChatsOfA1       == [c \in Chats |-> a1]
=============================================================================
