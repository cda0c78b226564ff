---------------------------- MODULE MCTaskDaemon ----------------------------
(* Small instances of TaskDaemon for TLC. *)
EXTENDS TaskDaemon

CONSTANTS a1, r1, r2, i1, c1, q1, d1, d2

OneRuntime  == [a \in Agents |-> {r1}]
AllRuntimes == [a \in Agents |-> Runtimes]
OneSlot     == [a \in Agents |-> 1]
TwoSlots    == [a \in Agents |-> 2]
ChatsOfA1   == [c \in Chats |-> a1]
OneEach     == [r \in Runtimes |-> IF r = r1 THEN d1 ELSE d2]
AllOnD1     == [r \in Runtimes |-> d1]
=============================================================================
