---------------------------- MODULE MCScheduler ----------------------------
(* Instances of the scheduling core for TLC. *)
EXTENDS SchedulerSafety

CONSTANT b1

OneSlot == [w \in Worker |-> 1]
TwoSlots == [w \in Worker |-> 2]
Equal == [t \in Task |-> 0]
SecondUrgent == [t \in Task |-> IF t = 2 THEN 5 ELSE 0]
FirstInBatch == [t \in Task |-> IF t = 1 THEN b1 ELSE NoBatch]

RecoveryNext ==
  \/ Coordinate \/ Client \/ Execution \/ Recovery \/ RecoveryRegister
  \/ Close \/ Restart \/ Exception

RecoverySpec == Init /\ [][RecoveryNext]_vars

PassNext ==
  \/ Coordinate \/ Client \/ Execution \/ PlainRegister \/ Exception \/ Restart

PassSpec == Init /\ [][PassNext]_vars

SettleNext ==
  \/ Coordinate \/ Execution \/ Recovery \/ RecoveryRegister \/ PlainRegister
  \/ Restart \/ IdleThrows \/ \E t \in Task : submitTask(t, NoKey)

SettleSpec == Init /\ [][SettleNext]_vars

LiveNext ==
  \/ Coordinate \/ Client \/ Execution \/ PlainRegister \/ Heartbeat \/ Close
  \/ Unavailability

LiveSpec == Init /\ [][LiveNext]_vars /\ Fairness
=============================================================================
