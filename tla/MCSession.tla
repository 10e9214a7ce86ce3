----------------------------- MODULE MCSession -----------------------------
(* Two workers with one slot each that share three connections, so that a  *)
(* worker may reconnect twice while older connections are still open.      *)
EXTENDS WorkerSession

OneSlot == [w \in Worker |-> 1]
=============================================================================
