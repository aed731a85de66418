--------------------------- MODULE MCFreshRecovery ---------------------------
(* Instances of FreshRecovery for TLC: what a device may start with.       *)
EXTENDS FreshRecovery

(* A database that was closed, and one that was killed with its last       *)
(* commits still in the log.                                               *)
ClosedFamily == [main |-> 1, wal |-> None]
KilledFamily == [main |-> 1, wal |-> 2]

UsedDevices == {ClosedFamily, KilledFamily} \X {TRUE}
AllDevices == {NoFamily, ClosedFamily, KilledFamily} \X BOOLEAN

(* A killed database without its key cannot be opened, so its log is never *)
(* checkpointed before a recovery moves the files.                         *)
SoundDevices == AllDevices \ {<<KilledFamily, FALSE>>}
=============================================================================
