---------------------------- MODULE MCHandlebar -----------------------------
(* Instances of Handlebar for TLC.                                         *)
EXTENDS Handlebar, TLC

(* Into and out of every leaf whose entry or exit moves the lock.          *)
SteeringEvents == {"Lock", "Unlock", "HopOnEngage", "HopOnRelease", "ShutdownTimeout",
                   "KickstandUp", "KickstandDown", "ForceLock"}
HopOnEvents == {"HopOnEngage", "HopOnRelease"}
StandbyEvents == {"HopOnEngage", "AutoStandbyTimeout"}
(* The operator's unlock differs from the release after hop-on in nothing. *)
SomeRequests == {"lock", "serviceOn", "serviceOff"}
NoRequests == {}

Symmetry == Permutations(Workers)

(* What tells states apart.  Of an attempt that is over, and that neither  *)
(* a worker nor the handler nor the current channel belongs to, nothing is *)
(* read any more; a timer that still ran would show.                       *)
Forgotten(a) ==
  /\ attempts[a].pc = "over" /\ ~attempts[a].ticks /\ a \notin {handler, done}
  /\ \A w \in Workers : workers[w].of # a

Distinguished ==
  <<machineVars, [a \in Attempts |-> IF Forgotten(a) THEN NewAttempt ELSE attempts[a]], count,
    timer, done, handler, crossed, workers, udone, bodyVars, flagVars, asked, moves,
    relock>>
=============================================================================
