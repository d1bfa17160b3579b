------------------------------- MODULE MCRide -------------------------------
(* Instances of Ride for TLC.                                              *)
EXTENDS Ride, TLC

(* One saved state for each way Start() treats them. *)
SomeSaved == {"Parked", "ReadyToDrive", "HopOn", "WaitingSeatbox", "ShuttingDown", "Refused", "None"}
NoEvents == {}

(* One event for each way in and out of the leaves that write the engine's *)
(* outputs, and the hop-on detour.                                         *)
RideEvents == {"Unlock", "KickstandUp", "KickstandDown", "Lock", "ForceLock",
               "ShutdownTimeout", "HopOnEngage", "HopOnRelease", "BrakesPressed"}

DriveEvents == {"KickstandUp", "KickstandDown"}

SavedParked == {"Parked"}
SavedDrive == {"ReadyToDrive"}

Symmetry == Permutations(Levers) \cup Permutations(Callbacks)
=============================================================================
