----------------------------- MODULE MCDbcPower -----------------------------
(* Instances of DbcPower for TLC.                                          *)
EXTENDS DbcPower, TLC

NoneOrParked == {"none", "parked"}
Parked == {"parked"}
LockEvents == {"Lock"}
NoEvents == {}
NoRequests == {}
UnlockOnly == {"unlock"}
Requests == {"unlock", "prepare-hibernate"}
OnOffForce == {"on", "off", "force"}
=============================================================================
