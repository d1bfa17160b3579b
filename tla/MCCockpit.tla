----------------------------- MODULE MCCockpit ------------------------------
(* Instances of Cockpit for TLC.  A scenario is a beginning and a mix of   *)
(* inputs; a behaviour spends one of them.                                 *)
EXTENDS Cockpit, TLC

Nothing == [i \in InputKinds |-> 0]

(* A ride, auto-standby off.                                               *)
Riding(mix) ==
  [state |-> "ReadyToDrive", secs |-> 0, down |-> FALSE, rejected |-> FALSE, budget |-> mix]

(* On the kickstand, auto-standby on.                                      *)
AtRestWith(mix) ==
  [state |-> "Parked", secs |-> 1, down |-> TRUE, rejected |-> FALSE, budget |-> mix]

Stand == Riding([Nothing EXCEPT !["kickstand"] = 3, !["publish"] = 1])
Resumed == [Riding([Nothing EXCEPT !["kickstand"] = 2]) EXCEPT !.down = TRUE]
Sleep == Riding([Nothing EXCEPT !["kickstand"] = 2, !["suspend"] = 1])
Flood == Riding([Nothing EXCEPT !["kickstand"] = 3, !["overflow"] = 1])
Phone == AtRestWith([Nothing EXCEPT !["ble"] = 2, !["event"] = 2])
Rest  == AtRestWith([Nothing EXCEPT !["ble"] = 2, !["setting"] = 1, !["event"] = 1])
Rider == AtRestWith([Nothing EXCEPT !["kickstand"] = 1, !["ble"] = 1])
Switch == AtRestWith([Nothing EXCEPT !["left"] = 2, !["right"] = 2, !["event"] = 1])
Lamp  == AtRestWith([Nothing EXCEPT !["left"] = 2, !["event"] = 1, !["command"] = 1])
Night == AtRestWith([Nothing EXCEPT !["left"] = 1, !["event"] = 2])
Leaving == AtRestWith([Nothing EXCEPT !["kickstand"] = 1, !["event"] = 1])
Hopping == [Leaving EXCEPT !.state = "HopOn"]
Holding == AtRestWith([Nothing EXCEPT !["ble"] = 1, !["setting"] = 1, !["event"] = 2])
Nap  == [AtRestWith([Nothing EXCEPT !["left"] = 1, !["right"] = 1, !["suspend"] = 1])
           EXCEPT !.secs = 0]
Doze == [AtRestWith([Nothing EXCEPT !["left"] = 1, !["suspend"] = 1, !["event"] = 1])
           EXCEPT !.state = "Standby", !.secs = 0]
Jolt == AtRestWith([Nothing EXCEPT !["left"] = 2, !["overflow"] = 1])
Waking == [AtRestWith([Nothing EXCEPT !["setting"] = 1, !["event"] = 1])
             EXCEPT !.state = "Standby", !.secs = 0]
Denied == [Riding([Nothing EXCEPT !["kickstand"] = 2])
             EXCEPT !.state = "Parked", !.rejected = TRUE]
Reset == [AtRestWith([Nothing EXCEPT !["ble"] = 2, !["setting"] = 1]) EXCEPT !.secs = 0]
HopOn == AtRestWith([Nothing EXCEPT !["ble"] = 2, !["event"] = 2])

Blow  == AtRestWith([Nothing EXCEPT !["horn"] = 3, !["event"] = 2])
Honk  == AtRestWith([Nothing EXCEPT !["horn"] = 2, !["suspend"] = 1])
Toot  == AtRestWith([Nothing EXCEPT !["horn"] = 2, !["honk"] = 1, !["event"] = 1])

AllScenarios ==
  {Stand, Resumed, Sleep, Flood, Phone, Rest, Rider, Switch, Lamp, Night, Waking, Leaving,
   Hopping, Holding, Nap, Doze, Jolt, Denied, Blow, Honk, Toot, Reset}
JustHopOn == {HopOn}

RestEvents == {"Unlock", "Lock", "HopOnEngage", "HopOnRelease", "DbcUpdateComplete",
               "BrakesPressed", "BrakesReleased"}
OffOrOn == {0, 1}
=============================================================================
