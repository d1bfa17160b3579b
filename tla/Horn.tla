-------------------------------- MODULE Horn --------------------------------
(***************************************************************************)
(* The horn: its button, whose callback runs in the goroutine that has     *)
(* read the edge, and the commands from Redis.  The button is not heeded   *)
(* in stand-by and in hop-on, neither its press nor its release.           *)
(***************************************************************************)
EXTENDS Inputs

VARIABLES
  horn,     \* the output "horn"
  blower,   \* history: who has set it last
  deaf      \* history: a release was not heeded, not written, or overtaken

hornVars == <<horn, blower, deaf>>

HornInit == horn = FALSE /\ blower = "button" /\ deaf = {}

-----------------------------------------------------------------------------
HornHeeded(s) == s \notin HopOnFamily \cup {"Standby"}

(* The gate in front of handleInputChange's switch.                        *)
HornGate(t) ==
  /\ at[t] = "call" /\ arg[t].ch = "horn"
  /\ IF HornHeeded(state)
     THEN Goto(t, "horn") /\ UNCHANGED <<arg, deaf>>
     ELSE Return(t) /\ deaf' = IF arg[t].val THEN deaf ELSE deaf \cup {"ignored"}
  /\ UNCHANGED <<machineVars, inputVars, horn, blower, left>>

(* Another goroutine has been told a later value of the button.            *)
Outdated(t) == IF reported["horn"] = arg[t].val THEN {} ELSE {"overtaken"}

(* Mutant: a release is not written when the horn is not allowed.          *)
HornWriteAllowed(t) ==
  /\ at[t] = "horn"
  /\ \E allowed \in BOOLEAN : horn' = IF allowed THEN arg[t].val ELSE horn
  /\ blower' = "button" /\ deaf' = Outdated(t)
  /\ Return(t)
  /\ UNCHANGED <<machineVars, inputVars, left>>

(* The setting, the state and the open seatbox may forbid the horn, which  *)
(* lets a release through.  The write of the output may fail.              *)
HornWrite(t) ==
  /\ at[t] = "horn"
  /\ \/ /\ \E allowed \in BOOLEAN : horn' = (arg[t].val /\ allowed)
        /\ blower' = "button" /\ deaf' = Outdated(t)
     \/ /\ deaf' = IF arg[t].val THEN deaf ELSE deaf \cup {"failed"}
        /\ UNCHANGED <<horn, blower>>
  /\ Return(t)
  /\ UNCHANGED <<machineVars, inputVars, left>>

HornStep(t) == HornGate(t) \/ HornWrite(t)

(* handleHornRequest: "on" may be denied by the setting.                   *)
HornRequest ==
  /\ Spend("honk")
  /\ horn' \in BOOLEAN /\ blower' = "command"
  /\ UNCHANGED <<machineVars, threadVars, inputVars, deaf>>

HornTypeOK ==
  /\ horn \in BOOLEAN /\ blower \in {"button", "command"}
  /\ deaf \subseteq {"ignored", "overtaken", "failed"}
=============================================================================
