----------------------------- MODULE InputLine ------------------------------
(***************************************************************************)
(* What the handler of one switch input is promised, whatever the input    *)
(* layer (Inputs) does with debounce timers, duplicates, lost events and   *)
(* resyncs: it is never told the same value twice in a row, and a value    *)
(* the line keeps is told in the end, as long as the last look at the line *)
(* was not overtaken by an edge (sure).                                    *)
(***************************************************************************)
VARIABLES
  line,   \* the level of the switch
  told,   \* the value the handler was last called with
  sure    \* no look at the line that is out of date was taken last

vars == <<line, told, sure>>

Init == line \in BOOLEAN /\ told = line /\ sure = TRUE

Flip == line' = ~line /\ UNCHANGED told /\ sure' \in BOOLEAN

Tell == told' = ~told /\ UNCHANGED line /\ sure' \in BOOLEAN

Doubt == sure' = ~sure /\ UNCHANGED <<line, told>>

Next == Flip \/ Tell \/ Doubt

(* The call that brings the handler up to date.                            *)
CatchUp == sure /\ told # line /\ Tell

Spec == Init /\ [][Next]_vars /\ WF_vars(CatchUp)
=============================================================================
