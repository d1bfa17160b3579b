------------------------------ MODULE FsmProofs ------------------------------
(* Facts about the transition table that the proofs of the components use. *)
EXTENDS VehicleFsm, TLAPS

(* Every row leads to a leaf.                                              *)
LEMMA RowsReachLeaves == \A t \in Table : t.to \in Leaves
  BY DEF Table, StandbyRows, AtRestRows, ParkedRows, HopOnRows, ReadyToDriveRows,
         ShuttingDownRows, WaitingSeatboxRows, HibernationRows, Row, Leaves,
         AtRestLeaves, HibernationLeaves

(* Stand-by is entered from shutting-down only.                            *)
LEMMA StandbyFromShuttingDown == \A t \in Table : t.to = "Standby" => t.from = "ShuttingDown"
  BY DEF Table, StandbyRows, AtRestRows, ParkedRows, HopOnRows, ReadyToDriveRows,
         ShuttingDownRows, WaitingSeatboxRows, HibernationRows, Row

(* What is selected in a leaf is a row of the leaf or of its parent.       *)
LEMMA SelectedRows ==
  \A s, e, G : \A t \in Selected(s, e, G) : t \in Table /\ t.from \in {s, Parent(s)}
  BY DEF Selected, Candidates, RowsFor

(* So an event only ever leads to a leaf, whatever the guards say.         *)
LEMMA SelectedReachesLeaf == \A s, e, G : \A t \in Selected(s, e, G) : t.to \in Leaves
  BY SelectedRows, RowsReachLeaves

(* And only shutting-down leads to stand-by.                               *)
LEMMA SelectedStandby ==
  \A s, e, G : \A t \in Selected(s, e, G) : t.to = "Standby" => s = "ShuttingDown"
  BY SelectedRows, StandbyFromShuttingDown DEF Parent

(* Its timeout only, of all events.                                        *)
LEMMA StandbyRow == \A t \in Table : t.to = "Standby" => t.on = "ShutdownTimeout"
  BY DEF Table, StandbyRows, AtRestRows, ParkedRows, HopOnRows, ReadyToDriveRows,
         ShuttingDownRows, WaitingSeatboxRows, HibernationRows, Row

(* So that timeout is what leads to stand-by.                              *)
LEMMA SelectedStandbyEvent ==
  \A s, e, G : \A t \in Selected(s, e, G) : t.to = "Standby" => e = "ShutdownTimeout"
  BY StandbyRow DEF Selected, Candidates, RowsFor

(* Drive mode is left for Parked or for a shutdown.                        *)
LEMMA DriveRows ==
  \A t \in Table : t.from = "ReadyToDrive" => t.to \in {"Parked", "ShuttingDown"}
  BY DEF Table, StandbyRows, AtRestRows, ParkedRows, HopOnRows, ReadyToDriveRows,
         ShuttingDownRows, WaitingSeatboxRows, HibernationRows, Row

(* So an event dispatched in drive mode leads nowhere else.                *)
LEMMA SelectedFromDrive ==
  \A e, G : \A t \in Selected("ReadyToDrive", e, G) : t.to \in {"Parked", "ShuttingDown"}
  BY SelectedRows, DriveRows DEF Parent, AtRestLeaves, HibernationLeaves

(* The end of an update is never ignored in stand-by.                      *)
LEMMA UpdateEndRow ==
  \A G : \E t \in Selected("Standby", "DbcUpdateComplete", G) : t.to = "ShuttingDown"
<1> DEFINE row == Row("Standby", "DbcUpdateComplete", 1, {}, "ShuttingDown", "none")
<1>1. row \in Table
  BY DEF Table, StandbyRows
<1>2. \A t \in Table : (t.from = "Standby" /\ t.on = "DbcUpdateComplete") => t = row
  BY DEF Table, StandbyRows, AtRestRows, ParkedRows, HopOnRows, ReadyToDriveRows,
         ShuttingDownRows, WaitingSeatboxRows, HibernationRows, Row
<1>3. Parent("Standby") = "Standby" /\ "DbcUpdateComplete" \notin Blocked("Standby")
  BY DEF Parent, Blocked, AtRestLeaves, HibernationLeaves
<1>4. row.from = "Standby" /\ row.on = "DbcUpdateComplete" /\ row.guards = {}
      /\ row.to = "ShuttingDown" /\ row.rank = 1
  BY DEF Row
<1> HIDE DEF row
<1>5. ASSUME NEW G PROVE row \in Selected("Standby", "DbcUpdateComplete", G)
  <2>1. row \in Candidates("Standby", "DbcUpdateComplete", G)
    BY <1>1, <1>3, <1>4 DEF Candidates, RowsFor
  <2>2. \A u \in Candidates("Standby", "DbcUpdateComplete", G) : u = row
    BY <1>2, <1>3 DEF Candidates, RowsFor
  <2>3. ~Before(row, row, "Standby")
    BY <1>4 DEF Before
  <2> QED
    BY <2>1, <2>2, <2>3 DEF Selected
<1> QED
  BY <1>4, <1>5

(* A restart resumes in a leaf, and never in the middle of a shutdown.     *)
LEMMA RestorableAreLeaves ==
  /\ RestorableLeaves \subseteq Leaves
  /\ "ShuttingDown" \notin RestorableLeaves
  BY DEF RestorableLeaves, RestorableStates, LeafOf, Leaves, AtRestLeaves, HibernationLeaves

(* A refused drive start is never ignored in drive mode.                   *)
LEMMA RefusalRow == \A G : Selected("ReadyToDrive", "DashboardNotReady", G) # {}
<1> DEFINE row == Row("ReadyToDrive", "DashboardNotReady", 1, {}, "Parked", "none")
<1>1. row \in Table
  BY DEF Table, ReadyToDriveRows
<1>2. \A t \in Table : t.on = "DashboardNotReady" => t = row
  BY DEF Table, StandbyRows, AtRestRows, ParkedRows, HopOnRows, ReadyToDriveRows,
         ShuttingDownRows, WaitingSeatboxRows, HibernationRows, Row
<1>3. "DashboardNotReady" \notin Blocked("ReadyToDrive")
  BY DEF Blocked
<1>4. row.from = "ReadyToDrive" /\ row.on = "DashboardNotReady" /\ row.guards = {}
  BY DEF Row
<1>5. ~Before(row, row, "ReadyToDrive")
  BY DEF Before, Row
<1> HIDE DEF row
<1>6. ASSUME NEW G PROVE row \in Selected("ReadyToDrive", "DashboardNotReady", G)
  <2>1. row \in Candidates("ReadyToDrive", "DashboardNotReady", G)
    BY <1>1, <1>3, <1>4 DEF Candidates, RowsFor
  <2>2. \A u \in Candidates("ReadyToDrive", "DashboardNotReady", G) : u = row
    BY <1>2 DEF Candidates, RowsFor
  <2> QED
    BY <2>1, <2>2, <1>5 DEF Selected
<1> QED
  BY <1>6

(* Nor is the shutdown's timeout while it shuts down.                      *)
LEMMA TimeoutRow == \A G : Selected("ShuttingDown", "ShutdownTimeout", G) # {}
<1> DEFINE row == Row("ShuttingDown", "ShutdownTimeout", 1, {}, "Standby", "none")
<1>1. row \in Table
  BY DEF Table, ShuttingDownRows
<1>2. \A t \in Table : t.on = "ShutdownTimeout" => t = row
  BY DEF Table, StandbyRows, AtRestRows, ParkedRows, HopOnRows, ReadyToDriveRows,
         ShuttingDownRows, WaitingSeatboxRows, HibernationRows, Row
<1>3. "ShutdownTimeout" \notin Blocked("ShuttingDown")
  BY DEF Blocked
<1>4. row.from = "ShuttingDown" /\ row.on = "ShutdownTimeout" /\ row.guards = {}
  BY DEF Row
<1>5. ~Before(row, row, "ShuttingDown")
  BY DEF Before, Row
<1> HIDE DEF row
<1>6. ASSUME NEW G PROVE row \in Selected("ShuttingDown", "ShutdownTimeout", G)
  <2>1. row \in Candidates("ShuttingDown", "ShutdownTimeout", G)
    BY <1>1, <1>3, <1>4 DEF Candidates, RowsFor
  <2>2. \A u \in Candidates("ShuttingDown", "ShutdownTimeout", G) : u = row
    BY <1>2 DEF Candidates, RowsFor
  <2> QED
    BY <2>1, <2>2, <1>5 DEF Selected
<1> QED
  BY <1>6

(* A shutdown that may not be aborted ends in stand-by.                    *)
LEMMA ShutdownRow ==
  \A e, G : "CanAbortShutdown" \notin G =>
    \A t \in Selected("ShuttingDown", e, G) : t.to = "Standby"
<1>1. \A t \in Table : t.from = "ShuttingDown" =>
        t.to = "Standby" \/ t.guards = {"CanAbortShutdown"}
  BY DEF Table, StandbyRows, AtRestRows, ParkedRows, HopOnRows, ReadyToDriveRows,
         ShuttingDownRows, WaitingSeatboxRows, HibernationRows, Row
<1>2. Parent("ShuttingDown") = "ShuttingDown"
  BY DEF Parent, AtRestLeaves, HibernationLeaves
<1> QED
  BY <1>1, <1>2 DEF Selected, Candidates, RowsFor
=============================================================================
