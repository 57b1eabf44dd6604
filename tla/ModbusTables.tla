------------------------------ MODULE ModbusTables ------------------------------
(***************************************************************************)
(* The tables of a Modbus window.  The rows of the coil table are edited   *)
(* while no link is open (RegisterTable) and refreshed and switched while  *)
(* one is (CoilRefresh): setControlState of the window disables the rows   *)
(* (setFunctionTableState).  The values of the table of holding registers  *)
(* are lines of text that are edited while the link refreshes them         *)
(* (HoldingTable).  A behaviour here is all of one side: a refreshing      *)
(* starts from rows with any addresses, so what an editing left behind is  *)
(* not handed on, and the tables share no rows.                            *)
(***************************************************************************)
EXTENDS CoilRefresh

CONSTANTS Typed, TableRows, visibleRows, Registers, Values, HoldingRows, MaxReads, MaxClicks,
          MaxTurns

ASSUME TypedAssumption == Typed \subseteq 0..255
ASSUME TablesAssumption ==
    {TableRows, visibleRows, HoldingRows, MaxReads, MaxClicks, MaxTurns} \subseteq Nat \ {0}
ASSUME HoldingAssumption == Registers \subseteq Nat /\ 0 \in Values /\ Values \subseteq 0..65535

VARIABLES
    side,   \* "edited", "refreshed" or "holding"
    cells, rowsData, text, captured, hex, scroll, saved,
    holding, device, opened, ending, locked, refreshing, register, asked, told, given, clicks,
    turns, reconnected, crashed

tableVars == <<cells, rowsData, text, captured, hex, scroll, saved>>
holdingVars == <<holding, device, opened, ending, locked, refreshing, register, asked, told,
                 given, clicks, turns, reconnected, crashed>>

Table == INSTANCE RegisterTable WITH Addresses <- Typed, MaxRows <- TableRows

Holding == INSTANCE HoldingTable
    WITH MaxRows <- HoldingRows, rows <- holding, reads <- asked, answers <- told,
         writes <- given

TablesInit ==
    /\ side \in {"edited", "refreshed", "holding"}
    /\ Init /\ Table!Init /\ Holding!Init
    /\ side # "refreshed" => rows = <<CHOOSE a \in Addresses : TRUE>>
    /\ side # "holding" => register = [a \in Registers |-> 0]

Edited == side = "edited" /\ Table!Next /\ UNCHANGED <<side, vars, holdingVars>>
Refreshed == side = "refreshed" /\ Next /\ UNCHANGED <<side, tableVars, holdingVars>>
Held == side = "holding" /\ Holding!Next /\ UNCHANGED <<side, vars, tableVars>>
TablesNext == Edited \/ Refreshed \/ Held

\* The timer runs, and the slave answers, while the link is open.
TablesSpec ==
    /\ TablesInit
    /\ [][TablesNext]_<<side, vars, tableVars, holdingVars>>
    /\ WF_vars(side = "refreshed" /\ Refresh) /\ WF_vars(side = "refreshed" /\ SlaveReads)
    /\ WF_vars(side = "refreshed" /\ SlaveWrites)
    /\ WF_vars(side = "refreshed" /\ sloveDataReceived)
    /\ Holding!Fairness

-----------------------------------------------------------------------------
(* The properties, each stated and explained in its module *)

\* RegisterTable, CoilRefresh: the rows of the view are the entries of rowsData_, a
\* saved record is restored into the rows it came from, and just the addresses of
\* the rows are asked for.
RowsKeepTheirData ==
    /\ [](Table!RowsMatchData /\ RangesAreTheRuns)
    /\ Table!RestoreShowsTheRecord

\* HoldingTable: what can be typed can be confirmed or taken back, a connection has a
\* cause, and the settings are locked only for a link that is shown.
EditsEnd == Holding!EditsEnd

\* CoilRefresh, HoldingTable: rows come to show what the slave has.
TablesConverge == StartsConverge /\ Holding!RowsConverge
=============================================================================
