------------------------------ MODULE MCTables ------------------------------
(***************************************************************************)
(* Small instances of the kernel's three tables, in one state space: its   *)
(* pages and heap, its windows, its volume.  They share no state: the      *)
(* first state picks the one that runs, and the others stay in their only  *)
(* initial state.                                                          *)
(***************************************************************************)
EXTENDS MCMemory, MCFat16, MCCompositor

VARIABLE table

tablesVars == <<table, vars, volumeVars, deskVars>>

InitTables ==
  /\ table \in {"memory", "volume", "windows"}
  /\ Init
  /\ InitVolume
  /\ InitDesk

The(x) == UNCHANGED table /\ table = x

OnlyMemory == The("memory") /\ UNCHANGED <<volumeVars, deskVars>>
OnlyVolume == The("volume") /\ UNCHANGED <<vars, deskVars>>
OnlyWindows == The("windows") /\ UNCHANGED <<vars, volumeVars>>

NextTables ==
  \/ OnlyMemory /\ Next
  \/ OnlyVolume /\ NextVolume
  \/ OnlyWindows /\ NextDesk

SpecTables ==
  /\ InitTables
  /\ [][NextTables]_tablesVars
  /\ \A c \in Caller : WF_tablesVars(OnlyMemory /\ KmallocStep(c) /\ UNCHANGED vmVars)
  /\ WF_tablesVars(OnlyMemory /\ VmStep /\ UNCHANGED heapVars)
  /\ WF_tablesVars(OnlyWindows /\ Loop)
=============================================================================
