------------------------------ MODULE MCFat16 -------------------------------
(* A file in the root, which changes, and two in a directory.                *)
EXTENDS Fat16

MCFiles == {<<"default.cfg">>, <<"savegame", "doomsav0.dsg">>, <<"savegame", "doomsav1.dsg">>}

MCDirs == {<<"savegame">>}

\* One thing to write to each, told apart by its size.
MCValue == [p \in MCFiles |-> {leaf(p)}]

MCValues == [p \in MCFiles |-> IF p = <<"default.cfg">> THEN {"cfg0", "cfg1"} ELSE {leaf(p)}]
=============================================================================
