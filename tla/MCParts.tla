------------------------------ MODULE MCParts -------------------------------
(***************************************************************************)
(* Small instances of the parts that share no state with one another, in   *)
(* one state space: the first state picks the part that runs, and the      *)
(* others stay in one initial state each.                                  *)
(***************************************************************************)
EXTENDS Spawn, VirtioBlk, VirtioInput, Sound, Editor, Handoff

CONSTANTS nl, absent   \* a line end; no file

VARIABLE part

-----------------------------------------------------------------------------
\* Values of constants.

\* Four pieces of text: none, and files of one, three and (too long) five.
MCFiles == {absent, <<>>, <<"a", nl, "a">>, <<"a", "a", nl, "a", nl>>}

Event(op, ch, note, vel, delay) == [op |-> op, ch |-> ch, note |-> note, vel |-> vel, delay |-> delay]

\* A song with more keys than voices, a retrigger and "all notes off"; drums, a
\* note of velocity 0 and an end of data; one that loops without a delay.
MCScores == {
  << Event("press", 1, 1, 64, Nil), Event("press", 2, 1, Nil, Nil), Event("press", 1, 2, Nil, 1),
     Event("release", 1, 1, Nil, 0), Event("press", 2, 1, 90, Nil), Event("press", 1, 2, Nil, 3),
     Event("system", 1, 0, Nil, 1), Event("end", 0, 0, Nil, Nil) >>,
  << Event("press", 15, 1, Nil, 1), Event("press", 1, 1, 0, 2), Event("press", 1, 1, 9, Cut) >>,
  << Event("press", 1, 1, Nil, 0), Event("pitch", 1, 0, Nil, 0), Event("end", 0, 0, Nil, Nil) >> }

Dir(name, to) == [name |-> name, is_dir |-> TRUE, to |-> to]
File(name, to) == [name |-> name, is_dir |-> FALSE, to |-> to]

\* ".." is an entry of a FAT directory, which in one below the root names
\* cluster 0. "A/XY" is as long as a path can be for the kernel, one more slash (on
\* the way back up from "D") is too much, and "B" leads to the list of "D" again.
MCTree == [root |-> <<Dir("A", "a"), File("X", "x")>>,
           a |-> <<Dir("..", "nowhere"), Dir("D", "d"), File("XY", "xy")>>,
           d |-> <<Dir("B", "b")>>,
           b |-> <<>>]

MCNames == {"A", "B", "D", "X", "XY", "..", "."}

MCWidth == [x \in MCNames \cup {"/"} |-> IF x \in {"..", "XY"} THEN 2 ELSE 1]

MCStart == [x \in MCNames |-> CASE x = ".." -> <<".">> [] x = "XY" -> <<"X">> [] OTHER -> <<>>]

-----------------------------------------------------------------------------

partsVars == <<part, vars, blkVars, inputVars, soundVars, editorVars, handoffVars>>

\* Any one element.
Some(S) == CHOOSE x \in S : TRUE

InitParts ==
  /\ part \in {"spawn", "blk", "input", "sound", "editor", "handoff"}
  /\ Init
  /\ part # "spawn" => pid[Shell] = 1
  /\ InitBlk
  /\ part # "blk" => /\ req_hdr = [type |-> "in", sector |-> Some(Sector)]
                    /\ desc.buf = Some(Client)
                    /\ disk = [s \in Sector |-> Some(Value)]
  /\ InitInput
  /\ InitSound
  /\ InitEditor
  /\ part # "editor" => ~has_path /\ file = absent
  /\ InitHandoff
  /\ part # "handoff" => entries = <<>>

Elsewhere(x) == UNCHANGED part /\ part = x

OnlySpawn == Elsewhere("spawn") /\ UNCHANGED <<blkVars, inputVars, soundVars, editorVars, handoffVars>>
OnlyBlk == Elsewhere("blk") /\ UNCHANGED <<vars, inputVars, soundVars, editorVars, handoffVars>>
OnlyInput == Elsewhere("input") /\ UNCHANGED <<vars, blkVars, soundVars, editorVars, handoffVars>>
OnlySound == Elsewhere("sound") /\ UNCHANGED <<vars, blkVars, inputVars, editorVars, handoffVars>>
OnlyEditor == Elsewhere("editor") /\ UNCHANGED <<vars, blkVars, inputVars, soundVars, handoffVars>>
OnlyHandoff == Elsewhere("handoff") /\ UNCHANGED <<vars, blkVars, inputVars, soundVars, editorVars>>

NextParts ==
  \/ OnlySpawn /\ Next
  \/ OnlyBlk /\ NextBlk
  \/ OnlyInput /\ NextInput
  \/ OnlySound /\ NextSound
  \/ OnlyEditor /\ NextEditor
  \/ OnlyHandoff /\ NextHandoff

SpecParts ==
  /\ InitParts
  /\ [][NextParts]_partsVars
  /\ WF_partsVars(OnlyInput /\ \E poller \in Poller : PollStep(poller))
  /\ WF_partsVars(OnlySound /\ control_roundtrip)
  /\ WF_partsVars(OnlySound /\ SoundUp /\ UpdateStep)
  /\ WF_partsVars(OnlySound /\ SoundUp /\ \E ms \in Gaps : dg_sound_update(ms))

\* Nothing is promised of the disk after a request that timed out.
Unbroken == timeouts = 0
=============================================================================
