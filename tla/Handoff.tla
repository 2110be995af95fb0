------------------------------ MODULE Handoff -------------------------------
(***************************************************************************)
(* The file manager (userland/filemgr/main.c) and how it hands a file to   *)
(* an editor (userland/edit/main.c, _start()): it writes the path into     *)
(* ARGFILE.TXT and spawns edit.elf, which reads the path, loads the file   *)
(* and empties ARGFILE.TXT. The desktop starts editors too, with no file   *)
(* in mind. Each system call is a step; the processes run in any order     *)
(* between them, and any call and any process may fail. A path is a        *)
(* sequence of names and slashes, as the code composes it, and is cut to   *)
(* what the buffer it is copied into has room for: MAX_PATH in the two     *)
(* programs, KERNEL_PATH in the system calls.                              *)
(***************************************************************************)
EXTENDS Naturals, SequencesExt

CONSTANTS
  Root, Tree,    \* Tree[d]: the entries of directory d, [name, is_dir, to]
  Programs,      \* files whose name ends in .ELF
  Nowhere,       \* what a path that does not resolve leads to
  Editors,       \* processes that may run edit.elf
  Names,         \* names of entries, and what is left of them when they are cut
  Width,         \* how many characters a name has, and a slash
  Start,         \* Start[x][k]: what the first k characters of x spell
  MAX_PATH,      \* filemgr's and edit's: room for a path, its final 0 included
  KERNEL_PATH,   \* MAX_PATH of kernel/sched/syscall.c
  Nothing

Slash == "/"

\* What paths are made of.
Word == {Slash} \cup Names

\* A directory has no two entries of one name: fat16.c looks a name up before it
\* adds an entry.
ASSUME HandoffAssumption ==
  /\ Root \in DOMAIN Tree /\ Nowhere \notin DOMAIN Tree
  /\ \A d \in DOMAIN Tree :
       /\ Len(Tree[d]) \in Nat /\ DOMAIN Tree[d] = 1 .. Len(Tree[d])
       /\ \A i \in DOMAIN Tree[d] : Tree[d][i].name \in Names /\ Tree[d][i].to # Nothing
       /\ \A i, j \in DOMAIN Tree[d] : Tree[d][i].name = Tree[d][j].name => i = j
  /\ Nothing \notin Seq(Word) /\ Slash \notin Names
  /\ Width \in [Word -> Nat \ {0}] /\ Width[Slash] = 1
  /\ \A x \in Names : \A k \in 1 .. Width[x] - 1 : Start[x][k] \in Names /\ Width[Start[x][k]] = k
  /\ KERNEL_PATH \in Nat \ {0} /\ MAX_PATH \in Nat /\ MAX_PATH > KERNEL_PATH + 1

VARIABLES
  cur_dir, entries, selected,   \* the file manager
  sending,     \* the row whose path it wrote and has not spawned for, or Nothing
  argfile,     \* ARGFILE.TXT: a path, <<>> if empty, Nothing if there is none
  editor,      \* [stage, path, wanted]: path as read, wanted: history, the row's file
  crossed      \* history: this hand-over was disturbed

handoffVars == <<cur_dir, entries, selected, sending, argfile, editor, crossed>>

-----------------------------------------------------------------------------
\* Paths.

\* resolve_path() of fat16.c.
Enter(d, name) ==
  LET Named == IF d \in DOMAIN Tree THEN {i \in DOMAIN Tree[d] : Tree[d][i].name = name} ELSE {}
  IN  IF Named = {} THEN Nowhere ELSE Tree[d][Min(Named)].to

resolve_path(path) ==
  LET at[n \in 0 .. Len(path)] ==
        IF n = 0 THEN Root ELSE IF path[n] = Slash THEN at[n - 1] ELSE Enter(at[n - 1], path[n])
  IN  at[Len(path)]

\* The characters of a path, by the word they are in and their place in it.
Letters(path) == UNION {{i} \X (1 .. Width[path[i]]) : i \in DOMAIN path}

chars(path) == Cardinality(Letters(path))

\* The most of its words that max characters hold.
whole(path, max) == Max({0} \cup {n \in DOMAIN path : chars(SubSeq(path, 1, n)) <= max})

\* A copy of at most max characters.
cut(path, max) ==
  LET w == whole(path, max)
      kept == SubSeq(path, 1, w)
      left == max - chars(kept)
  IN  IF chars(path) <= max THEN path
      ELSE IF left = 0 THEN kept ELSE Append(kept, Start[path[w + 1]][left])

CutAfter(s, Ends(_)) == SubSeq(s, 1, Max({0} \cup {i \in DOMAIN s : Ends(s[i])}))

path_up == CutAfter(CutAfter(cur_dir, LAMBDA x : x # Slash), LAMBDA x : x = Slash)

Unslashed == cur_dir # <<>> /\ Last(cur_dir) # Slash

path_down(name) ==
  cut(cur_dir \o (IF Unslashed THEN <<Slash>> ELSE <<>>) \o <<name>>, MAX_PATH - 1)

full(name) ==
  IF cur_dir = <<>> THEN cut(<<name>>, MAX_PATH - 1)
  ELSE cut(cut(cur_dir, MAX_PATH - 2) \o <<Slash, name>>, MAX_PATH - 1)

\* What a system call finds at a path.
kernel_resolve(path) == resolve_path(cut(path, KERNEL_PATH - 1))

-----------------------------------------------------------------------------
\* The file manager.

has_dotdot == cur_dir # <<>>

total_rows == Len(entries) + (IF has_dotdot THEN 1 ELSE 0)

\* The entry under the selection; none for the ".." of the first row.
entry == entries[IF has_dotdot THEN selected ELSE selected + 1]

OnDotDot == has_dotdot /\ selected = 0

\* SYS_LISTDIR of a directory that cannot be read, or is none, has no entries.
listdir(path) ==
  LET d == kernel_resolve(path) IN {<<>>} \cup (IF d \in DOMAIN Tree THEN {Tree[d]} ELSE {})

refresh(path) ==
  /\ cur_dir' = path
  /\ entries' \in listdir(path)
  /\ selected' = 0
  /\ UNCHANGED <<sending, argfile, editor, crossed>>

Select(row) ==
  /\ selected' = row
  /\ UNCHANGED <<cur_dir, entries, sending, argfile, editor, crossed>>

KC_UP == sending = Nothing /\ selected > 0 /\ Select(selected - 1)

KC_DOWN == sending = Nothing /\ selected + 1 < total_rows /\ Select(selected + 1)

click(row) == sending = Nothing /\ row < total_rows /\ Select(row)

KC_BACKSPACE == sending = Nothing /\ has_dotdot /\ refresh(path_up)

enter_dotdot == sending = Nothing /\ total_rows > 0 /\ OnDotDot /\ refresh(path_up)

\* In a buffer that is full but for the 0, path_down() has no room for the slash:
\* what it would write past the buffer is not followed.
enter_directory ==
  /\ sending = Nothing /\ total_rows > 0 /\ ~OnDotDot
  /\ entry.is_dir
  /\ Unslashed => chars(cur_dir) < MAX_PATH - 1
  /\ refresh(path_down(entry.name))

-----------------------------------------------------------------------------
\* What disturbs a hand-over stays with it until ARGFILE.TXT is empty again and
\* nobody is about to use it.

Starting == {e \in Editors : editor[e].stage \in {"start", "read"}}

Quiet == sending = Nothing /\ Starting = {} /\ argfile \in {Nothing, <<>>}

Disturbed(how) == crossed' = ((crossed \/ how) /\ ~Quiet')

\* open_in_editor(), first half: fopen(), fwrite(), fclose(). The path is written,
\* or an empty file (fwrite() had no memory), or nothing.
open_in_editor ==
  /\ sending = Nothing /\ total_rows > 0 /\ ~OnDotDot
  /\ ~entry.is_dir /\ entry.to \notin Programs
  /\ sending' = entry.to
  /\ UNCHANGED <<cur_dir, entries, selected, editor>>
  /\ \/ argfile' = full(entry.name) /\ Disturbed(Starting # {})
     \/ argfile' \in {<<>>, argfile} /\ Disturbed(TRUE)

Spawned(file) ==
  \E e \in Editors :
    /\ editor[e].stage = "none"
    /\ editor' = [editor EXCEPT ![e] = [stage |-> "start", path |-> Nothing, wanted |-> file]]

\* Second half. SYS_SPAWN may return -1, which nobody looks at.
spawn_editor ==
  /\ sending # Nothing
  /\ sending' = Nothing
  /\ UNCHANGED <<cur_dir, entries, selected, argfile>>
  /\ \/ Spawned(sending) /\ Disturbed(Starting # {})
     \/ UNCHANGED editor /\ Disturbed(TRUE)

\* The desktop's icon (wm) or the console's `run edit.elf`.
bare_launch ==
  /\ Spawned(Nothing)
  /\ UNCHANGED <<cur_dir, entries, selected, sending, argfile>>
  /\ Disturbed(sending # Nothing \/ Starting # {})

-----------------------------------------------------------------------------
\* An editor starts.

StageOf(e, from, to, path) ==
  /\ editor[e].stage = from
  /\ editor' = [editor EXCEPT ![e].stage = to, ![e].path = path]
  /\ UNCHANGED <<cur_dir, entries, selected, sending>>

\* fopen(), fread() and fclose(): with no file, or an empty one, it is blank. What
\* is in the file fits pathbuf and filepath.
read_handoff(e) ==
  /\ argfile # Nothing
  /\ StageOf(e, "start", "read", IF argfile = <<>> THEN Nothing ELSE argfile)
  /\ UNCHANGED argfile
  /\ Disturbed(FALSE)

no_handoff(e) ==
  /\ StageOf(e, "start", "run", Nothing)
  /\ UNCHANGED argfile
  /\ Disturbed(argfile # Nothing)     \* there is one, and SYS_OPEN or malloc() failed

left_alone == argfile

emptied_file == <<>>

clear_handoff(e) ==
  /\ StageOf(e, "read", "run", Nothing)
  /\ \/ argfile' = emptied_file /\ Disturbed(FALSE)
     \/ UNCHANGED argfile /\ Disturbed(TRUE)

\* SYS_EXIT, or the window's close button, at any moment.
ended(e) ==
  /\ editor[e].stage # "none"
  /\ editor' = [editor EXCEPT ![e] = [stage |-> "none", path |-> Nothing, wanted |-> Nothing]]
  /\ UNCHANGED <<cur_dir, entries, selected, sending, argfile>>
  /\ Disturbed(e \in Starting)

-----------------------------------------------------------------------------

InitHandoff ==
  /\ cur_dir = <<>>
  /\ entries \in listdir(<<>>)
  /\ selected = 0
  /\ sending = Nothing
  /\ argfile = Nothing
  /\ editor = [e \in Editors |-> [stage |-> "none", path |-> Nothing, wanted |-> Nothing]]
  /\ crossed = FALSE

FileManager ==
  \/ KC_UP \/ KC_DOWN \/ KC_BACKSPACE
  \/ \E row \in 0 .. Len(entries) : click(row)
  \/ enter_dotdot \/ enter_directory
  \/ open_in_editor \/ spawn_editor

NextHandoff ==
  \/ FileManager
  \/ bare_launch
  \/ \E e \in Editors : read_handoff(e) \/ no_handoff(e) \/ clear_handoff(e) \/ ended(e)

SpecHandoff == InitHandoff /\ [][NextHandoff]_handoffVars

-----------------------------------------------------------------------------
\* Properties.

\* An editor opens the file of the row that was selected, and one started bare
\* opens none, whatever happened at earlier launches, if the path it was given fits
\* the copy SYS_OPEN makes and unless this hand-over overlapped with another or one
\* of its own steps failed (filemgr/main.c:80-124, edit/main.c:212-233,
\* syscall.c:28-34). That the list itself may be another directory's, when the
\* path of this one was cut, makes no difference to what fits.
LaunchOpens ==
  \A e \in Editors : editor[e].stage = "read" /\ ~crossed =>
    IF editor[e].wanted = Nothing THEN editor[e].path = Nothing
    ELSE /\ editor[e].path # Nothing
         /\ chars(editor[e].path) < KERNEL_PATH => kernel_resolve(editor[e].path) = editor[e].wanted
=============================================================================
