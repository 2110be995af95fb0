------------------------------- MODULE Editor -------------------------------
(***************************************************************************)
(* The text editor (userland/edit/main.c): one flat buffer with a cursor   *)
(* in it, on which every key works by offsets and scans for line ends, and *)
(* one file it is loaded from and saved to through stdio. Keys are handled *)
(* one at a time; drawing is left out. The file is what fat16_read_file()  *)
(* would return now. The load may fail, and a save where stdio and the     *)
(* file system can, which save_file() does not see.                        *)
(***************************************************************************)
EXTENDS Naturals, SequencesExt

CONSTANTS
  Char, NL,
  MAX_TEXT,
  Files,        \* contents the file may have when the editor starts
  Absent        \* no such file

ASSUME EditorAssumption ==
  /\ MAX_TEXT \in Nat \ {0}
  /\ NL \notin Char /\ Absent \notin Char
  /\ Files \subseteq Seq(Char \cup {NL}) \cup {Absent} /\ Absent \notin Seq(Char \cup {NL})

VARIABLES
  text, cursor,
  has_path, dirty_flag,
  file,         \* what is on the disk under filepath
  io_failed     \* history: the load gave nothing of a file there is, or the last
                \* save reached the disk in part or not at all

editorVars == <<text, cursor, has_path, dirty_flag, file, io_failed>>

text_len == Len(text)

\* Line ends by 0-based offset, as the code counts.
Ends == {i \in 0 .. text_len - 1 : text[i + 1] = NL}

line_start(pos) == Max({0} \cup {i + 1 : i \in {e \in Ends : e < pos}})

line_end_from_next(pos) == Min({text_len} \cup {i \in Ends : i > pos})

line_end(pos) == Min({text_len} \cup {i \in Ends : i >= pos})

column == cursor - line_start(cursor)

-----------------------------------------------------------------------------
\* Keys that change the text.

edited_quietly == dirty_flag

\* dirty_flag after a change.
edited == TRUE

insert_char(c) ==
  /\ text_len < MAX_TEXT - 1
  /\ text' = InsertAt(text, cursor + 1, c)
  /\ cursor' = cursor + 1
  /\ dirty_flag' = edited
  /\ UNCHANGED <<has_path, file, io_failed>>

delete_before_cursor ==
  /\ cursor > 0
  /\ text' = RemoveAt(text, cursor)
  /\ cursor' = cursor - 1
  /\ dirty_flag' = edited
  /\ UNCHANGED <<has_path, file, io_failed>>

-----------------------------------------------------------------------------
\* Keys that move the cursor.

Goto(pos) == cursor' = pos /\ UNCHANGED <<text, has_path, dirty_flag, file, io_failed>>

KC_LEFT == cursor > 0 /\ Goto(cursor - 1)

KC_RIGHT == cursor < text_len /\ Goto(cursor + 1)

move_up ==
  LET prev_end == line_start(cursor) - 1
      prev_start == line_start(prev_end)
  IN  /\ line_start(cursor) > 0
      /\ Goto(prev_start + Min({column, prev_end - prev_start}))

move_down ==
  LET next_start == line_end(cursor) + 1
  IN  /\ line_end(cursor) < text_len
      /\ Goto(next_start + Min({column, line_end(next_start) - next_start}))

KC_HOME == Goto(line_start(cursor))

KC_END == Goto(line_end(cursor))

-----------------------------------------------------------------------------
\* The file.

\* fread() of at most MAX_TEXT - 1 characters of a file there is.
load_file(content) ==
  IF content = Absent THEN <<>> ELSE SubSeq(content, 1, Min({Len(content), MAX_TEXT - 1}))

\* The bytes may all arrive, or realloc() fails in fwrite() and fclose() writes
\* an empty file, or SYS_FILE_WRITE fails before it has changed the file (how far
\* a failed write gets is module Fat16's subject, and nothing is claimed after
\* one). fopen() failing for want of memory is an early return, and no step.
save_file ==
  /\ has_path
  /\ file' \in {text, <<>>, file}
  /\ io_failed' = (file' # text)
  /\ dirty_flag' = FALSE
  /\ UNCHANGED <<text, cursor, has_path>>

-----------------------------------------------------------------------------

\* _start() up to its loop: blank, or the file a path was handed over for. If
\* fopen() fails on a file there is (no memory, no descriptor, the disk), the text
\* is blank and has the path all the same, and no mark says so.
InitEditor ==
  /\ file \in Files
  /\ has_path \in BOOLEAN
  /\ \/ text = (IF has_path THEN load_file(file) ELSE <<>>) /\ io_failed = FALSE
     \/ has_path /\ file # Absent /\ text = <<>> /\ io_failed = TRUE
  /\ cursor = 0
  /\ dirty_flag = FALSE

NextEditor ==
  \/ \E c \in Char \cup {NL} : insert_char(c)
  \/ delete_before_cursor
  \/ KC_LEFT \/ KC_RIGHT \/ move_up \/ move_down \/ KC_HOME \/ KC_END
  \/ save_file

SpecEditor == InitEditor /\ [][NextEditor]_editorVars

-----------------------------------------------------------------------------
\* Properties.

\* The lines of a piece of text: one more than it has line ends.
Split(t) ==
  FoldLeft(LAMBDA ls, c : IF c = NL THEN Append(ls, <<>>)
                          ELSE [ls EXCEPT ![Len(ls)] = Append(@, c)], << <<>> >>, t)

View == INSTANCE LineEditor WITH
  Room <- MAX_TEXT - 1,
  lines <- Split(text),
  row <- Len(Split(SubSeq(text, 1, cursor))),
  col <- Len(Last(Split(SubSeq(text, 1, cursor))))

\* The offsets and scans over one buffer amount to a line editor: at the first
\* and last line, on empty lines and at a buffer that is full, every key changes
\* the text, the row and the column as the keys of one would (main.c:34-108).
ImplementsLines == View!Spec

\* Without the header's " *" the file holds the text shown (from a file that did
\* not fit, its beginning), through any edits, moves and saves, as long as the load
\* and the last save did what they were asked to. Where stdio or the file system
\* failed one of them the mark says nothing: a file that could not be opened shows
\* as an empty one without a mark, and a save then replaces it (main.c:110-134).
CleanIsSaved == has_path /\ ~dirty_flag /\ ~io_failed => text = load_file(file)
=============================================================================
