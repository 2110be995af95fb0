----------------------------- MODULE Compositor -----------------------------
(***************************************************************************)
(* The window system (kernel/gfx/compositor.c): a window table shared by   *)
(* compositor_task, a preemptible kernel task, and the system calls of the *)
(* processes, which run with IRQs masked.                                  *)
(*                                                                         *)
(* Each system call is one action.  compositor_task is taken apart at its  *)
(* event handlers, at each window of gc_dead_windows() and of              *)
(* composite_frame(), and at `dirty = 0`, and a process may run between    *)
(* any two of them.  Pixels and geometry are left out: which windows the   *)
(* pointer is over, and on what part of the topmost, is a choice.          *)
(***************************************************************************)
EXTENDS Naturals, Sequences, FiniteSets

CONSTANTS
  Apps,
  MAX_WINDOWS,
  EVQ_SIZE,
  Desktop,     \* processes that ask for WIN_FLAG_BORDERLESS
  Watched,     \* those that `missed` keeps an eye on
  None

ASSUME CompositorAssumption ==
  /\ MAX_WINDOWS \in Nat \ {0} /\ EVQ_SIZE \in Nat \ {0}
  /\ Desktop \subseteq Apps /\ Watched \subseteq Apps
  /\ None \notin Apps /\ None \notin 1 .. MAX_WINDOWS

Slot == 1 .. MAX_WINDOWS

VARIABLES
  win,       \* windows[]: the owner (None: not used), and whether maximized
  kbd,       \* the keyboard queue of each window
  mouse,     \* its mouse queue
  zorder,    \* bottom first
  focused,   \* focused_idx, None for -1
  drag,      \* drag_idx
  dirty,
  life,      \* each process: "alive", whether it has a window or not, or "dead"
  at,        \* where compositor_task is
  pos,       \* its loop index there
  missed     \* watched processes whose window changed after the frame in progress drew it

deskVars == <<win, kbd, mouse, zorder, focused, drag, dirty, life, at, pos, missed>>

windowVars == <<win, kbd, mouse, zorder, focused, drag>>

Used == {s \in Slot : win[s].pid # None}

Borderless(s) == win[s].pid \in Desktop

find_by_pid(p) == {s \in Slot : win[s].pid = p}

\* What the queues hold: a key, a click or a resize, and whose it was.
Event == [type : {"key", "click", "resize"}, to : Apps]

push_unbounded(q, e) == Append(q, e)

\* push_event(): a full queue drops the new event.
push_event(q, e) == IF Len(q) >= EVQ_SIZE THEN q ELSE Append(q, e)

Top(z) == IF z = <<>> THEN None ELSE z[Len(z)]

zorder_insert(z, s, bottom) == IF bottom THEN <<s>> \o z ELSE Append(z, s)

\* Closes the gap at the entry for s, if there is one.
zorder_remove(z, s) ==
  LET gap == CHOOSE i \in DOMAIN z : z[i] = s
  IN  IF \E i \in DOMAIN z : z[i] = s
      THEN [i \in 1 .. Len(z) - 1 |-> IF i < gap THEN z[i] ELSE z[i + 1]]
      ELSE z

raised_always(s) == zorder_insert(zorder_remove(zorder, s), s, FALSE)

\* The order after raise_and_focus(): the desktop stays where it is.
raised(s) == IF Borderless(s) THEN zorder
             ELSE zorder_insert(zorder_remove(zorder, s), s, FALSE)

-----------------------------------------------------------------------------
\* System calls.

emptied_kept(q, s) == q

emptied(q, s) == [q EXCEPT ![s] = <<>>]

\* A frame not begun yet will show what p has drawn.
late(p) == IF at = "frame" THEN missed \cup ({p} \cap Watched) ELSE missed

compositor_create_window(p) ==
  /\ life[p] = "alive"
  /\ find_by_pid(p) = {}
  /\ \E s \in Slot \ Used :
       /\ \A r \in Slot \ Used : s <= r
       /\ kbd' = emptied(kbd, s)
       /\ mouse' = emptied(mouse, s)
       /\ \/ /\ win' = [win EXCEPT ![s] = [pid |-> p, max |-> FALSE]]
             /\ zorder' = zorder_insert(zorder, s, p \in Desktop)
             /\ focused' = s
             /\ dirty' = TRUE
             /\ missed' = late(p)
          \/ UNCHANGED <<win, zorder, focused, dirty, missed>>   \* kmalloc failed
  /\ UNCHANGED <<drag, life, at, pos>>

\* The SYS_FB_ calls draw into the window's buffer; SYS_FB_PRESENT asks for
\* it to be shown.
compositor_present(p) ==
  /\ life[p] = "alive"
  /\ dirty' = TRUE
  /\ missed' = IF find_by_pid(p) = {} THEN missed ELSE late(p)
  /\ UNCHANGED <<windowVars, life, at, pos>>

compositor_poll_event(p) ==
  /\ life[p] = "alive"
  /\ \E s \in find_by_pid(p) :
       \/ kbd[s] # <<>> /\ kbd' = [kbd EXCEPT ![s] = Tail(@)] /\ UNCHANGED mouse
       \/ mouse[s] # <<>> /\ mouse' = [mouse EXCEPT ![s] = Tail(@)] /\ UNCHANGED kbd
  /\ UNCHANGED <<win, zorder, focused, drag, dirty, life, at, pos, missed>>

\* SYS_EXIT: the window waits for gc_dead_windows().
exit(p) ==
  /\ life[p] = "alive"
  /\ life' = [life EXCEPT ![p] = "dead"]
  /\ missed' = missed \ {p}
  /\ UNCHANGED <<windowVars, dirty, at, pos>>

-----------------------------------------------------------------------------
\* compositor_task: the mouse loop.

focus_kept(s, z) == focused

\* free_window() hands the focus of a freed window to the topmost one left.
focus_after(s, z) == IF focused = s THEN Top(z) ELSE focused

drag_after(s) == IF drag = s THEN None ELSE drag

free_window(s) ==
  LET z == zorder_remove(zorder, s)
  IN  /\ win' = [win EXCEPT ![s] = [pid |-> None, max |-> FALSE]]
      /\ zorder' = z
      /\ focused' = focus_after(s, z)
      /\ drag' = drag_after(s)
      /\ dirty' = TRUE
      /\ UNCHANGED <<kbd, mouse>>

\* The pid handed to sched_kill().
victim(s) == win[s].pid

close_window(s) ==
  /\ free_window(s)
  /\ life' = [life EXCEPT ![victim(s)] = "dead"]
  /\ missed' = missed \ {victim(s)}

raise_and_focus(s) ==
  /\ focused' = s
  /\ zorder' = raised(s)

press_maximize(s) ==
  /\ raise_and_focus(s)
  /\ win' = [win EXCEPT ![s].max = ~@]
  /\ kbd' = [kbd EXCEPT ![s] = push_event(@, [type |-> "resize", to |-> win[s].pid])]
  /\ dirty' = TRUE
  /\ UNCHANGED <<mouse, drag, life, missed>>

press_title(s) ==
  /\ raise_and_focus(s)
  /\ drag' = s
  /\ dirty' = TRUE
  /\ UNCHANGED <<win, kbd, mouse, life, missed>>

press_client(s) ==
  /\ raise_and_focus(s)
  /\ mouse' = [mouse EXCEPT ![s] = push_event(@, [type |-> "click", to |-> win[s].pid])]
  /\ dirty' = TRUE
  /\ UNCHANGED <<win, kbd, drag, life, missed>>

press_border(s) ==
  /\ raise_and_focus(s)
  /\ dirty' = TRUE
  /\ UNCHANGED <<win, kbd, mouse, drag, life, missed>>

\* A maximized window and the desktop cover the screen; any other window may
\* be under the pointer or not.  The topmost one that is takes the press.
Hit(s) ==
  \E i \in DOMAIN zorder :
    /\ zorder[i] = s
    /\ \A j \in i + 1 .. Len(zorder) : ~win[zorder[j]].max /\ ~Borderless(zorder[j])

handle_mouse_press(s) ==
  /\ at = "mouse"
  /\ Hit(s)
  /\ \/ press_client(s)
     \/ /\ ~Borderless(s)
        /\ close_window(s) \/ press_maximize(s) \/ press_title(s) \/ press_border(s)
  /\ UNCHANGED <<at, pos>>

release ==
  /\ at = "mouse"
  /\ drag' = None
  /\ UNCHANGED <<win, kbd, mouse, zorder, focused, dirty, life, at, pos, missed>>

\* EV_SYN after EV_ABS: the cursor moves, and a dragged window with it.
move ==
  /\ at = "mouse"
  /\ dirty' = TRUE
  /\ UNCHANGED <<windowVars, life, at, pos, missed>>

mouse_drained ==
  /\ at = "mouse"
  /\ at' = "keyboard"
  /\ UNCHANGED <<windowVars, dirty, life, pos, missed>>

-----------------------------------------------------------------------------
\* The keyboard loop, the sweep of dead windows, the frame.

key ==
  /\ at = "keyboard"
  /\ focused # None
  /\ kbd' = [kbd EXCEPT ![focused] = push_event(@, [type |-> "key", to |-> win[focused].pid])]
  /\ UNCHANGED <<win, mouse, zorder, focused, drag, dirty, life, at, pos, missed>>

keyboard_drained ==
  /\ at = "keyboard"
  /\ at' = "gc"
  /\ pos' = 1
  /\ UNCHANGED <<windowVars, dirty, life, missed>>

owner_dead(s) == s \in Used /\ life[win[s].pid] = "dead"

swept_early(n) == n >= MAX_WINDOWS

\* The sweep's loop is over.
swept(n) == n > MAX_WINDOWS

gc_dead_windows ==
  /\ at = "gc"
  /\ ~swept(pos)
  /\ IF owner_dead(pos) THEN free_window(pos) ELSE UNCHANGED <<windowVars, dirty>>
  /\ pos' = pos + 1
  /\ UNCHANGED <<life, at, missed>>

\* if (dirty): the frame is begun, else the task sleeps and starts over.
gc_done ==
  /\ at = "gc"
  /\ swept(pos)
  /\ at' = IF dirty THEN "frame" ELSE "mouse"
  /\ pos' = 1
  /\ UNCHANGED <<windowVars, dirty, life, missed>>

\* One window of composite_frame()'s loop, bottom to top.
composite_window ==
  /\ at = "frame"
  /\ pos <= Len(zorder)
  /\ missed' = missed \ {win[zorder[pos]].pid}
  /\ pos' = pos + 1
  /\ UNCHANGED <<windowVars, dirty, life, at>>

\* fb_present(), then the flag is cleared, whoever has set it meanwhile, and
\* the task sleeps a tick before its next round.
clear_dirty ==
  /\ at = "frame"
  /\ pos > Len(zorder)
  /\ dirty' = FALSE
  /\ at' = "mouse"
  /\ pos' = 1
  /\ UNCHANGED <<windowVars, life, missed>>

-----------------------------------------------------------------------------

InitDesk ==
  /\ win = [s \in Slot |-> [pid |-> None, max |-> FALSE]]
  /\ kbd = [s \in Slot |-> <<>>]
  /\ mouse = [s \in Slot |-> <<>>]
  /\ zorder = <<>>
  /\ focused = None
  /\ drag = None
  /\ dirty = TRUE
  /\ life = [p \in Apps |-> "alive"]
  /\ at = "mouse"
  /\ pos = 1
  /\ missed = {}

Syscall(p) ==
  \/ compositor_create_window(p)
  \/ compositor_present(p)
  \/ compositor_poll_event(p)
  \/ exit(p)

Loop ==
  \/ mouse_drained
  \/ keyboard_drained
  \/ gc_dead_windows
  \/ gc_done
  \/ composite_window
  \/ clear_dirty

NextDesk ==
  \/ \E p \in Apps : Syscall(p)
  \/ \E s \in Slot : handle_mouse_press(s)
  \/ release
  \/ move
  \/ key
  \/ Loop

SpecDesk == InitDesk /\ [][NextDesk]_deskVars

\* The scheduler gives compositor_task the CPU again and again (Sched's
\* ReadyRuns and SleeperWakes), and a device queue drained faster than a user
\* fills it runs empty.
FairDesk == SpecDesk /\ WF_deskVars(Loop)

-----------------------------------------------------------------------------
\* Properties.

\* Every variable holds a value of its type, and no queue overflows.
WindowsTyped ==
  /\ win \in [Slot -> [pid : Apps \cup {None}, max : BOOLEAN]]
  /\ \A s \in Slot : \A q \in {kbd[s], mouse[s]} :
       Len(q) <= EVQ_SIZE /\ \A i \in DOMAIN q : q[i] \in Event
  /\ zorder \in Seq(Slot)
  /\ {focused, drag} \subseteq Slot \cup {None}
  /\ dirty \in BOOLEAN
  /\ life \in [Apps -> {"alive", "dead"}]
  /\ at \in {"mouse", "keyboard", "gc", "frame"}
  /\ pos \in 1 .. MAX_WINDOWS + 1
  /\ missed \subseteq Apps

\* The z-order lists every window of the table once and nothing else, with the
\* undecorated desktop "pinned to the bottom" through every raise and every
\* window that comes or goes (compositor.h:16-19).
Stacked ==
  /\ {zorder[i] : i \in DOMAIN zorder} = Used
  /\ Len(zorder) = Cardinality(Used)
  /\ \A i, j \in DOMAIN zorder : i < j /\ Borderless(zorder[j]) => Borderless(zorder[i])

\* While there is a window one of them has the focus, and what is focused or
\* dragged is a window in the table: the keyboard loop and the drag index
\* windows[] without a test (compositor.c:210-225, 587-588, 612-613).
FocusOnWindow ==
  /\ IF Used = {} THEN focused = None ELSE focused \in Used
  /\ drag \in Used \cup {None}

\* An event is read only by the process it was meant for, though its slot may
\* have changed hands since (compositor.c:172-173).
EventsForOwner ==
  \A s \in Used : \A q \in {kbd[s], mouse[s]} : \A i \in DOMAIN q : q[i].to = win[s].pid

\* The window of a process that is gone is freed sooner or later, so that the
\* few slots there are never run out for good (compositor.c:227-233).
DeadWindowsGo == \A s \in Slot : []<>~owner_dead(s)

\* SYS_FB_PRESENT "marks the whole desktop dirty so compositor_task
\* recomposites+presents on its next iteration" (compositor.h:75-77).
PresentShows == (at = "mouse" /\ ~dirty) => missed = {}
=============================================================================
