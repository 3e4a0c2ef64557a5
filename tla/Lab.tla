--------------------------------- MODULE Lab ---------------------------------
(***************************************************************************)
(* A console program with windows: lab/loop.cpp and lab/window.cpp.        *)
(*                                                                         *)
(* The script is the thread of main(): it shows and hides windows, waits   *)
(* for their actions and destroys the lab_loop at the end. The gui thread  *)
(* waits for the first window, enters gtk_main and serves the user. All    *)
(* that touches a widget happens under dm_gtklock, which the gui thread    *)
(* lets go only in the callback of a timer; dm_openwindows, the list of    *)
(* the open windows, is a lock and condition of its own that both take.    *)
(***************************************************************************)
EXTENDS Integers, Sequences

CONSTANTS
  Window,    \* the windows, all constructed by the script before it goes on
  NoWindow,  \* a null lab_window_i *
  MaxPush    \* bound: the actions a window produces, fewer than action_queue's 32

ASSUME ConstantsAssumption == NoWindow \notin Window /\ MaxPush \in Nat

\* What a window announces: that it was closed, or any other button.
Action == {"close", "other"}

\* What the user does: press a button, or close the window by its frame.
Event == Action \cup {"delete"}

VARIABLES
  listed, running, stopnow,  \* dm_openwindows: windowlist, runninggtk, gtkstopnow
  active,                    \* dm_action: active_window
  attempt,                   \* dm_attempt: attempt
  holder,                    \* who has dm_gtklock
  isopen,                    \* dm_open of each window
  queue,                     \* dm_action of each window: action_queue
  widget,                    \* the gtk window of its framer: "made", "shown" or "gone"
  gpc, gwin, gact, quit,     \* the gui thread, the window and event it handles;
                             \* gtk_main_quit was called inside gtk_main
  spc, sop, swin,            \* the script, the call it is in, its window
  pushes                     \* history: the actions each window has produced

listVars == <<listed, running, stopnow>>
windowVars == <<isopen, queue, widget, pushes>>
guiVars == <<gpc, gwin, gact, quit>>
scriptVars == <<spc, sop, swin>>
vars == <<listVars, active, attempt, holder, windowVars, guiVars, scriptVars>>

Init ==
  /\ listed = {} /\ running = FALSE /\ stopnow = FALSE
  /\ active = NoWindow /\ attempt = FALSE /\ holder = "nobody"
  /\ isopen = [w \in Window |-> FALSE]
  /\ queue = [w \in Window |-> <<>>]
  /\ widget = [w \in Window |-> "made"]
  /\ gpc = "start" /\ gwin = NoWindow /\ gact = "other" /\ quit = FALSE
  /\ spc = "idle" /\ sop = "none" /\ swin = NoWindow
  /\ pushes = [w \in Window |-> 0]

\* Where the gui thread is inside gtk_main, and where it has dm_gtklock.
GtkPc == {"gtk", "push", "announce", "hide", "destroy", "unreg", "tick", "sleep", "relock"}
GuiHoldsPc == {"gtk", "push", "announce", "hide", "destroy", "unreg"}
InGtk == gpc \in GtkPc

\* Inside a lab_lock, from its constructor to the end of its destructor.
LockPc == {"attempt", "lock", "locked", "destroy", "unreg", "calm"}

\* hide_all and ~lab_loop take the lab_lock inside the lock of the list.
ScriptHasList == (sop \in {"hideall", "quit"} /\ spc \in LockPc) \/ spc = "stuck"

\* L.notify() on dm_openwindows: the only thread that waits in it, if it does.
WakeGui == gpc' = IF gpc = "asleep" THEN "woken" ELSE gpc

-----------------------------------------------------------------------------
(* The gui thread, gui_thread_run.                                         *)

\* One look at the list: run gtk, end, or wait.
GuiStart ==
  /\ gpc \in {"start", "woken"} /\ ~ScriptHasList
  /\ \/ /\ gpc = "woken" /\ stopnow
        /\ gpc' = "ended" /\ UNCHANGED running
     \/ /\ ~(gpc = "woken" /\ stopnow) /\ listed # {}
        /\ gpc' = "enter" /\ running' = TRUE
     \/ /\ ~(gpc = "woken" /\ stopnow) /\ listed = {}
        /\ gpc' = IF stopnow THEN "ended" ELSE "asleep"
        /\ UNCHANGED running
  /\ UNCHANGED <<listed, stopnow, active, attempt, holder, windowVars, gwin, gact, quit, scriptVars>>

\* gtk_main, under the lock.
GuiEnter ==
  /\ gpc = "enter" /\ holder = "nobody"
  /\ gpc' = "gtk" /\ holder' = "gui"
  /\ UNCHANGED <<listVars, active, attempt, windowVars, gwin, gact, quit, scriptVars>>

\* The user presses a button or closes the window by its frame. The handler of a button may
\* veto it (on_button), which changes nothing.
Press(w, a) ==
  /\ gpc = "gtk" /\ ~quit /\ widget[w] = "shown" /\ pushes[w] < MaxPush
  /\ gpc' = "push" /\ gwin' = w /\ gact' = a
  /\ UNCHANGED <<listVars, active, attempt, holder, windowVars, quit, scriptVars>>

\* push_action of the handler: a window closed by its frame announces that it was closed.
Announced == IF gact = "delete" THEN "close" ELSE gact

\* A script that waits for an action returns from its call.
Answer(op) ==
  IF spc = "waiting" /\ sop \in op THEN spc' = "idle" ELSE UNCHANGED spc


\* lab_window::push_action, the queue of the window.
Push ==
  /\ gpc = "push"
  /\ queue' = [queue EXCEPT ![gwin] = Append(@, Announced)]
  /\ pushes' = [pushes EXCEPT ![gwin] = @ + 1]
  /\ Answer(IF swin = gwin THEN {"wait", "timedwait"} ELSE {})
  /\ gpc' = "announce"
  /\ UNCHANGED <<listVars, active, attempt, holder, isopen, widget, gwin, gact, quit, sop, swin>>

\* The handler returns to gtk_main.
Handled == gpc' = "gtk" /\ gwin' = NoWindow /\ gact' = "other"

\* lab_window_i::push_action: the first window since the last pop_action.
Announce ==
  /\ gpc = "announce"
  /\ active' = IF active = NoWindow THEN gwin ELSE active
  /\ Answer({"loopwait"})
  /\ \/ gact = "close" /\ gpc' = "hide" /\ UNCHANGED <<gwin, gact>>
     \/ gact = "delete" /\ gpc' = "destroy" /\ UNCHANGED <<gwin, gact>>
     \/ gact = "other" /\ Handled
  /\ UNCHANGED <<listVars, attempt, holder, windowVars, quit, sop, swin>>

\* framer::do_hide and framer::on_destroy, their section under the lock of the window. The script
\* may show the window again before or after it leaves the screen.
Flagged(w) == isopen' = [isopen EXCEPT ![w] = FALSE]

\* The gtk window is destroyed and the application forgets it (window::on_destroy).
Destroyed(w) == widget' = [widget EXCEPT ![w] = "gone"]

\* do_hide clears the flag and then destroys; closing a window by its frame makes gtk destroy it
\* and then call on_destroy.
GuiHide ==
  /\ gpc = "hide" /\ Flagged(gwin)
  /\ gpc' = IF gact = "delete" THEN "unreg" ELSE "destroy"
  /\ UNCHANGED <<listVars, active, attempt, holder, queue, widget, pushes, gwin, gact, quit, scriptVars>>

GuiDestroy ==
  /\ gpc = "destroy" /\ Destroyed(gwin)
  /\ gpc' = IF gact = "delete" THEN "hide" ELSE "unreg"
  /\ UNCHANGED <<listVars, active, attempt, holder, isopen, queue, pushes, gwin, gact, quit, scriptVars>>

\* unreg_window. Its notification reaches ~lab_loop, whose guard is the list itself.
GuiUnreg ==
  /\ gpc = "unreg" /\ ~ScriptHasList
  /\ listed' = listed \ {gwin} /\ Handled
  /\ UNCHANGED <<running, stopnow, active, attempt, holder, windowVars, quit, scriptVars>>

\* h_timer_tick lets go of the lock, sleeps if somebody wants it, and takes it again.
Tick ==
  /\ gpc = "gtk" /\ ~quit
  /\ gpc' = "tick" /\ holder' = "nobody"
  /\ UNCHANGED <<listVars, active, attempt, windowVars, gwin, gact, quit, scriptVars>>

\* Mutant: the callback does not look whether somebody wants the lock.
TickBlind ==
  /\ gpc = "tick" /\ gpc' = "relock"
  /\ UNCHANGED <<listVars, active, attempt, holder, windowVars, gwin, gact, quit, scriptVars>>

TickLook ==
  /\ gpc = "tick"
  /\ gpc' = IF attempt THEN "sleep" ELSE "relock"
  /\ UNCHANGED <<listVars, active, attempt, holder, windowVars, gwin, gact, quit, scriptVars>>

\* Half a second: a thread that waits for a free lock has it by then.
TickSleep ==
  /\ gpc = "sleep" /\ ~(spc = "lock" /\ holder = "nobody")
  /\ gpc' = "relock"
  /\ UNCHANGED <<listVars, active, attempt, holder, windowVars, gwin, gact, quit, scriptVars>>

Relock ==
  /\ gpc = "relock" /\ holder = "nobody"
  /\ gpc' = "gtk" /\ holder' = "gui"
  /\ UNCHANGED <<listVars, active, attempt, windowVars, gwin, gact, quit, scriptVars>>

GuiLeave ==
  /\ gpc = "gtk" /\ quit
  /\ gpc' = "leave" /\ holder' = "nobody"
  /\ UNCHANGED <<listVars, active, attempt, windowVars, gwin, gact, quit, scriptVars>>

GuiEnd ==
  /\ gpc = "leave" /\ ~ScriptHasList
  /\ gpc' = "ended" /\ running' = FALSE
  /\ UNCHANGED <<listed, stopnow, active, attempt, holder, windowVars, gwin, gact, quit, scriptVars>>

-----------------------------------------------------------------------------
(* The script. A call that needs the gui goes through a lab_lock.          *)

\* Mutant: the window is shown without being registered.
ShowUnregistered(w) ==
  /\ spc = "idle" /\ ~isopen[w]
  /\ isopen' = [isopen EXCEPT ![w] = TRUE]
  /\ spc' = "attempt" /\ sop' = "show" /\ swin' = w
  /\ UNCHANGED <<listVars, active, attempt, holder, queue, widget, pushes, guiVars>>

\* show_window, its first section: a window that is open is left alone.
ShowWindow(w) ==
  /\ spc = "idle" /\ ~isopen[w]
  /\ isopen' = [isopen EXCEPT ![w] = TRUE]
  /\ spc' = "reg" /\ sop' = "show" /\ swin' = w
  /\ UNCHANGED <<listVars, active, attempt, holder, queue, widget, pushes, guiVars>>

\* reg_window.
Reg ==
  /\ spc = "reg"
  /\ listed' = listed \cup {swin} /\ WakeGui
  /\ spc' = "attempt"
  /\ UNCHANGED <<running, stopnow, active, attempt, holder, windowVars, gwin, gact, quit, sop, swin>>

\* hide_window: the look at the flag comes before the lock.
HideWindow(w) ==
  /\ spc = "idle" /\ isopen[w]
  /\ spc' = "attempt" /\ sop' = "hide" /\ swin' = w
  /\ UNCHANGED <<listVars, active, attempt, holder, windowVars, guiVars>>

\* hide_all, with the list locked; without a window it returns at once.
HideAll ==
  /\ spc = "idle"
  /\ \E w \in listed : swin' = w
  /\ spc' = "attempt" /\ sop' = "hideall"
  /\ UNCHANGED <<listVars, active, attempt, holder, windowVars, guiVars>>

\* lab_lock::lab_lock.
Attempt ==
  /\ spc = "attempt"
  /\ attempt' = TRUE /\ spc' = "lock"
  /\ UNCHANGED <<listVars, active, holder, windowVars, guiVars, sop, swin>>

Lock ==
  /\ spc = "lock" /\ holder = "nobody"
  /\ holder' = "script" /\ spc' = "locked"
  /\ UNCHANGED <<listVars, active, attempt, windowVars, guiVars, sop, swin>>

\* show_all; nothing comes of it when the gtk window is gone.
ShowAll ==
  /\ spc = "locked" /\ sop = "show"
  /\ widget' = [widget EXCEPT ![swin] = IF @ = "made" THEN "shown" ELSE @]
  /\ holder' = "nobody" /\ spc' = "calm"
  /\ UNCHANGED <<listVars, active, attempt, isopen, queue, pushes, guiVars, sop, swin>>

\* do_hide, for hide_window and hide_all.
DoHide ==
  /\ spc = "locked" /\ sop \in {"hide", "hideall"} /\ Flagged(swin)
  /\ spc' = "destroy"
  /\ UNCHANGED <<listVars, active, attempt, holder, queue, widget, pushes, guiVars, sop, swin>>

\* A window that is gone already, because the user was faster or it was shown again after that, is
\* not in the application's list: remove_window asserts that it is. The unreg_window of
\* hide_all wants the lock its own thread has.
DoDestroy ==
  /\ spc = "destroy" /\ Destroyed(swin)
  /\ spc' = CASE widget[swin] = "gone" -> "aborted"
              [] widget[swin] # "gone" /\ sop = "hide" -> "unreg"
              [] widget[swin] # "gone" /\ sop = "hideall" -> "stuck"
  /\ UNCHANGED <<listVars, active, attempt, holder, isopen, queue, pushes, guiVars, sop, swin>>

Unreg ==
  /\ spc = "unreg"
  /\ listed' = listed \ {swin} /\ WakeGui
  /\ holder' = "nobody" /\ spc' = "calm"
  /\ UNCHANGED <<running, stopnow, active, attempt, windowVars, gwin, gact, quit, sop, swin>>

\* Mutant: the flag alone, and no gtk_main_quit.
QuitFlagOnly ==
  /\ spc = "locked" /\ sop = "quit"
  /\ running' = FALSE
  /\ holder' = "nobody" /\ spc' = "calm"
  /\ UNCHANGED <<listed, stopnow, active, attempt, windowVars, guiVars, sop, swin>>

\* ~lab_loop: gtk_main_quit, which does nothing while gtk_main does not run.
QuitGtk ==
  /\ spc = "locked" /\ sop = "quit"
  /\ IF InGtk THEN quit' = TRUE ELSE UNCHANGED quit
  /\ running' = FALSE
  /\ holder' = "nobody" /\ spc' = "calm"
  /\ UNCHANGED <<listed, stopnow, active, attempt, windowVars, gpc, gwin, gact, sop, swin>>

\* lab_lock::~lab_lock, after the unlock.
Calm ==
  /\ spc = "calm"
  /\ attempt' = FALSE
  /\ spc' = IF sop = "quit" THEN "join" ELSE "idle"
  /\ UNCHANGED <<listVars, active, holder, windowVars, guiVars, sop, swin>>

\* wait_action of a window, with a timeout or without; it returns at once when there is something.
WaitAction(w, op) ==
  /\ spc = "idle" /\ queue[w] = <<>>
  /\ spc' = "waiting" /\ sop' = op /\ swin' = w
  /\ UNCHANGED <<listVars, active, attempt, holder, windowVars, guiVars>>

\* wait_action of the loop: always a timed wait, and with the default of 0 one that is over at once.
LoopWait ==
  /\ spc = "idle" /\ active = NoWindow
  /\ spc' = "waiting" /\ sop' = "loopwait"
  /\ UNCHANGED <<listVars, active, attempt, holder, windowVars, guiVars, swin>>

TimeOut ==
  /\ spc = "waiting" /\ sop \in {"timedwait", "loopwait"}
  /\ spc' = "idle"
  /\ UNCHANGED <<listVars, active, attempt, holder, windowVars, guiVars, sop, swin>>

PopAction(w) ==
  /\ spc = "idle" /\ queue[w] # <<>>
  /\ queue' = [queue EXCEPT ![w] = Tail(@)]
  /\ UNCHANGED <<listVars, active, attempt, holder, isopen, widget, pushes, guiVars, scriptVars>>

LoopPop ==
  /\ spc = "idle" /\ active # NoWindow
  /\ active' = NoWindow
  /\ UNCHANGED <<listVars, attempt, holder, windowVars, guiVars, scriptVars>>

\* ~lab_loop: tell the gui thread, wait for the windows, quit gtk, join.
Destroy ==
  /\ spc = "idle"
  /\ stopnow' = TRUE /\ WakeGui
  /\ spc' = "closing" /\ sop' = "quit"
  /\ UNCHANGED <<listed, running, active, attempt, holder, windowVars, gwin, gact, quit, swin>>

AllClosed ==
  /\ spc = "closing" /\ listed = {}
  /\ spc' = IF running THEN "attempt" ELSE "join"
  /\ UNCHANGED <<listVars, active, attempt, holder, windowVars, guiVars, sop, swin>>

Join ==
  /\ spc = "join" /\ gpc = "ended"
  /\ spc' = "ended"
  /\ UNCHANGED <<listVars, active, attempt, holder, windowVars, guiVars, sop, swin>>

-----------------------------------------------------------------------------
\* A failed assertion ends the program: no thread of it goes on.
GuiStep ==
  /\ spc # "aborted"
  /\ \/ GuiStart \/ GuiEnter \/ Push \/ Announce \/ GuiHide \/ GuiDestroy \/ GuiUnreg
     \/ TickLook \/ TickSleep \/ Relock \/ GuiLeave \/ GuiEnd

CallStep ==
  Reg \/ Attempt \/ Lock \/ ShowAll \/ DoHide \/ DoDestroy \/ Unreg \/ QuitGtk \/ Calm \/ TimeOut \/ AllClosed \/ Join

Call ==
  \/ \E w \in Window : ShowWindow(w) \/ HideWindow(w) \/ PopAction(w)
  \/ \E w \in Window, op \in {"wait", "timedwait"} : WaitAction(w, op)
  \/ LoopWait \/ HideAll \/ LoopPop \/ Destroy

Next ==
  \/ GuiStep \/ Tick
  \/ \E w \in Window, a \in Event : Press(w, a)
  \/ CallStep \/ Call

Spec == Init /\ [][Next]_vars

\* Both threads go on inside what they began; the timer of the gtk loop goes off again and
\* again, however many events of the user it serves in between. The user and the script owe
\* nothing, and a mutex goes to any thread that asks for it.
FairSpec == Spec /\ WF_vars(GuiStep) /\ WF_vars(CallStep) /\ SF_vars(Tick)

-----------------------------------------------------------------------------
(* Properties.                                                             *)

GuiPc == {"start", "asleep", "woken", "enter", "leave", "ended"} \cup GtkPc
ScriptPc == {"idle", "reg", "waiting", "stuck", "aborted", "closing", "join", "ended"} \cup LockPc
ScriptOp == {"none", "show", "hide", "hideall", "wait", "timedwait", "loopwait", "quit"}

\* The types, and who has dm_gtklock, which is a mutex of two threads only.
TypeOK ==
  /\ listed \subseteq Window /\ running \in BOOLEAN /\ stopnow \in BOOLEAN
  /\ active \in Window \cup {NoWindow} /\ attempt \in BOOLEAN
  /\ isopen \in [Window -> BOOLEAN]
  /\ queue \in [Window -> Seq(Action)]
  /\ widget \in [Window -> {"made", "shown", "gone"}]
  /\ gpc \in GuiPc /\ gwin \in Window \cup {NoWindow} /\ gact \in Event /\ quit \in BOOLEAN
  /\ spc \in ScriptPc /\ sop \in ScriptOp /\ swin \in Window \cup {NoWindow}
  /\ pushes \in [Window -> Nat]
  /\ holder = CASE gpc \in GuiHoldsPc -> "gui"
                [] spc \in {"locked", "destroy", "unreg", "stuck", "aborted"} -> "script"
                [] OTHER -> "nobody"

\* Who has dm_gtklock is between the two steps of hiding w.
BeingHidden(w) == (gpc = "destroy" /\ gwin = w) \/ (spc = "destroy" /\ swin = w)

\* A window on the screen is on the list, and open unless it is just being hidden, whatever the
\* user and the script do to it at the same time, show_window between the flag and the
\* destruction among it: ~lab_loop, which waits for the list to be empty, never pulls gtk
\* away under a window, and hide_window never passes over one that stays.
OnScreenIsListed ==
  \A w \in Window : widget[w] = "shown" => w \in listed /\ (isopen[w] \/ BeingHidden(w))

\* A thread that wants the gui gets it, though the gui thread has the lock almost always and
\* takes it back at once: that is what the flag of dm_attempt is for (h_timer_tick). hide_all is
\* the exception: it may wait for a handler that waits for the list hide_all has locked.
ScriptGetsGui == (spc = "lock" /\ sop # "hideall") ~> (spc = "locked")


\* Once the gui thread is inside gtk_main and the windows are closed, ~lab_loop returns: it holds
\* the lock of the list while it waits for that of gtk, which handlers take the other
\* way round.
DestructorReturns == (spc = "closing" /\ listed = {} /\ InGtk) ~> (spc = "ended")
=============================================================================
