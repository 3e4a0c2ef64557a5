------------------------------ MODULE LabProofs ------------------------------
(***************************************************************************)
(* Proofs about Lab: the two locks and the list of the open windows, for   *)
(* any number of windows and of actions.                                   *)
(***************************************************************************)
EXTENDS Lab, TLAPS

\* dm_gtklock has one owner. A handler of the gui thread works on a window that has been
\* shown, and takes it off the list when it is gone from the screen; one closed by its frame is gone
\* before its flag is cleared.
HandlerInv ==
  /\ gpc \in GuiHoldsPc => spc \notin {"locked", "destroy", "unreg", "stuck", "aborted"}
  /\ gpc \in {"push", "announce", "hide", "destroy"} => gwin \in Window /\ widget[gwin] # "made"
  /\ gpc = "unreg" => gwin \in Window /\ widget[gwin] = "gone"
  /\ gpc = "hide" /\ gact = "delete" => widget[gwin] = "gone"

\* A call has its window. A window that is about to be shown for the first time is open and,
\* once registered, on the list; one that is unregistered is gone from the screen.
CallInv ==
  /\ sop \in {"show", "hide", "hideall"} => swin \in Window
  /\ spc = "destroy" => sop \in {"hide", "hideall"}
  /\ spc = "reg" => sop = "show"
  /\ spc = "closing" => sop = "quit"
  /\ spc \in LockPc => sop \in {"show", "hide", "hideall", "quit"}
  /\ spc = "unreg" => sop = "hide" /\ widget[swin] = "gone"
  /\ (sop = "show" /\ spc \in {"reg", "attempt", "lock", "locked"} /\ widget[swin] = "made")
       => isopen[swin]
  /\ (sop = "show" /\ spc \in {"attempt", "lock", "locked"} /\ widget[swin] = "made")
       => swin \in listed

\* The inductive invariant.
LabInv == TypeOK /\ HandlerInv /\ CallInv /\ OnScreenIsListed

LEMMA LabInit == Init => LabInv
<1> SUFFICES ASSUME Init PROVE LabInv
  OBVIOUS
<1> USE DEF Init, Action, Event, GuiPc, GtkPc, GuiHoldsPc, ScriptPc, LockPc, ScriptOp
<1>1. /\ listed \subseteq Window
      /\ running \in BOOLEAN /\ stopnow \in BOOLEAN /\ attempt \in BOOLEAN /\ quit \in BOOLEAN
  BY Zenon
<1>2. isopen \in [Window -> BOOLEAN]
  BY Zenon
<1>3. queue \in [Window -> Seq(Action)]
  OBVIOUS
<1>4. widget \in [Window -> {"made", "shown", "gone"}] /\ pushes \in [Window -> Nat]
  OBVIOUS
<1>5. TypeOK
  BY <1>1, <1>2, <1>3, <1>4 DEF TypeOK
<1>6. HandlerInv /\ CallInv /\ OnScreenIsListed
  BY DEF HandlerInv, CallInv, OnScreenIsListed, BeingHidden
<1> QED
  BY <1>5, <1>6 DEF LabInv

LEMMA LabGui == LabInv /\ (GuiStep \/ Tick \/ \E w \in Window, a \in Event : Press(w, a)) => LabInv'
<1> SUFFICES ASSUME LabInv, GuiStep \/ Tick \/ \E w \in Window, a \in Event : Press(w, a)
             PROVE  LabInv'
  OBVIOUS
<1> USE DEF LabInv, TypeOK, HandlerInv, CallInv, OnScreenIsListed, BeingHidden, Action, Event, GuiPc, GtkPc, GuiHoldsPc,
            ScriptPc, LockPc, ScriptOp, listVars, windowVars, guiVars, scriptVars
<1>1. CASE GuiStart
  <2>1. TypeOK'
    <3>1. running' \in BOOLEAN BY <1>1, Zenon DEF GuiStart
    <3> QED BY <1>1, <3>1 DEF GuiStart
  <2>2. HandlerInv' BY <1>1 DEF GuiStart
  <2>3. CallInv' BY <1>1 DEF GuiStart
  <2>4. OnScreenIsListed' BY <1>1 DEF GuiStart
  <2> QED BY <2>1, <2>2, <2>3, <2>4
<1>2. CASE GuiEnter BY <1>2 DEF GuiEnter
<1>3. CASE Push BY <1>3 DEF Push, Answer, Announced
<1>4. CASE Announce BY <1>4 DEF Announce, Answer, Handled
<1>5. CASE GuiHide BY <1>5 DEF GuiHide, Flagged
<1>14. CASE GuiDestroy BY <1>14 DEF GuiDestroy, Destroyed
<1>6. CASE GuiUnreg BY <1>6 DEF GuiUnreg, Handled
<1>7. CASE TickLook BY <1>7 DEF TickLook
<1>8. CASE TickSleep BY <1>8 DEF TickSleep
<1>9. CASE Relock BY <1>9 DEF Relock
<1>10. CASE GuiLeave BY <1>10 DEF GuiLeave
<1>11. CASE GuiEnd
  <2>1. TypeOK'
    <3>1. running' \in BOOLEAN BY <1>11, Zenon DEF GuiEnd
    <3> QED BY <1>11, <3>1 DEF GuiEnd
  <2>2. HandlerInv' BY <1>11 DEF GuiEnd
  <2>3. CallInv' BY <1>11 DEF GuiEnd
  <2>4. OnScreenIsListed' BY <1>11 DEF GuiEnd
  <2> QED BY <2>1, <2>2, <2>3, <2>4
<1>12. CASE Tick BY <1>12 DEF Tick
<1>13. CASE \E w \in Window, a \in Event : Press(w, a) BY <1>13 DEF Press
<1> QED BY <1>1, <1>2, <1>3, <1>4, <1>5, <1>6, <1>7, <1>8, <1>9, <1>10, <1>11, <1>12, <1>13, <1>14
    DEF GuiStep

LEMMA LabCall == LabInv /\ (CallStep \/ Call) => LabInv'
<1> SUFFICES ASSUME LabInv, CallStep \/ Call
             PROVE  LabInv'
  OBVIOUS
<1> USE DEF LabInv, TypeOK, HandlerInv, CallInv, OnScreenIsListed, BeingHidden, Action, Event, GuiPc, GtkPc, GuiHoldsPc,
            ScriptPc, LockPc, ScriptOp, listVars, windowVars, guiVars, scriptVars, WakeGui
<1>1. CASE Reg BY <1>1 DEF Reg
<1>2. CASE Attempt BY <1>2 DEF Attempt
<1>3. CASE Lock BY <1>3 DEF Lock
<1>4. CASE ShowAll BY <1>4 DEF ShowAll
<1>5. CASE DoHide BY <1>5 DEF DoHide, Flagged
<1>20. CASE DoDestroy BY <1>20 DEF DoDestroy, Destroyed
<1>6. CASE Unreg BY <1>6 DEF Unreg
<1>7. CASE QuitGtk
  <2>1. TypeOK'
    <3>1. running' \in BOOLEAN BY <1>7, Zenon DEF QuitGtk
    <3>2. quit' \in BOOLEAN BY <1>7, Zenon DEF QuitGtk
    <3> QED BY <1>7, <3>1, <3>2 DEF QuitGtk
  <2>2. HandlerInv' BY <1>7 DEF QuitGtk, InGtk
  <2>3. CallInv' BY <1>7 DEF QuitGtk, InGtk
  <2>4. OnScreenIsListed' BY <1>7 DEF QuitGtk, InGtk
  <2> QED BY <2>1, <2>2, <2>3, <2>4
<1>8. CASE Calm
  <2>1. TypeOK'
    <3>1. attempt' \in BOOLEAN BY <1>8, Zenon DEF Calm
    <3> QED BY <1>8, <3>1 DEF Calm
  <2>2. HandlerInv' BY <1>8 DEF Calm
  <2>3. CallInv' BY <1>8 DEF Calm
  <2>4. OnScreenIsListed' BY <1>8 DEF Calm
  <2> QED BY <2>1, <2>2, <2>3, <2>4
<1>9. CASE TimeOut BY <1>9 DEF TimeOut
<1>10. CASE AllClosed BY <1>10 DEF AllClosed
<1>11. CASE Join BY <1>11 DEF Join
<1>12. CASE HideAll BY <1>12 DEF HideAll
<1>13. CASE LoopPop BY <1>13 DEF LoopPop
<1>14. CASE Destroy BY <1>14 DEF Destroy
<1>15. ASSUME NEW w \in Window, ShowWindow(w) PROVE LabInv' BY <1>15 DEF ShowWindow
<1>16. ASSUME NEW w \in Window, HideWindow(w) PROVE LabInv' BY <1>16 DEF HideWindow
<1>17. ASSUME NEW w \in Window, PopAction(w) PROVE LabInv' BY <1>17 DEF PopAction
<1>18. ASSUME NEW w \in Window, NEW o \in {"wait", "timedwait"}, WaitAction(w, o) PROVE LabInv'
  BY <1>18 DEF WaitAction
<1>19. CASE LoopWait BY <1>19 DEF LoopWait
<1> QED BY <1>1, <1>2, <1>3, <1>4, <1>5, <1>6, <1>7, <1>8, <1>9, <1>10, <1>11, <1>12, <1>13,
           <1>14, <1>15, <1>16, <1>17, <1>18, <1>19, <1>20 DEF CallStep, Call

LEMMA LabInvariant == Spec => []LabInv
<1>1. LabInv /\ UNCHANGED vars => LabInv'
  BY DEF LabInv, TypeOK, HandlerInv, CallInv, OnScreenIsListed, BeingHidden, vars, listVars, windowVars,
         guiVars, scriptVars
<1> QED BY LabInit, LabGui, LabCall, <1>1, PTL DEF Spec, Next

\* Every reachable state is of the declared types, and dm_gtklock has the owner
\* the places of the two threads say, for any number of windows and actions.
THEOREM LocksAreKept == Spec => []TypeOK
BY LabInvariant, PTL DEF LabInv

\* A window on the screen is on the list that ~lab_loop waits for, and open unless who has dm_gtklock
\* is just hiding it, whatever the user, the script and the timer do in between.
THEOREM ScreenIsListed == Spec => []OnScreenIsListed
BY LabInvariant, PTL DEF LabInv
=============================================================================
