---------------------------- MODULE Windows ----------------------------
(***************************************************************************)
(* Windows, dialogs and messages: the handlers of user32.py and            *)
(* SessionManager of sessman.py.                                           *)
(*                                                                         *)
(* Some handlers wait for a function of the guest that they called (a      *)
(* GuestCall): its frame is on `frames`, and while it runs the guest may   *)
(* call any handler, a nested dialog included.  setup_callback only lets   *)
(* the guest go on in the function, which is what `res` tells.             *)
(***************************************************************************)
EXTENDS Integers, Sequences, FiniteSets, SequencesExt, Functions, TLC

CONSTANTS ClassNames,   \* names of window classes
          WndProcs,     \* window procedures
          MaxWindows,   \* bound on the windows of a behaviour
          MaxClasses,   \* bound on RegisterClass calls
          MaxFrames,    \* bound on nested guest calls
          TimerIds,     \* timer ids that the guest chooses
          MaxTimers,    \* bound on the timers, and on next_timer
          MaxHooks,     \* bound on SetWindowsHookEx calls
          MaxKeys,      \* length of synthetic_hook_keys and synthetic_async_keys
          MessageNames, \* names of registered messages
          MaxColumns    \* bound on the columns of a list view

VARIABLES wins,         \* the windows: handle -> window; 1 is the desktop window
          classes,      \* the registered classes: atom -> class
          wndprocs,     \* handle -> the procedure SetWindowLong gave it
          frames,       \* the guest calls that handlers wait for, innermost last
          dialog_results,
          ended,        \* history: handle -> the result EndDialog was last called with
          input,        \* timers, hooks, synthetic keys, registered messages, list view columns
          foreground,   \* handle of the foreground window, 0 before it is asked for
          res           \* what the last call did

vars == <<wins, classes, wndprocs, frames, dialog_results, ended, input, foreground, res>>

None == "none"
ByName(n) == [name |-> n, atom |-> 0]
ByAtom(a) == [name |-> None, atom |-> a]
NoClass == ByAtom(0)
IDCANCEL == "cancel"
Results == {"ok", "abort"}
Desktop == 1
Windows == 1 .. Len(wins)
Handles == 0 .. MaxWindows        \* what the guest passes, handles of no window included

\* `listed` are the windows of sessman.windows; the others are known to the handle table only.
Window(cn, style, parent, listed) ==
  [class |-> cn, style |-> style, parent |-> parent, prop |-> 0, long |-> 0, listed |-> listed, owner |-> 0]

Init ==
  /\ wins = <<Window(NoClass, "none", 0, FALSE)>>
  /\ classes = <<>> /\ wndprocs = <<>> /\ frames = <<>>
  /\ dialog_results = <<>> /\ ended = <<>>
  /\ input = [timers |-> <<>>, next_timer |-> 0, hooks |-> <<>>, nhooks |-> 0, hook_key |-> 0, async_key |-> 0,
              messages |-> <<>>, columns |-> <<>>, ntimers |-> 0]
  /\ foreground = 0
  /\ res = [call |-> "none"]

Tells(r) == res' = r
Told(v) == [call |-> "none", value |-> v]
CallsProc(h, p) == [call |-> "proc", window |-> h, proc |-> p]

(***************************************************************************)
(* Classes and windows.                                                    *)
(***************************************************************************)
\* By atom, or the newest of a name.
get_window_class(cn) ==
  LET own == {a \in DOMAIN classes : a = cn.atom \/ classes[a].name = cn.name}
  IN  IF own = {} THEN 0 ELSE CHOOSE a \in own : \A b \in own : b <= a

ClassProc(cn) == IF get_window_class(cn) = 0 THEN None ELSE classes[get_window_class(cn)].proc

create_window_class(cn, p) ==
  /\ Len(classes) < MaxClasses
  /\ classes' = Append(classes, [name |-> cn, proc |-> p])
register_window_class(cn, p) ==
  /\ create_window_class(cn, p) /\ Tells(Told("atom"))
  /\ UNCHANGED <<wins, wndprocs, frames, dialog_results, ended, input, foreground>>

RegisterClass(cn, p) == register_window_class(cn, p)
RegisterClassEx(cn, p) == register_window_class(cn, p)

\* A class that windows use can be registered again; UnregisterClass leaves the class.
Nothing(v) == Tells(Told(v)) /\ UNCHANGED <<wins, classes, wndprocs, frames, dialog_results, ended, input, foreground>>
UnregisterClass == Nothing("ok")

get_window(h) == h \in Windows
NewWindow(w) == Len(wins) < MaxWindows /\ wins' = Append(wins, w)
create_window(cn, style, parent) == NewWindow(Window(cn, style, parent, TRUE))
new_window_handle == NewWindow(Window(NoClass, "none", 0, FALSE))
Newest == Len(wins) + 1

GuestCalls(f) == Len(frames) < MaxFrames /\ frames' = Append(frames, f)

\* A window of a class with a procedure is created by two messages to it.
CreateWindowEx(cn, style, parent) ==
  /\ create_window(cn, style, parent)
  /\ IF ClassProc(cn) = None
       THEN Tells(Told("handle")) /\ UNCHANGED frames
       ELSE /\ GuestCalls([kind |-> "nccreate", window |-> Newest, proc |-> ClassProc(cn), left |-> <<>>])
            /\ Tells(CallsProc(Newest, ClassProc(cn)))
  /\ UNCHANGED <<classes, wndprocs, dialog_results, ended, input, foreground>>

Returned == Front(frames)
Back(r) == frames' = Returned /\ Tells(r) /\ UNCHANGED <<wins, classes, wndprocs, dialog_results, ended, input, foreground>>

\* The first message goes on with the second; the window stays when either refuses.
send_create_messages(f, accepted) ==
  \/ /\ f.kind = "nccreate" /\ accepted
     /\ frames' = Append(Returned, [f EXCEPT !.kind = "create"])
     /\ Tells(CallsProc(f.window, f.proc))
     /\ UNCHANGED <<wins, classes, wndprocs, dialog_results, ended, input, foreground>>
  \/ f.kind = "nccreate" /\ ~accepted /\ Back(Told("null"))
  \/ f.kind = "create" /\ Back(Told(IF accepted THEN "handle" ELSE "null"))

CallWindowProc(h, p) ==
  IF p = None THEN Nothing("null")
  ELSE /\ GuestCalls([kind |-> "proc", window |-> h, proc |-> p, left |-> <<>>])
       /\ Tells(CallsProc(h, p))
       /\ UNCHANGED <<wins, classes, wndprocs, dialog_results, ended, input, foreground>>

\* The windows of the time of the call, whose parent is none or the desktop.
EnumWindows ==
  LET hwnds == SetToSortSeq({h \in Windows : wins[h].listed /\ wins[h].parent \in {0, Desktop}}, <)
  IN  IF hwnds = <<>> THEN Nothing("ok")
      ELSE /\ GuestCalls([kind |-> "enum", window |-> Head(hwnds), proc |-> "callback", left |-> Tail(hwnds)])
           /\ Tells(CallsProc(Head(hwnds), "callback"))
           /\ UNCHANGED <<wins, classes, wndprocs, dialog_results, ended, input, foreground>>

EnumNext(f, more) ==
  /\ f.kind = "enum"
  /\ IF ~more \/ f.left = <<>> THEN Back(Told(IF more THEN "ok" ELSE "stopped"))
     ELSE /\ frames' = Append(Returned, [f EXCEPT !.window = Head(f.left), !.left = Tail(f.left)])
          /\ Tells(CallsProc(Head(f.left), "callback"))
          /\ UNCHANGED <<wins, classes, wndprocs, dialog_results, ended, input, foreground>>

\* The desktop window, whoever asks.
GetDesktopWindow == Nothing("handle")
WindowFromPoint == GetDesktopWindow
GetClipboardViewer == GetDesktopWindow
GetClipboardOwner == GetDesktopWindow
GetOpenClipboardWindow == GetDesktopWindow
GetFocus == GetDesktopWindow

\* A new window at every call.
FreshWindow ==
  new_window_handle /\ Tells(Told("handle"))
  /\ UNCHANGED <<classes, wndprocs, frames, dialog_results, ended, input, foreground>>
GetActiveWindow == FreshWindow
GetLastActivePopup == FreshWindow

GetForegroundWindow ==
  IF foreground # 0 THEN Nothing("handle")
  ELSE /\ create_window(ByName("Progman"), "none", 0)
       /\ foreground' = Newest
       /\ Tells(Told("handle"))
       /\ UNCHANGED <<classes, wndprocs, frames, dialog_results, ended, input>>

GetParent(h) ==
  Nothing(IF ~get_window(h) THEN "invalid" ELSE IF wins[h].style = "child" THEN "parent" ELSE "null")

\* The owner of the desktop window and of the windows of another process is found when it is asked for.
GetWindowThreadProcessId(h) ==
  IF ~get_window(h) THEN Nothing("invalid")
  ELSE /\ wins' = [wins EXCEPT ![h].owner = IF @ = 0 /\ h \in {Desktop, foreground} THEN h ELSE @]
       /\ Tells(Told("thread"))
       /\ UNCHANGED <<classes, wndprocs, frames, dialog_results, ended, input, foreground>>

get_prop_window(h, w, v) ==
  IF ~get_window(h) THEN Nothing("invalid")
  ELSE wins' = w /\ Tells(Told(v)) /\ UNCHANGED <<classes, wndprocs, frames, dialog_results, ended, input, foreground>>
SetProp(h, v) == get_prop_window(h, [wins EXCEPT ![h].prop = v], "ok")
GetProp(h) == get_prop_window(h, wins, "value")
RemoveProp(h) == get_prop_window(h, [wins EXCEPT ![h].prop = 0], "value")

\* The procedure of a window: the one SetWindowLong gave, else that of its class.
get_window_long(h) == IF h \in DOMAIN wndprocs THEN wndprocs[h] ELSE ClassProc(wins[h].class)

GetWindowLong(h) == Nothing(IF ~get_window(h) THEN "invalid" ELSE "value")
GetWindowLongPtr(h) == GetWindowLong(h)

\* GWL_WNDPROC, GWL_STYLE and the other indices.
SetWindowLong(h, index, v) ==
  IF ~get_window(h) THEN Nothing("invalid")
  ELSE /\ Tells(Told("old"))
       /\ wndprocs' = IF index = "wndproc" THEN (h :> v) @@ wndprocs ELSE wndprocs
       /\ wins' = IF index = "style" THEN [wins EXCEPT ![h].style = IF v = None THEN "none" ELSE "child"]
                  ELSE IF index = "other" THEN [wins EXCEPT ![h].long = IF v = None THEN 0 ELSE 1] ELSE wins
       /\ UNCHANGED <<classes, frames, dialog_results, ended, input, foreground>>
SetWindowLongPtr(h, index, v) == SetWindowLong(h, index, v)

(***************************************************************************)
(* Messages to windows.                                                    *)
(***************************************************************************)
UpdateWindow(h) ==
  IF ~get_window(h) THEN Nothing("invalid")
  ELSE IF ClassProc(wins[h].class) = None THEN Nothing("ok")
  ELSE Tells([call |-> "paint", window |-> h, proc |-> ClassProc(wins[h].class)])
       /\ UNCHANGED <<wins, classes, wndprocs, frames, dialog_results, ended, input, foreground>>

\* The class is asked when SetWindowLong gave no procedure, or none.
DispatchProc(h) ==
  IF h \in DOMAIN wndprocs /\ wndprocs[h] # None THEN wndprocs[h]
  ELSE IF h \in Windows /\ wins[h].listed THEN ClassProc(wins[h].class) ELSE None

DispatchMessage(h) ==
  IF DispatchProc(h) = None THEN Nothing("ok")
  ELSE Tells([call |-> "dispatch", window |-> h, proc |-> DispatchProc(h)])
       /\ UNCHANGED <<wins, classes, wndprocs, frames, dialog_results, ended, input, foreground>>

\* A WM_TIMER message with a function calls that.
DispatchTimer(h) ==
  Tells([call |-> "timer", window |-> h]) /\ UNCHANGED <<wins, classes, wndprocs, frames, dialog_results, ended, input, foreground>>

\* Only a procedure of SetWindowLong is gone to, even a null one.
SendMessage(h) ==
  IF h \notin DOMAIN wndprocs THEN Nothing("false")
  ELSE Tells([call |-> "send", window |-> h, proc |-> wndprocs[h]])
       /\ UNCHANGED <<wins, classes, wndprocs, frames, dialog_results, ended, input, foreground>>

DefWindowProc == Nothing("handled")
PostMessage == Nothing("ok")
PeekMessage == Nothing("false")
TranslateMessage == Nothing("ok")
PostQuitMessage == Nothing("ok")
DestroyWindow == Nothing("ok")
ShowWindow == Nothing("ok")
IsWindow == Nothing("ok")
FindWindow == Nothing("null")

(***************************************************************************)
(* Dialogs.                                                                *)
(***************************************************************************)
DialogBoxParam ==
  /\ new_window_handle
  /\ GuestCalls([kind |-> "dialog", window |-> Newest, proc |-> "dialog", left |-> <<>>])
  /\ Tells(CallsProc(Newest, "dialog"))
  /\ UNCHANGED <<classes, wndprocs, dialog_results, ended, input, foreground>>

\* Without a function the dialog is cancelled at once.
DialogBoxWithoutFunction == Nothing(IDCANCEL)

run_dialog(f) ==
  /\ f.kind = "dialog"
  /\ frames' = Returned
  /\ Tells([call |-> "ended", window |-> f.window,
            value |-> IF f.window \in DOMAIN dialog_results THEN dialog_results[f.window] ELSE IDCANCEL])
  /\ dialog_results' = Restrict(dialog_results, DOMAIN dialog_results \ {f.window})
  /\ UNCHANGED <<wins, classes, wndprocs, ended, input, foreground>>

\* Mutant of EndDialog: the innermost dialog ends.
EndDialogInnermost(h, r) ==
  LET own == {i \in DOMAIN frames : frames[i].kind = "dialog"}
      inner == IF own = {} THEN h ELSE frames[CHOOSE i \in own : \A j \in own : j <= i].window
  IN  /\ dialog_results' = (inner :> r) @@ dialog_results
      /\ ended' = (h :> r) @@ ended
      /\ Tells(Told("ok"))
      /\ UNCHANGED <<wins, classes, wndprocs, frames, input, foreground>>

\* Any dialog, not only the innermost; the window is not looked up.
EndDialog(h, r) ==
  /\ dialog_results' = (h :> r) @@ dialog_results
  /\ ended' = (h :> r) @@ ended
  /\ Tells(Told("ok"))
  /\ UNCHANGED <<wins, classes, wndprocs, frames, input, foreground>>

\* A modeless dialog: its function is called when the handler is done.
CreateDialogIndirectParam ==
  /\ new_window_handle
  /\ Tells([call |-> "dialog", window |-> Newest])
  /\ UNCHANGED <<classes, wndprocs, frames, dialog_results, ended, input, foreground>>

\* The function of the innermost frame returns.
CallbackReturns(v) ==
  /\ frames # <<>>
  /\ \/ send_create_messages(Last(frames), v)
     \/ Last(frames).kind = "proc" /\ Back(Told("value"))
     \/ EnumNext(Last(frames), v)
     \/ run_dialog(Last(frames))

Creates ==
  \/ \E cn \in ClassNames, p \in WndProcs \cup {None} : RegisterClass(cn, p) \/ RegisterClassEx(cn, p)
  \/ \E cn \in {ByName(n) : n \in ClassNames} \cup {ByAtom(a) : a \in 0 .. Len(classes)}, parent \in 0 .. Len(wins) :
       CreateWindowEx(cn, "none", parent)
  \/ \E v \in BOOLEAN : CallbackReturns(v)

NextDialogs ==
  \/ Creates
  \/ EnumWindows
  \/ DialogBoxParam \/ DialogBoxWithoutFunction \/ CreateDialogIndirectParam
  \/ \E h \in Handles : \E r \in Results : EndDialog(h, r)

NextSubclasses ==
  \/ Creates
  \/ UnregisterClass
  \/ \E h \in Handles :
       \/ \E p \in WndProcs \cup {None} :
            CallWindowProc(h, p) \/ SetWindowLong(h, "wndproc", p) \/ SetWindowLongPtr(h, "wndproc", p)
       \/ GetWindowLong(h) \/ GetWindowLongPtr(h)
       \/ UpdateWindow(h) \/ DispatchMessage(h) \/ DispatchTimer(h) \/ SendMessage(h)
  \/ DefWindowProc \/ PostMessage \/ PeekMessage \/ TranslateMessage \/ PostQuitMessage
  \/ DestroyWindow \/ ShowWindow \/ IsWindow \/ FindWindow

NextWindows ==
  \/ CreateWindowEx(NoClass, "child", Desktop)
  \/ GetActiveWindow \/ GetLastActivePopup \/ GetForegroundWindow
  \/ GetDesktopWindow \/ WindowFromPoint \/ GetClipboardViewer \/ GetClipboardOwner \/ GetOpenClipboardWindow \/ GetFocus
  \/ \E h \in Handles :
       \/ SetWindowLong(h, "style", None) \/ SetWindowLong(h, "other", "value") \/ SetWindowLongPtr(h, "style", "child")
       \/ GetParent(h) \/ GetWindowThreadProcessId(h)
       \/ \E v \in 0 .. 1 : SetProp(h, v)
       \/ GetProp(h) \/ RemoveProp(h)

(***************************************************************************)
(* Timers, hooks, synthetic keys and messages.                             *)
(***************************************************************************)
Input(i, r) == input' = i /\ Tells(r) /\ UNCHANGED <<wins, classes, wndprocs, frames, dialog_results, ended, foreground>>

OfWindow(id) == [window |-> id, thread |-> 0]
OfThread(n) == [window |-> None, thread |-> n]

SetTimer(id) ==
  /\ Len(SelectSeq(input.timers, LAMBDA t : t # id)) < MaxTimers
  /\ Input([input EXCEPT !.timers = Append(SelectSeq(@, LAMBDA t : t # id), id)], Told("id"))
\* Without a window each call makes another timer.
SetTimerOfThread ==
  /\ input.ntimers < MaxTimers /\ Len(input.timers) < MaxTimers
  /\ Input([input EXCEPT !.timers = Append(@, OfThread(input.ntimers + 1)), !.ntimers = @ + 1], Told("id"))
KillTimer(id) == Input([input EXCEPT !.timers = SelectSeq(@, LAMBDA t : t # id)], Told("ok"))

SetWindowsHookEx(kind) ==
  /\ input.nhooks < MaxHooks
  /\ Input([input EXCEPT !.hooks = Append(@, [handle |-> input.nhooks + 1, kind |-> kind]), !.nhooks = @ + 1],
           Told("handle"))
UnhookWindowsHookEx(h) == Input([input EXCEPT !.hooks = SelectSeq(@, LAMBDA k : k.handle # h)], Told("ok"))
CallNextHookEx == Nothing("null")

\* The oldest keyboard hook gets the next key.
get_synthetic_keyboard_hook(i) == SelectSeq(i.hooks, LAMBDA k : k.kind = "keyboard")
emit_synthetic_keyboard_hook_event(i) == get_synthetic_keyboard_hook(i) # <<>> /\ i.hook_key < MaxKeys

\* The timers in turn, without an end; without timers a key for each hook call, then the loop ends.
GetMessage ==
  IF input.timers # <<>>
    THEN /\ input.next_timer < MaxTimers
         /\ Input([input EXCEPT !.next_timer = @ + 1],
                  [call |-> "message", timer |-> input.timers[1 + (input.next_timer % Len(input.timers))]])
    ELSE IF emit_synthetic_keyboard_hook_event(input)
    THEN Input([input EXCEPT !.hook_key = @ + 1],
               [call |-> "key", hook |-> get_synthetic_keyboard_hook(input)[1].handle, key |-> input.hook_key + 1])
    ELSE Input(input, Told("quit"))

\* Each key is down once, in the order of the list.
get_synthetic_async_key_state(i, vkey) == vkey = i.async_key + 1 /\ vkey <= MaxKeys
GetAsyncKeyState(vkey) ==
  IF get_synthetic_async_key_state(input, vkey)
    THEN Input([input EXCEPT !.async_key = @ + 1], Told("down"))
    ELSE Input(input, Told("up"))

\* The same number for the same name.
RegisterWindowMessage(name) ==
  Input([input EXCEPT !.messages = IF name \in Range(@) THEN @ ELSE Append(@, name)], Told("message"))

\* Columns of a list view, each with its sub item.
send_list_view_column_message(msg, i) ==
  LET cols == input.columns
      at == IF i < Len(cols) THEN i ELSE Len(cols)
  IN  CASE msg = "insert" /\ Len(cols) < MaxColumns -> Input([input EXCEPT !.columns = InsertAt(cols, at + 1, i)], Told("index"))
        [] msg = "insert" /\ Len(cols) >= MaxColumns -> FALSE
        [] msg # "insert" /\ i >= Len(cols) -> Input(input, Told("false"))
        [] msg = "get" /\ i < Len(cols) -> Input(input, Told("ok"))
        [] msg = "width" /\ i < Len(cols) -> Input(input, Told("width"))
        [] msg = "delete" /\ i < Len(cols) -> Input([input EXCEPT !.columns = RemoveAt(cols, i + 1)], Told("ok"))

NextInput ==
  \/ \E id \in TimerIds : SetTimer(OfWindow(id)) \/ KillTimer(OfWindow(id))
  \/ SetTimerOfThread \/ KillTimer(OfThread(1))
  \/ \E kind \in {"keyboard", "other"} : SetWindowsHookEx(kind)
  \/ \E h \in 1 .. MaxHooks : UnhookWindowsHookEx(h)
  \/ CallNextHookEx
  \/ GetMessage
  \/ \E vkey \in 1 .. MaxKeys : GetAsyncKeyState(vkey)
  \/ \E name \in MessageNames : RegisterWindowMessage(name)
  \/ \E msg \in {"insert", "get", "width", "delete"}, i \in 0 .. MaxColumns : send_list_view_column_message(msg, i)

(***************************************************************************)
(* Properties.                                                             *)
(***************************************************************************)
TypeOK ==
  /\ Len(wins) \in 1 .. MaxWindows /\ Len(frames) <= MaxFrames
  /\ DOMAIN wndprocs \subseteq Windows
  /\ foreground \in {0} \cup Windows
  /\ \A i \in DOMAIN frames : frames[i].window \in Handles

\* A dialog gives the result its own EndDialog got, whatever dialogs and windows its function opened and
\* ended in between, and is cancelled when it was not ended.
DialogsGetTheirResult ==
  [][ (res'.call = "ended" /\ res' # res) =>
        res'.value = IF res'.window \in DOMAIN ended THEN ended[res'.window] ELSE IDCANCEL ]_vars

\* A message is dispatched to the procedure that GetWindowLong reports, if that is not null: a window stays
\* subclassed when its class is registered again.
SubclassGetsMessages ==
  [][ (res'.call = "dispatch" /\ get_window_long(res'.window) # None) =>
        res'.proc = get_window_long(res'.window) ]_vars
=============================================================================
