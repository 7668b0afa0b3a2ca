------------------------------ MODULE Desktop ------------------------------
(***************************************************************************)
(* The window manager of user/desktop.cpp.  One action is one turn of its  *)
(* loop: an event read from /dev/input and all that is done with it.       *)
(*                                                                         *)
(* Where the pointer is, is abstracted to what it hits: any window that is *)
(* not minimised may be the first one under it, at any of its parts.  So   *)
(* coordinates, sizes and scroll offsets are left out, and so is the text  *)
(* in editors, terminals and the calculator.  A listing (the files of the  *)
(* current directory, the tasks) is the set of the slots in use, shown in  *)
(* ascending order; renaming a file leaves it in its slot.                 *)
(*                                                                         *)
(* Esc ends the program, and the model does not follow it there (nor for   *)
(* scan code 27, the ] key, which line 1537 takes for Esc as well).        *)
(***************************************************************************)
EXTENDS Integers, Sequences, FiniteSets

CONSTANTS
    MaxWin,    \* MAXW
    MenuMax,   \* MENU_MAX
    Rows,      \* items a listing can have
    Apps,      \* the types of window the user opens
    MaxEvents  \* bound: how many events are followed

Types == {"expl", "term", "edit", "sysinfo", "ctrl", "dlg", "calc", "task"}

ASSUME DesktopAssumption ==
    /\ MaxWin \in Nat \ {0} /\ MenuMax \in Nat \ {0} /\ Rows \in Nat /\ MaxEvents \in Nat
    /\ Apps \subseteq Types

Wins == 1 .. MaxWin
Item == 1 .. Rows
Lists == {"expl", "task"}

VARIABLES
    win,         \* wins[]
    order,       \* order[0 .. norder-1], the last one on top
    menu,        \* menu_items[0 .. menu_n-1]; menu_on is menu # <<>>
    editorMenu,  \* menu_is_editor
    lists,       \* what SYS_VFS_LIST and SYS_TASK_LIST answer
    mask,        \* the buttons that are physically down
    down,        \* the loop's `down`
    (* Not in the program: *)
    owner,       \* the editor an editor menu was opened in
    chord,       \* a left press was handled before a release was
    astray,      \* what was done to something the user had not chosen
    events       \* how many events there were

vars == <<win, order, menu, editorMenu, lists, mask, down, owner, chord, astray, events>>

-----------------------------------------------------------------------------
(* Windows *)

(* What open_window leaves in a slot.  sel is esel + 1 (0: nothing), and   *)
(* foc is cfocus >= 0.  item, moved and killed are not in the program: the *)
(* item that sel was on when the user selected it, what has changed that   *)
(* listing since with the selection left on its row, and the tasks that    *)
(* the window's kill button has sent SIGKILL to.                           *)
Fresh(type) ==
    [used |-> TRUE, type |-> type, min |-> FALSE, max |-> FALSE, grab |-> {},
     sel |-> 0, item |-> 0, moved |-> {}, killed |-> {}, foc |-> FALSE, view |-> "list", ren |-> FALSE]

(* The other fields of a slot that is not used are not read before the     *)
(* next open_window resets them.                                           *)
Closed == [Fresh("none") EXCEPT !.used = FALSE]

(* order_update_active: also a minimised window on top stays active.       *)
Active(o) == IF o = <<>> THEN 0 ELSE o[Len(o)]

FirstWin(S) == CHOOSE k \in S : \A j \in S : k <= j

(* close_window and win_raise look for the window's first place, and the   *)
(* ones behind it move up by one; a window without a place is left alone.  *)
Places(o, k) == {n \in DOMAIN o : o[n] = k}

Without(o, k) ==
    LET first == FirstWin(Places(o, k)) IN
    IF Places(o, k) = {} THEN o
    ELSE [n \in 1 .. Len(o) - 1 |-> IF n < first THEN o[n] ELSE o[n + 1]]

Raised_again(o, k) == Append(o, k)
Raised(o, k) == IF Places(o, k) = {} THEN o ELSE Append(Without(o, k), k)

FreeWins(ws) == {k \in Wins : ~ws[k].used}

(* open_window: nothing happens when the table is full.                    *)
Opened(ws, o, w) ==
    IF Len(o) < MaxWin /\ FreeWins(ws) # {}
    THEN LET k == FirstWin(FreeWins(ws))
         IN [win |-> [ws EXCEPT ![k] = w], order |-> Append(o, k)]
    ELSE [win |-> ws, order |-> o]

CloseWindow(ws, o, k) == [win |-> [ws EXCEPT ![k] = Closed], order |-> Without(o, k)]

Shows(s) == win' = s.win /\ order' = s.order
Same == [win |-> win, order |-> order]

(* The windows that come with controls of their own.                       *)
Explorer == Fresh("expl")
RenameBox == [Fresh("dlg") EXCEPT !.ren = TRUE]
MessageBox == Fresh("dlg")
ControlDemo == Fresh("ctrl")

(* A window of this type comes up, if the user works with such windows.    *)
NewWindow(ws, o, w) == w.type \in Apps /\ Shows(Opened(ws, o, w))

-----------------------------------------------------------------------------
(* Listings and selections *)

Row(S, r) == CHOOSE x \in S : Cardinality({y \in S : y < x}) = r - 1

Deselected_kept(w) == w
Deselected(w) == [w EXCEPT !.sel = 0, !.item = 0, !.moved = {}]

(* What can change a listing under a selection: a task that a kill button  *)
(* hit has ended, a click or a terminal entered another directory, or      *)
(* something else (another window, a menu, another program).               *)
Causes == {"kill", "cd", "other"}

(* The listing l changes under the windows that show it, except k's.       *)
Moved(ws, l, k, why) ==
    [j \in Wins |-> IF ws[j].type = l /\ ws[j].sel # 0 /\ j # k
                    THEN [ws[j] EXCEPT !.moved = @ \cup {why}] ELSE ws[j]]

(* A file or directory made takes a free slot; it may also fail.           *)
NewSlots == {{}} \cup {{i} : i \in Item \ lists["expl"]}

(* SYS_FAT_WRITE of an editor: the file may be new.                        *)
Written(ws, o) ==
    \E new \in NewSlots :
       /\ lists' = [lists EXCEPT !["expl"] = @ \cup new]
       /\ Shows([win |-> IF new = {} THEN ws ELSE Moved(ws, "expl", 0, "other"), order |-> o])

(* expl_mkdir                                                              *)
ExplMkdir(ws, o, k) ==
    \E new \in NewSlots :
       /\ lists' = [lists EXCEPT !["expl"] = @ \cup new]
       /\ Shows([win |-> [Moved(ws, "expl", k, "other") EXCEPT ![k] = Deselected(@)], order |-> o])
       /\ UNCHANGED astray

(* A button works on row sel of the listing as it is now.  When that is    *)
(* not the item selected, what the program did is recorded in astray: act  *)
(* if the listing had not changed under the selection, kept if it had only *)
(* by what moved names, nothing if something else changed it.              *)
Hits(w) == Row(lists[w.type], w.sel)
Strays(w, act, kept) ==
    IF Hits(w) = w.item \/ "other" \in w.moved THEN astray
    ELSE IF w.moved = {} THEN act ELSE kept

(* expl_delsel: the listing is read again and the row deleted; SYS_FAT_DEL *)
(* or SYS_FAT_RMDIR may refuse.                                            *)
ExplDelsel(ws, o, k) ==
    LET w == ws[k] IN
    \/ /\ w.sel # 0 /\ w.sel <= Cardinality(lists["expl"])
       /\ \E gone \in {{}, {Hits(w)}} : lists' = [lists EXCEPT !["expl"] = @ \ gone]
       /\ astray' = Strays(w, "delete", "kept_delete")
       /\ Shows([win |-> [Moved(ws, "expl", k, "other") EXCEPT ![k] = Deselected(@)], order |-> o])
    \/ /\ w.sel > Cardinality(lists["expl"])
       /\ Shows([win |-> [ws EXCEPT ![k] = Deselected(@)], order |-> o])
       /\ UNCHANGED <<lists, astray>>
    \/ /\ w.sel = 0
       /\ Shows([win |-> ws, order |-> o])
       /\ UNCHANGED <<lists, astray>>

(* SYS_FAT_CD: the kernel has one current directory for everybody, and no  *)
(* explorer gives up its selection, the one that was clicked neither.      *)
Cd(ws, o) ==
    /\ \E S \in SUBSET Item : lists' = [lists EXCEPT !["expl"] = S]
    /\ Shows([win |-> Moved(ws, "expl", 0, "cd"), order |-> o])
    /\ UNCHANGED astray

(* open_file of what is not a directory: a program runs (launch waits for  *)
(* it), a text gets an editor, anything else is shown in the explorer.     *)
OpenFile(ws, o, k) ==
    /\ \/ Shows([win |-> ws, order |-> o])
       \/ NewWindow(ws, o, Fresh("edit"))
       \/ Shows([win |-> [ws EXCEPT ![k].view = "file"], order |-> o])
    /\ UNCHANGED <<lists, astray>>

-----------------------------------------------------------------------------
(* Menus *)

NoFile == 0
Entry(act) == [act |-> act, file |-> NoFile]
Entries(acts) == [n \in DOMAIN acts |-> Entry(acts[n])]

(* menu_add, as often as there are items; a full menu takes no more.       *)
MenuAdd(m, items) ==
    LET all == m \o items IN SubSeq(all, 1, IF Len(all) > MenuMax THEN MenuMax ELSE Len(all))

DeskMenu == Entries(<<"refresh", "sysinfo", "taskm", "ctrl", "term", "newtxt">>)
ExplMenu == Entries(<<"mkdir", "refresh", "sysinfo", "taskm", "ctrl", "term">>)
BarMenu  == Entries(<<"newtxt", "sysinfo", "taskm", "ctrl">>)
EditMenus == {Entries(<<"newedit", "save", "close">>), Entries(<<"clear">>), Entries(<<"about">>)}
FileMenus(i) == {<<[act |-> "open", file |-> i], [act |-> "del", file |-> i]>>,
                 <<[act |-> "open", file |-> i], [act |-> "run", file |-> i], [act |-> "del", file |-> i]>>}

MenuClear == menu' = <<>> /\ editorMenu' = FALSE /\ owner' = 0

Explorers == {n \in DOMAIN order : win[order[n]].type = "expl"}

(* menu_exec of an editor's menu.  Only the active window counts, and what *)
(* a right click added to the menu does nothing here.                      *)
EditorExec(act) ==
    LET a == Active(order)
        ed == a # 0 /\ win[a].used /\ win[a].type = "edit" IN
    /\ \/ act = "newedit" /\ NewWindow(win, order, Fresh("edit")) /\ UNCHANGED lists
       \/ act = "save" /\ ed /\ Written(win, order)
       \/ /\ act \notin {"newedit", "save"} \/ ~ed
          /\ Shows(IF act = "close" /\ ed THEN CloseWindow(win, order, a) ELSE Same)
          /\ UNCHANGED lists
    /\ astray' = IF a # owner THEN "menu" ELSE astray

Opens(act) ==
    CASE act = "term" -> Fresh("term") [] act = "newtxt" -> Fresh("edit")
      [] act = "sysinfo" -> Fresh("sysinfo") [] act = "taskm" -> Fresh("task")
      [] act = "ctrl" -> ControlDemo

(* menu_exec of the other menus.  "open" takes the explorer that is lowest *)
(* on the screen, "mkdir" the highest.                                     *)
MenuExec(it) ==
    \/ /\ it.act \in {"refresh", "run"} \/ (it.act \in {"mkdir", "open"} /\ Explorers = {})
       /\ Shows(Same) /\ UNCHANGED <<lists, astray>>
    \/ /\ it.act \in {"term", "newtxt", "sysinfo", "taskm", "ctrl"}
       /\ NewWindow(win, order, Opens(it.act)) /\ UNCHANGED <<lists, astray>>
    \/ /\ it.act = "mkdir" /\ Explorers # {}
       /\ ExplMkdir(win, order, order[CHOOSE n \in Explorers : \A m \in Explorers : m <= n])
    \/ /\ it.act = "open" /\ Explorers # {}
       /\ OpenFile(win, order, order[CHOOSE n \in Explorers : \A m \in Explorers : n <= m])
    \/ /\ it.act = "del"
       /\ \E gone \in {{}, {it.file}} : lists' = [lists EXCEPT !["expl"] = @ \ gone]
       /\ Shows([win |-> Moved(win, "expl", 0, "other"), order |-> order])
       /\ UNCHANGED astray

-----------------------------------------------------------------------------
(* The left button goes down: what it hits is tried in this order *)

(* An item of the menu, or the rim below the last one.                     *)
OnMenu ==
    /\ menu # <<>>
    /\ \/ /\ Shows(Same)
          /\ UNCHANGED <<menu, editorMenu, owner, lists, astray>>
       \/ /\ \E n \in DOMAIN menu : IF editorMenu THEN EditorExec(menu[n].act) ELSE MenuExec(menu[n])
          /\ MenuClear

(* A button of the task bar, or the bar beside the buttons.                *)
OnTaskbar ==
    /\ MenuClear
    /\ \/ \E n \in DOMAIN order :
             LET k == order[n]
             IN Shows([win |-> [win EXCEPT ![k].min = FALSE], order |-> Raised(order, k)])
       \/ Shows(Same)
    /\ UNCHANGED <<lists, astray>>

Visible == {k \in Wins : win[k].used /\ ~win[k].min}

(* The frame of a window: resize edge, scroll bar, the three buttons and   *)
(* the title.  The buttons and the scroll bar do not raise the window.     *)
OnFrame(k) ==
    LET w == win[k]
        up(v) == [win |-> [win EXCEPT ![k] = v], order |-> Raised(order, k)]
        stay(v) == [win |-> [win EXCEPT ![k] = v], order |-> order] IN
    /\ MenuClear
    /\ \/ ~w.max /\ Shows(up([w EXCEPT !.grab = (@ \ {"drag"}) \cup {"resize"}]))
       \/ w.type \in {"expl", "term", "edit", "task"} /\ Shows(stay([w EXCEPT !.grab = @ \cup {"scroll"}]))
       \/ Shows(CloseWindow(win, order, k))
       \/ Shows(stay([w EXCEPT !.max = ~@]))
       \/ Shows(stay([w EXCEPT !.min = TRUE]))
       \/ Shows(up(IF w.max THEN w ELSE [w EXCEPT !.grab = (@ \ {"resize"}) \cup {"drag"}]))
    /\ UNCHANGED <<lists, astray>>

(* ctrl_press, after the window was raised: o is the new order.  CA_TKILL  *)
(* reads the tasks again, sends SIGKILL to row sel and leaves sel on its   *)
(* row.  The signal is only made pending: the task leaves the listing in   *)
(* Dies, or never.  With nothing to kill it is as CA_TKREF.                *)
TaskButton(k, o) ==
    LET w == win[k] IN
    /\ w.type = "task"
    /\ \/ /\ w.sel # 0 /\ w.sel <= Cardinality(lists["task"])
          /\ astray' = Strays(w, "kill", "kept_kill")
          /\ Shows([win |-> [win EXCEPT ![k].killed = @ \cup {Hits(w)}], order |-> o])
       \/ Shows([win |-> win, order |-> o]) /\ UNCHANGED astray
    /\ UNCHANGED lists

ExplButton(k, o) ==
    LET w == win[k] IN
    /\ w.type = "expl"
    /\ \/ ExplMkdir(win, o, k)
       \/ ExplDelsel(win, o, k)
       \/ /\ w.sel # 0 /\ w.sel <= Cardinality(lists["expl"])
          /\ NewWindow(win, o, RenameBox)
          /\ UNCHANGED <<lists, astray>>

(* OK closes the active window, which is to be the dialogue itself.        *)
DlgButton(k, o) ==
    /\ win[k].type = "dlg"
    /\ Shows(CloseWindow(win, o, Active(o)))
    /\ astray' = IF Active(o) # k THEN "close" ELSE astray
    /\ UNCHANGED lists

(* Save opens a dialogue that says so, whatever SYS_FAT_WRITE returned.    *)
OtherControl(k, o) ==
    LET w == win[k]
        told == Opened(win, o, MessageBox) IN
    \/ w.type = "edit" /\ "dlg" \in Apps /\ Written(told.win, told.order) /\ UNCHANGED astray
    \/ /\ \/ w.type = "ctrl" /\ NewWindow(win, o, MessageBox)
          \/ /\ w.type \in {"edit", "ctrl"} \/ w.ren
             /\ Shows([win |-> [win EXCEPT ![k].foc = TRUE], order |-> o])
          \/ w.type = "ctrl" /\ Shows([win |-> [win EXCEPT ![k].grab = @ \cup {"slider"}], order |-> o])
          \/ w.type \in {"ctrl", "calc", "task"} /\ Shows([win |-> win, order |-> o])
       /\ UNCHANGED <<lists, astray>>

(* A click on a row selects it; on the selected row of an explorer, it     *)
(* opens the file or enters the directory.                                 *)
OnRow(k, o) ==
    LET w == win[k] IN
    \E r \in 1 .. Cardinality(lists[w.type]) :
       \/ /\ w.type = "expl" /\ w.sel = r
          /\ \/ OpenFile(win, o, k)
             \/ Cd([win EXCEPT ![k].view = "list"], o)
       \/ /\ w.type = "task" \/ w.sel # r
          /\ Shows([win |-> [win EXCEPT ![k].sel = r, ![k].item = Row(lists[w.type], r),
                                        ![k].moved = {}], order |-> o])
          /\ UNCHANGED <<lists, astray>>

(* The inside of a window.                                                 *)
OnBody(k) ==
    LET w == win[k]
        o == Raised(order, k) IN
    \/ /\ MenuClear
       /\ \/ TaskButton(k, o)
          \/ ExplButton(k, o)
          \/ DlgButton(k, o)
          \/ OtherControl(k, o)
          \/ w.type \in Lists /\ OnRow(k, o)
          \/ w.type = "expl" /\ Cd([win EXCEPT ![k].view = "list"], o)   \* the ".." line
          \/ Shows([win |-> win, order |-> o]) /\ UNCHANGED <<lists, astray>>
    \/ /\ w.type = "ctrl"
       /\ menu' = MenuAdd(<<>>, BarMenu) /\ editorMenu' = FALSE /\ owner' = 0
       /\ Shows([win |-> win, order |-> o]) /\ UNCHANGED <<lists, astray>>
    \/ /\ w.type = "edit"
       /\ \E m \in EditMenus : menu' = MenuAdd(<<>>, m)
       /\ editorMenu' = TRUE /\ owner' = k
       /\ Shows([win |-> win, order |-> o]) /\ UNCHANGED <<lists, astray>>

(* No window is hit: an icon of the desktop, or nothing.                   *)
OnDesktop ==
    /\ MenuClear
    /\ \/ \E w \in {Explorer} \cup {Fresh(t) : t \in {"term", "edit", "calc", "task"}} : NewWindow(win, order, w)
       \/ Shows(Same)
    /\ UNCHANGED <<lists, astray>>

LeftPress(m) ==
    /\ m # mask /\ "l" \in m
    /\ mask' = m /\ down' = TRUE /\ chord' = (chord \/ down)
    /\ \/ OnMenu
       \/ OnTaskbar
       \/ \E k \in Visible : OnFrame(k) \/ OnBody(k)
       \/ OnDesktop

-----------------------------------------------------------------------------
(* The other events *)

(* The right button alone: the menu of an explorer that contains the       *)
(* pointer, on a file of its list or not, or the desktop's.  The desktop's *)
(* is added to the menu that is open.                                      *)
RightPress ==
    /\ mask # {"r"} /\ mask' = {"r"}
    /\ \/ \E k \in Visible :
             /\ win[k].type = "expl"
             /\ \/ menu' = MenuAdd(<<>>, ExplMenu)
                \/ /\ win[k].view = "list"
                   /\ \E i \in lists["expl"] : \E m \in FileMenus(i) : menu' = MenuAdd(<<>>, m)
             /\ editorMenu' = FALSE /\ owner' = 0
       \/ menu' = MenuAdd(menu, DeskMenu) /\ UNCHANGED <<editorMenu, owner>>
       \/ UNCHANGED <<menu, editorMenu, owner>>   \* on the task bar
    /\ UNCHANGED <<win, order, lists, down, chord, astray>>

(* Both buttons up: the first window, from below, that holds something     *)
(* lets go of one thing.                                                   *)
Let_drag(g) == g \ {"drag"}
Let(g) ==
    CASE g \cap {"drag", "resize"} # {} -> g \ {"drag", "resize"}
      [] g \cap {"drag", "resize"} = {} /\ "slider" \in g -> g \ {"slider"}
      [] OTHER -> g \ {"scroll"}

Holding == {n \in DOMAIN order : win[order[n]].grab # {}}

Release ==
    /\ mask # {} /\ mask' = {}
    /\ down' = FALSE
    /\ win' = IF Holding = {} THEN win
              ELSE [win EXCEPT ![order[FirstWin(Holding)]].grab = Let(@)]
    /\ UNCHANGED <<order, menu, editorMenu, lists, owner, chord, astray>>

(* The ring of /dev/input overflows, say while launch() waits for a        *)
(* program, and a button event is never seen.                              *)
Overflow ==
    /\ \E m \in SUBSET {"l", "r"} : m # mask /\ mask' = m
    /\ UNCHANGED <<win, order, menu, editorMenu, lists, down, owner, chord, astray>>

(* Enter in an edit box ends the input and lets go of the slider; in a     *)
(* terminal it may be CD.  Other keys only change text.                    *)
Enter ==
    LET a == Active(order) IN
    /\ a # 0 /\ win[a].used /\ ~win[a].min
    /\ \/ /\ win[a].foc /\ win[a].type \in {"ctrl", "dlg", "edit"}
          /\ Shows([win |-> [win EXCEPT ![a].foc = FALSE, ![a].grab = @ \ {"slider"}], order |-> order])
          /\ UNCHANGED <<lists, astray>>
       \/ win[a].type = "term" /\ Cd(win, order)
    /\ UNCHANGED <<menu, editorMenu, owner, mask, down, chord>>

(* The SIGKILL of a kill button reaches its task, which ends.              *)
Dies ==
    \E k \in Wins : \E x \in win[k].killed \cap lists["task"] :
       /\ lists' = [lists EXCEPT !["task"] = @ \ {x}]
       /\ win' = Moved([win EXCEPT ![k].killed = @ \ {x}], "task", 0, "kill")
       /\ UNCHANGED <<order, menu, editorMenu, owner, mask, down, chord, astray>>

(* Other programs create and delete files, start and end.                  *)
Elsewhere ==
    \E l \in Lists, S \in SUBSET Item :
       /\ S # lists[l] /\ lists' = [lists EXCEPT ![l] = S]
       /\ win' = Moved(win, l, 0, "other")
       /\ UNCHANGED <<order, menu, editorMenu, owner, mask, down, chord, astray>>

Init ==
    /\ win = [k \in Wins |-> Closed] /\ order = <<>>
    /\ menu = <<>> /\ editorMenu = FALSE /\ owner = 0
    /\ lists = [l \in Lists |-> Item]
    /\ mask = {} /\ down = FALSE /\ chord = FALSE /\ astray = "none" /\ events = 0

Event ==
    \/ \E m \in SUBSET {"l", "r"} : LeftPress(m)
    \/ RightPress
    \/ Release
    \/ Overflow
    \/ Enter
    \/ Dies
    \/ Elsewhere

Next == events < MaxEvents /\ events' = events + 1 /\ Event

Spec == Init /\ [][Next]_vars

-----------------------------------------------------------------------------
(* order[] lists each window in use exactly once and nothing else, over    *)
(* every opening, raising and closing (open_window, win_raise and          *)
(* close_window keep the two tables in step without checking each other),  *)
(* and menu_items[] is not written past its end, though a right click adds *)
(* to the menu that is open.                                               *)
TablesExact ==
    /\ {order[n] : n \in DOMAIN order} = {k \in Wins : win[k].used}
    /\ \A m, n \in DOMAIN order : order[m] = order[n] => m = n
    /\ Len(menu) <= MenuMax

(* A button does its work on what the user had chosen: an editor's menu on *)
(* the editor it was opened in (menu_exec goes by active_win), OK on its   *)
(* own dialogue, and the file deleted (expl_delsel) or the task killed     *)
(* (CA_TKILL) is the one that was selected.  The program keeps the row of  *)
(* a selection, not the name, so a listing that changed under it makes the *)
(* button miss.  That is left out when another window, a menu or another   *)
(* program changed the listing, and allowed, under a name, when all that   *)
(* changed it are the two things the user does with a selection there: a   *)
(* task he had killed has ended ("kept_kill"), he entered another          *)
(* directory ("kept_delete").  The window's other buttons (Delete, New      *)
(* folder) excuse nothing.                                                 *)
Excused == {"none", "kept_kill", "kept_delete"}
NothingAstray == astray \in Excused

(* CA_TKILL ends the process that was selected (the comment over it), also *)
(* when the button is pressed again after the process it killed is gone.   *)
KillsSelected == astray # "kept_kill"

(* expl_delsel deletes the item that was selected (the comment over it),   *)
(* also after a second click on it entered that directory.                 *)
DeletesSelected == astray # "kept_delete"

(* With the button up no window is being dragged, resized or scrolled,     *)
(* unless a press had been handled while another was (a second button      *)
(* while the first is down, or a release lost in the ring): the release    *)
(* handler lets go of one window only.                                     *)
GrabsReleased == ~down /\ ~chord => \A k \in Wins : win[k].grab = {}
=============================================================================
