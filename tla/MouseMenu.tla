------------------------------ MODULE MouseMenu ------------------------------
(***************************************************************************)
(* The editor's right-click menu of crates/editor/src/mouse_context_menu.rs *)
(* : deploy_context_menu, MouseContextMenu::new and pinned_to_editor, and  *)
(* the DismissEvent subscription each menu carries.                        *)
(*                                                                         *)
(* State kept: the editor's mouse_context_menu slot (0 when None, else the *)
(* id of the menu view it holds), which element holds keyboard focus, the  *)
(* menus whose DismissEvent subscription is still alive, whether a custom  *)
(* menu builder is installed, and the document points the editor's        *)
(* selections cover.  The menu's items, labels and pixel offsets are       *)
(* layout and are left out.                                                *)
(***************************************************************************)
EXTENDS Naturals

CONSTANTS
  MaxMenus, \* bound on menu views built, i.e. on deploy_context_menu calls
  Points    \* document points a click can land on

ASSUME MenusAssumption == MaxMenus \in Nat
ASSUME MenuPointsAssumption == Points # {}

MenuIds == 1..MaxMenus

(* Focusable elements: the editor, any other pane, or a menu view.        *)
Elements == [on : {"editor", "other"}, id : {0}] \cup [on : {"menu"}, id : MenuIds]
OnEditor == [on |-> "editor", id |-> 0]
OnMenu(id) == [on |-> "menu", id |-> id]

VARIABLES
  menu,       \* editor.mouse_context_menu: 0 for None, else a menu id
  focus,      \* the window's focused element
  subs,       \* menus whose _subscription (DismissEvent) is alive
  nextMenu,   \* id the next ContextMenu view gets
  custom,     \* editor.custom_context_menu.is_some()
  full,       \* editor.mode() == EditorMode::Full (fixed per editor)
  project,    \* editor.project.is_some() (fixed per editor)
  sel         \* points covered by the editor's selections

vars == <<menu, focus, subs, nextMenu, custom, full, project, sel>>

Init ==
  /\ menu = 0
  /\ focus \in {OnEditor, [on |-> "other", id |-> 0]}
  /\ subs = {}
  /\ nextMenu = 1
  /\ custom \in BOOLEAN
  /\ full \in BOOLEAN
  /\ project \in BOOLEAN
  /\ sel \in SUBSET Points

(* A menu install that does not drop the replaced menu's subscription    *)
(* (as if it were detached) (mutant).                                      *)
InstallMenuKeepOld(id) ==
  /\ menu' = id
  /\ focus' = OnMenu(id)
  /\ subs' = subs \cup {id}

(* MouseContextMenu::new: focus the menu view and subscribe to its         *)
(* DismissEvent; storing it in the editor's slot drops the menu the slot   *)
(* held before, and with it that menu's subscription.                      *)
InstallMenu(id) ==
  /\ menu' = id
  /\ focus' = OnMenu(id)
  /\ subs' = (subs \ {menu}) \cup {id}

(* pinned_to_editor returned None (no last_bounds, or the source anchor    *)
(* has no pixel position): the slot is set to None, dropping the old menu. *)
NoMenu ==
  /\ menu' = 0
  /\ focus' = OnEditor
  /\ subs' = subs \ {menu}

(* The tail of deploy_context_menu, once a menu view has been built:       *)
(* without a position the menu is always installed; with one it is placed  *)
(* by pinned_to_editor, which may fail.                                    *)
PlaceMenu(hasPosition, placed) ==
  IF hasPosition /\ ~placed THEN NoMenu ELSE InstallMenu(nextMenu)

(* deploy_context_menu(editor, position, point): focus the editor; return  *)
(* for an inline editor; build the custom menu if one is installed (return *)
(* if it yields None), else return without a project, move the cursor to   *)
(* the click unless it is inside a selection (a cursor is an empty range  *)
(* and covers no point), and build the default menu; then place it.      *)
(* customMenu is what the custom builder returns.                          *)
Deploy(hasPosition, placed, p, customMenu) ==
  \/ /\ ~full \/ (custom /\ ~customMenu) \/ (~custom /\ ~project)
     /\ focus' = OnEditor
     /\ UNCHANGED <<menu, subs, nextMenu, custom, full, project, sel>>
  \/ /\ nextMenu <= MaxMenus
     /\ full
     /\ IF custom
          THEN /\ customMenu
               /\ UNCHANGED sel
          ELSE /\ project
               /\ sel' = IF p \in sel THEN sel ELSE {}
     /\ PlaceMenu(hasPosition, placed)
     /\ nextMenu' = nextMenu + 1
     /\ UNCHANGED <<custom, full, project>>

(* A dismissal that does not give focus back to the editor (mutant).       *)
DismissNoRefocus(m) ==
  /\ m \in subs
  /\ menu' = 0
  /\ subs' = subs \ {menu}
  /\ UNCHANGED <<focus, nextMenu, custom, full, project, sel>>

(* Menu m emits DismissEvent (an item was confirmed or the menu was        *)
(* cancelled).  Only a live subscription reacts: it takes the editor's     *)
(* menu (dropping it) and, if focus is inside menu m, focuses the editor.  *)
Dismiss(m) ==
  /\ m \in subs
  /\ menu' = 0
  /\ subs' = subs \ {menu}
  /\ focus' = IF focus = OnMenu(m) THEN OnEditor ELSE focus
  /\ UNCHANGED <<nextMenu, custom, full, project, sel>>

(* The user moves focus to another pane or back to the editor.  The menu  *)
(* stays open: its blur subscription is replaced by an empty one.          *)
MoveFocus(e) ==
  /\ focus' = e
  /\ UNCHANGED <<menu, subs, nextMenu, custom, full, project, sel>>

Next ==
  \/ \E pos, placed, c \in BOOLEAN, p \in Points : Deploy(pos, placed, p, c)
  \/ \E m \in MenuIds : Dismiss(m)
  \/ \E e \in {"editor", "other"} : MoveFocus([on |-> e, id |-> 0])

Spec == Init /\ [][Next]_vars

-----------------------------------------------------------------------------
(* Properties                                                              *)

TypeOK ==
  /\ menu \in {0} \cup MenuIds
  /\ focus \in Elements
  /\ subs \subseteq MenuIds
  /\ nextMenu \in 1..(MaxMenus + 1)
  /\ custom \in BOOLEAN
  /\ full \in BOOLEAN
  /\ project \in BOOLEAN
  /\ sel \subseteq Points

(* Only the menu the editor holds listens for DismissEvent: a menu that    *)
(* was replaced by a later deploy_context_menu, or already dismissed,      *)
(* cannot take the editor's current menu when it is dismissed late.        *)
OnlyCurrentMenuListens ==
  subs = IF menu = 0 THEN {} ELSE {menu}

(* Keyboard focus is never left on a menu view the editor no longer holds: *)
(* deploy_context_menu focuses the editor before replacing or clearing     *)
(* the menu, and the dismiss handler gives focus back to the editor.       *)
FocusNotOnDroppedMenu ==
  focus.on = "menu" => focus.id = menu
=============================================================================
