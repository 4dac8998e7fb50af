--------------------------- MODULE MouseMenuProofs ---------------------------
(* Proofs that the MouseMenu invariants hold for every MaxMenus and every  *)
(* set of points: the type invariant, and that the editor's menu slot,    *)
(* the live DismissEvent subscriptions and keyboard focus agree.          *)
EXTENDS MouseMenu, TLAPS

(* The three invariants together are inductive.                            *)
MInv == TypeOK /\ OnlyCurrentMenuListens /\ FocusNotOnDroppedMenu

USE MenusAssumption, MenuPointsAssumption
USE DEF MenuIds, Elements, OnEditor, OnMenu

(* Every initial state satisfies the invariant.                            *)
LEMMA InitMInv == Init => MInv
BY DEF Init, MInv, TypeOK, OnlyCurrentMenuListens, FocusNotOnDroppedMenu

(* Installing menu id (MouseContextMenu::new stored in the slot) keeps the *)
(* invariant when id is a fresh menu id.                                   *)
LEMMA InstallKeeps ==
  ASSUME MInv, NEW id \in MenuIds, InstallMenu(id),
         nextMenu' \in 1..(MaxMenus + 1),
         UNCHANGED <<custom, full, project>>, sel' \subseteq Points
  PROVE  MInv'
BY DEF MInv, TypeOK, OnlyCurrentMenuListens, FocusNotOnDroppedMenu, InstallMenu

(* Each step of Next keeps the invariant.                                  *)
LEMMA NextMInv == MInv /\ [Next]_vars => MInv'
<1> SUFFICES ASSUME MInv, [Next]_vars PROVE MInv'
  OBVIOUS
<1>1. CASE \E pos, placed, c \in BOOLEAN, p \in Points : Deploy(pos, placed, p, c)
  <2> PICK pos \in BOOLEAN, placed \in BOOLEAN, c \in BOOLEAN, p \in Points :
             Deploy(pos, placed, p, c)
    BY <1>1
  <2>1. CASE ~full \/ (custom /\ ~c) \/ (~custom /\ ~project)
    <3>1. ~(nextMenu <= MaxMenus /\ full /\ (custom => c) /\ (~custom => project))
      BY <2>1
    <3>2. focus' = OnEditor /\ UNCHANGED <<menu, subs, nextMenu, custom, full, project, sel>>
      BY <3>1 DEF Deploy
    <3> QED BY <3>2 DEF MInv, TypeOK, OnlyCurrentMenuListens, FocusNotOnDroppedMenu
  <2>2. CASE ~(~full \/ (custom /\ ~c) \/ (~custom /\ ~project))
    <3>1. /\ nextMenu <= MaxMenus
          /\ PlaceMenu(pos, placed)
          /\ nextMenu' = nextMenu + 1
          /\ UNCHANGED <<custom, full, project>>
          /\ sel' \subseteq Points
      BY <2>2 DEF Deploy, MInv, TypeOK
    <3>2. nextMenu \in MenuIds /\ nextMenu' \in 1..(MaxMenus + 1)
      BY <3>1 DEF MInv, TypeOK
    <3>3. CASE pos /\ ~placed
      BY <3>1, <3>3 DEF PlaceMenu, NoMenu, MInv, TypeOK,
                        OnlyCurrentMenuListens, FocusNotOnDroppedMenu
    <3>4. CASE ~(pos /\ ~placed)
      BY <3>1, <3>2, <3>4, InstallKeeps DEF PlaceMenu
    <3> QED BY <3>3, <3>4
  <2> QED BY <2>1, <2>2
<1>2. CASE \E m \in MenuIds : Dismiss(m)
  <2> PICK m \in MenuIds : Dismiss(m)
    BY <1>2
  <2>1. menu = m /\ subs = {m}
    BY DEF Dismiss, MInv, OnlyCurrentMenuListens
  <2>2. focus.on = "menu" => focus = OnMenu(m)
    BY <2>1 DEF MInv, TypeOK, FocusNotOnDroppedMenu
  <2> QED BY <2>1, <2>2 DEF Dismiss, MInv, TypeOK,
                            OnlyCurrentMenuListens, FocusNotOnDroppedMenu
<1>3. CASE \E e \in {"editor", "other"} : MoveFocus([on |-> e, id |-> 0])
  BY <1>3 DEF MoveFocus, MInv, TypeOK, OnlyCurrentMenuListens, FocusNotOnDroppedMenu
<1>4. CASE UNCHANGED vars
  BY <1>4 DEF vars, MInv, TypeOK, OnlyCurrentMenuListens, FocusNotOnDroppedMenu
<1> QED BY <1>1, <1>2, <1>3, <1>4 DEF Next

(* The menu slot and focus are always of their types.                      *)
THEOREM MenuTypeCorrect == Spec => []TypeOK
<1>1. MInv => TypeOK
  BY DEF MInv
<1> QED BY InitMInv, NextMInv, <1>1, PTL DEF Spec

(* A replaced or dismissed menu never keeps a DismissEvent subscription,   *)
(* so a late dismissal cannot take the editor's current menu.              *)
THEOREM OnlyCurrentMenuListensHolds == Spec => []OnlyCurrentMenuListens
<1>1. MInv => OnlyCurrentMenuListens
  BY DEF MInv
<1> QED BY InitMInv, NextMInv, <1>1, PTL DEF Spec

(* deploy_context_menu and the dismiss handler never leave keyboard focus  *)
(* on a menu view the editor no longer holds.                              *)
THEOREM FocusNotOnDroppedMenuHolds == Spec => []FocusNotOnDroppedMenu
<1>1. MInv => FocusNotOnDroppedMenu
  BY DEF MInv
<1> QED BY InitMInv, NextMInv, <1>1, PTL DEF Spec
=============================================================================
