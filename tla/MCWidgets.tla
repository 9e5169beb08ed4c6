------------------------------ MODULE MCWidgets ------------------------------
(***************************************************************************)
(* Instance of Widgets for TLC.  In a behaviour either the pages for        *)
(* recharging and registering are used beside a settlement by password, or  *)
(* the goods manager beside a settlement in either way.                     *)
(***************************************************************************)
EXTENDS Widgets

CONSTANTS
  m1, g1, s1,
  MaxPageForms     (* bound: clicks in the pages *)

VARIABLE used

MCInit == WidgetsInit /\ used \in {"pages", "manager"}

MCNext ==
  /\ WidgetsNext
  /\ UNCHANGED used
  /\ \/ used = "pages" /\ forms' <= MaxPageForms /\ UNCHANGED <<managerVars, frames>>
     \/ used = "manager" /\ UNCHANGED <<topUps, registerClicks>>
        /\ ~ recharge'.m_pendingPassword

MCSpec == MCInit /\ [][MCNext]_<<vars, widgetVars, used>>
=============================================================================
