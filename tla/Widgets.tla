------------------------------- MODULE Widgets -------------------------------
(***************************************************************************)
(* Recharging, registering and the goods manager beside the settlement      *)
(* widget (client/ui/rechargewidget.cpp, memberregister.cpp,                *)
(* goodsmanager.cpp, mainwindow.cpp).                                       *)
(*                                                                         *)
(* ClientService::routeResponse emits one signal for each kind of reply,    *)
(* which says nothing of the request.  The main window connects them: a     *)
(* reply to a member query goes to the settlement, recharge and             *)
(* registration widgets in this order, a reply to a password verification   *)
(* to the settlement widget alone.                                          *)
(*                                                                         *)
(* The pages share a window that can be used while no dialog is open; the   *)
(* goods manager has its own, which a dialog blocks as well.  Boxes after   *)
(* which a handler does nothing more are left out.                          *)
(***************************************************************************)
EXTENDS Settlement

CONSTANTS
  Strangers,     (* UIDs of no member                                       *)
  Amounts,       (* what can be recharged                                   *)
  MaxForms       (* bound: clicks in these widgets                          *)

ASSUME WidgetsAssumption ==
  /\ Strangers \cap (Members \cup {NoMember}) = {}
  /\ Amounts \subseteq Nat \ {0} /\ MaxForms \in Nat

Uids == Members \cup Strangers

VARIABLES
  recharge,        (* the recharge widget                                   *)
  resetTimers,     (* running 2 s timers after accepted recharges           *)
  m_registerInfo,  (* the UID of the pending registration, or NoMember      *)
  goodsForm,       (* the goods manager's form: the stock it shows          *)
  authHandlers,    (* one-shot handlers waiting for the administrator's      *)
                   (* authentication                                        *)
  managerShown,
  verified,        (* history: members whose password was verified for it   *)
  topUps,          (* history: recharges paid for, by UID                   *)
  registered,      (* history: registrations sent                           *)
  registerClicks,  (* history: registrations asked for                      *)
  restocked,       (* history: units the administrator added                *)
  forms

rechargeVars == <<recharge, resetTimers, verified, topUps>>
registerVars == <<m_registerInfo, registered, registerClicks>>
managerVars == <<goodsForm, authHandlers, managerShown, restocked>>
widgetVars == <<rechargeVars, registerVars, managerVars, forms>>

(* What the widgets leave alone. *)
sales_ == <<cartVars, memberVars, m_pendingTotal, dialog, box, orders, history, bounds>>

NoRecharge == [m_currentUid |-> NoMember, m_pendingPassword |-> FALSE,
               m_authenticated |-> FALSE, m_currentBalance |-> 0]
NotSelected == [id |-> NoMember, stock |-> 0]

WidgetsInit ==
  /\ Init
  /\ recharge = NoRecharge /\ resetTimers = 0 /\ verified = {} /\ topUps = {}
  /\ m_registerInfo = NoMember /\ registered = 0 /\ registerClicks = 0
  /\ goodsForm = NotSelected /\ authHandlers = 0 /\ managerShown = FALSE
  /\ restocked = [g \in Goods |-> 0]
  /\ forms = 0

WidgetsTypeOK ==
  /\ TypeOK
  /\ recharge.m_currentUid \in Uids \cup {NoMember}
  /\ recharge.m_currentBalance \in Int
  /\ resetTimers \in Nat /\ verified \subseteq Members
  /\ topUps \subseteq Uids \cup {NoMember}
  /\ m_registerInfo \in Uids \cup {NoMember}
  /\ goodsForm.id \in Goods \cup {NoMember}
  /\ authHandlers \in 0 .. MaxForms /\ managerShown \in BOOLEAN
  /\ restocked \in [Goods -> Int]

(* A click in one of these widgets. *)
Click == Clickable /\ forms < MaxForms /\ forms' = forms + 1

(* External: an answer after those on their way, unless one of the two is   *)
(* lost; the server knows no strangers.                                     *)
Reply(pending, msg) == replies' \in {pending, Append(pending, msg)}

QueryReply(uid) ==
  \E ok \in IF uid \in Members THEN BOOLEAN ELSE {FALSE} :
    Reply(replies, [cmd |-> "member_query", ok |-> ok, uid |-> uid,
                    balance |-> IF ok THEN account[uid] ELSE 0])

-----------------------------------------------------------------------------
(* Recharging. *)

(* on_btn_query_member_clicked: m_authenticated stays as it is. *)
RechargeQuery(uid) ==
  /\ Click
  /\ recharge' = [recharge EXCEPT !.m_currentUid = uid, !.m_pendingPassword = TRUE]
  /\ QueryReply(uid)
  /\ UNCHANGED <<sales_, stock, account, resetTimers, verified, topUps, registerVars,
                 managerVars>>

(* onMemberQueryResult with a member.  With a password it asks for it to be  *)
(* verified, for the member entered here; else it is content.               *)
RechargeFound(msg, pending) ==
  LET uid == recharge.m_currentUid IN
  IF recharge.m_pendingPassword
    THEN /\ recharge' = [recharge EXCEPT !.m_currentBalance = msg.balance]
         /\ \E ok \in IF uid \in Members THEN BOOLEAN ELSE {FALSE} :
              /\ Reply(pending, [cmd |-> "member_verify_password", ok |-> ok,
                                 shown |-> [kind |-> "recharge", uid |-> uid, total |-> 0]])
              /\ verified' = IF ok THEN verified \cup {uid} ELSE verified
    ELSE /\ recharge' = [recharge EXCEPT !.m_currentBalance = msg.balance,
                                         !.m_authenticated = TRUE]
         /\ replies' = pending
         /\ UNCHANGED verified

(* on_btn_recharge_clicked: the payment stub succeeds at once.  The server   *)
(* accepts or refuses.                                                      *)
on_btn_recharge_clicked(amount) ==
  LET uid == recharge.m_currentUid IN
  /\ Click /\ recharge.m_authenticated
  /\ recharge' = [recharge EXCEPT !.m_currentBalance = @ + amount]
  /\ topUps' = topUps \cup {uid}
  /\ \E ok \in IF uid \in Members THEN BOOLEAN ELSE {FALSE} :
       /\ Reply(replies, [cmd |-> "member_recharge", ok |-> ok])
       /\ account' = IF ok THEN [account EXCEPT ![uid] = @ + amount] ELSE account
  /\ UNCHANGED <<sales_, stock, resetTimers, verified, registerVars, managerVars>>

(* A refusal takes back what the spin box shows now. *)
onMemberRechargeResult ==
  /\ Delivered("member_recharge")
  /\ IF Head(replies).ok
       THEN resetTimers' = resetTimers + 1 /\ UNCHANGED recharge
       ELSE /\ \E shown \in Amounts :
                 recharge' = [recharge EXCEPT !.m_currentBalance = @ - shown]
            /\ UNCHANGED resetTimers
  /\ UNCHANGED <<sales_, stock, account, verified, topUps, registerVars, managerVars, forms>>

(* The 2 s timer: resetToDefault, whoever is being served by then. *)
RechargeResets ==
  /\ resetTimers > 0 /\ resetTimers' = resetTimers - 1
  /\ recharge' = NoRecharge
  /\ UNCHANGED <<sales_, stock, account, replies, verified, topUps, registerVars,
                 managerVars, forms>>

-----------------------------------------------------------------------------
(* Registering. *)

(* A second click replaces the first's information, whose reply then goes to *)
(* the second.                                                              *)
on_btn_register_clicked(uid) ==
  /\ Click
  /\ m_registerInfo' = uid /\ registerClicks' = registerClicks + 1
  /\ QueryReply(uid)
  /\ UNCHANGED <<sales_, stock, account, registered, rechargeVars, managerVars>>

(* onMemberQueryResult with a member: the UID is taken. *)
RegisterFound == m_registerInfo' = NoMember /\ UNCHANGED <<registered, registerClicks>>

(* processRegisterRequest, after "not found" to anybody's query; a picture    *)
(* that cannot be saved ends it.                                            *)
processRegisterRequest(pending) ==
  IF m_registerInfo = NoMember
    THEN replies' = pending /\ UNCHANGED registerVars
    ELSE /\ m_registerInfo' = NoMember
         /\ \/ /\ registered' = registered + 1
               /\ \E ok \in BOOLEAN : Reply(pending, [cmd |-> "member_register", ok |-> ok])
            \/ replies' = pending /\ UNCHANGED registered
         /\ UNCHANGED registerClicks

(* Success clears the form, and with it a registration clicked since.       *)
onMemberRegisterResult ==
  /\ Delivered("member_register")
  /\ m_registerInfo' = IF Head(replies).ok THEN NoMember ELSE m_registerInfo
  /\ UNCHANGED <<sales_, stock, account, rechargeVars, registered, registerClicks,
                 managerVars, forms>>

-----------------------------------------------------------------------------
(* The reply to a member query, for all three widgets.  When it is a failure  *)
(* the settlement widget's box holds the others up.                         *)

CardDetected(uid) ==
  /\ slotGetCardUID(uid)
  /\ recharge' = NoRecharge
  /\ UNCHANGED <<resetTimers, verified, topUps, registerVars, managerVars, forms>>

MemberQueryAnswered ==
  /\ Arrives("member_query")
  /\ LET msg == Head(replies) IN
       /\ MemberShown(msg)
       /\ IF msg.ok
            THEN RechargeFound(msg, Tail(replies)) /\ RegisterFound
            ELSE replies' = Tail(replies) /\ UNCHANGED <<recharge, verified, registerVars>>
  /\ UNCHANGED <<resetTimers, topUps, managerVars, forms>>

FailureBoxClosed ==
  /\ clearMemberInfo
  /\ recharge' = NoRecharge
  /\ processRegisterRequest(replies)
  /\ UNCHANGED <<resetTimers, verified, topUps, managerVars, forms>>

(* The cart is cleared by hand or by voice, or with the recharge page when   *)
(* the voice session has timed out.                                         *)
CartCleared ==
  /\ ClearCart
  /\ recharge' \in {recharge, NoRecharge}
  /\ UNCHANGED <<resetTimers, verified, topUps, registerVars, managerVars, forms>>

-----------------------------------------------------------------------------
(* The goods manager. *)

openGoodsManagerWithAuth ==
  /\ Click
  /\ authHandlers' = authHandlers + 1
  /\ \E ok \in BOOLEAN : Reply(replies, [cmd |-> "goods_management_auth_result", ok |-> ok])
  /\ UNCHANGED <<sales_, stock, account, rechargeVars, registerVars, goodsForm,
                 managerShown, restocked>>

(* Every handler that waits takes the first reply. *)
GoodsManagementAuthResult ==
  /\ Delivered("goods_management_auth_result")
  /\ authHandlers' = 0
  /\ managerShown' = (managerShown \/ (authHandlers > 0 /\ Head(replies).ok))
  /\ UNCHANGED <<sales_, stock, account, rechargeVars, registerVars, goodsForm, restocked,
                 forms>>

slotTableItemClicked(g) ==
  /\ Click /\ managerShown
  /\ goodsForm' = [id |-> g, stock |-> stock[g]]
  /\ UNCHANGED <<sales_, stock, account, replies, rechargeVars, registerVars, authHandlers,
                 managerShown, restocked>>

(* on_btn_update_clicked, after the administrator has added some units to     *)
(* the number shown, or only changed the name or the price.                 *)
on_btn_update_clicked(added) ==
  LET g == goodsForm.id IN
  /\ Click /\ managerShown /\ goodsForm # NotSelected
  /\ stock' = [stock EXCEPT ![g] = goodsForm.stock + added]
  /\ goodsForm' = [goodsForm EXCEPT !.stock = @ + added]
  /\ restocked' = [restocked EXCEPT ![g] = @ + added]
  /\ UNCHANGED <<sales_, account, replies, rechargeVars, registerVars, authHandlers,
                 managerShown>>

-----------------------------------------------------------------------------

WidgetsNext ==
  \/ SettlementStep /\ UNCHANGED widgetVars
  \/ CartCleared
  \/ \E uid \in Members : CardDetected(uid)
  \/ MemberQueryAnswered \/ FailureBoxClosed
  \/ \E uid \in Uids : RechargeQuery(uid) \/ on_btn_register_clicked(uid)
  \/ \E amount \in Amounts : on_btn_recharge_clicked(amount)
  \/ onMemberRechargeResult \/ RechargeResets
  \/ onMemberRegisterResult
  \/ openGoodsManagerWithAuth \/ GoodsManagementAuthResult
  \/ \E g \in Goods : slotTableItemClicked(g)
  \/ \E added \in {0, 1} : on_btn_update_clicked(added)

WidgetsSpec == WidgetsInit /\ [][WidgetsNext]_<<vars, widgetVars>>

-----------------------------------------------------------------------------
(* Properties. *)

(* Replies to other widgets' queries start registrations, but never more      *)
(* than the user asked for (memberregister.cpp:94, 177).                    *)
RegisteredAsAsked == registered <= registerClicks

(* Why it holds: a registration that is still pending is one of those asked    *)
(* for and not sent, and whoever sends it, or ends it, takes it away.         *)
RegisterInv ==
  /\ registered \in Nat /\ registerClicks \in Nat
  /\ registered + (IF m_registerInfo = NoMember THEN 0 ELSE 1) <= registerClicks

(* settlementwidget.cpp:333: a password confirms the payment.  One that was   *)
(* entered to recharge pays the cart as well, once the password field of the  *)
(* settlement page was used.                                                *)
RechargePasswordPaysNothing ==
  \A i \in DOMAIN orders : orders[i].shown.kind # "recharge"

(* rechargewidget.cpp:171: "member authenticated, recharging is possible":   *)
(* for the member whose password was verified.                              *)
RechargeIsVerified == topUps \subseteq verified

(* rechargewidget.cpp:152: "recharged": somebody gets what was paid.         *)
RechargeHasMember == NoMember \notin topUps

(* rechargewidget.cpp:188: a verified password authenticates.  The reply is   *)
(* not connected to the widget, so that it never is.                        *)
VerifiedIsAuthenticated ==
  recharge.m_currentUid \in verified /\ ~ Contains([i \in DOMAIN replies |-> replies[i].cmd],
                                                  "member_verify_password")
    => recharge.m_authenticated

(* goodsmanager.cpp:111: an update changes the stock by what was entered and  *)
(* keeps what sales have deducted.                                          *)
StockKeepsDeductions ==
  \A g \in Goods : stock[g] = StartStock + restocked[g] - deducted[g]

=============================================================================
