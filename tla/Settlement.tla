----------------------------- MODULE Settlement -----------------------------
(***************************************************************************)
(* Buying (client/ui/settlementwidget.cpp, facepaywidget.cpp): the cart,   *)
(* the authenticated member, the two ways to pay, the order, the stock and *)
(* the motor.                                                              *)
(*                                                                         *)
(* All of it runs on the GUI thread, one handler at a time; but a dialog   *)
(* or message box runs the event loop inside its handler, so that cards,   *)
(* voice commands and timers come in while it is open.  A box that the     *)
(* handler of a server reply opened holds back further replies (Qt does    *)
(* not emit readyRead recursively); the user's own dialogs do not.         *)
(* Replies name the command they answer and nothing else.  Boxes after     *)
(* which a handler does nothing more are left out.                         *)
(*                                                                         *)
(* Every price is 1.  The server decides when a request is sent, and its   *)
(* reply may be late or lost.                                              *)
(***************************************************************************)
EXTENDS Integers, Sequences, FiniteSets, SequencesExt

CONSTANTS
  Members, Goods,
  NoMember,      (* m_memberAuthenticated is false                          *)
  StartStock,    (* stock of each goods in the local data base              *)
  StartBalance,  (* balance of each member                                  *)
  Quantities,    (* what the spin box offers and what a voice command names *)
  MaxTaps,       (* bound: member queries                                   *)
  MaxDialogs,    (* bound: payment dialogs opened                           *)
  MaxFrames,     (* bound: faces sent to the server                         *)
  MaxAdds        (* bound: additions to the cart                            *)

ASSUME SettlementAssumption ==
  /\ NoMember \notin Members
  /\ {StartStock, StartBalance, MaxTaps, MaxDialogs, MaxFrames, MaxAdds} \subseteq Nat
  /\ Quantities \subseteq Nat \ {0}

VARIABLES
  stock,             (* the goods table of the local data base              *)
  m_goodsList,       (* the widget's copy of it                             *)
  m_cartList,
  m_currentMember,   (* who is authenticated, and the balance shown         *)
  m_pendingPassword, (* is not empty                                        *)
  m_pendingTotal,
  dialog,            (* the user's open dialog, with what it shows          *)
  box,               (* the message box of a reply handler                  *)
  replies,           (* replies of the server on their way, oldest first    *)
  account,           (* balances at the server                              *)
  orders,            (* history: orders the server accepted, and what the   *)
                     (* dialog that confirmed each had shown                *)
  deducted,          (* history: units taken from the stock                 *)
  dispensed,         (* history: units the motor was told to dispense       *)
  late,              (* history: units added while the success box is open  *)
  unpaid,            (* history: those of them that were dispensed          *)
  sales,             (* history: carts dispensed                            *)
  spoken,            (* history: the last voice addition was as announced   *)
  taps, dialogs, frames, adds

cartVars == <<m_goodsList, m_cartList>>
memberVars == <<m_currentMember, m_pendingPassword>>
history == <<deducted, dispensed, late, unpaid, sales, spoken>>
bounds == <<taps, dialogs, frames, adds>>
vars == <<stock, cartVars, memberVars, m_pendingTotal, dialog, box, replies,
          account, orders, history, bounds>>

Line == [id : Goods, num : Quantities]
NoOne == [uid |-> NoMember, balance |-> 0]
Authenticated == m_currentMember.uid # NoMember

NoDialog == [kind |-> "none"]
PasswordDialog == [kind : {"password"}, uid : Members]
FaceDialog == [kind : {"face"}, uid : Members, total : Nat, camera : BOOLEAN,
               m_faceVerified : BOOLEAN, m_isProcessing : BOOLEAN, sent : Nat]

TypeOK ==
  /\ stock \in [Goods -> Nat]
  /\ m_goodsList \in [Goods -> Nat]
  /\ m_cartList \in Seq(Line)
  /\ m_currentMember.uid \in Members \cup {NoMember}
  /\ m_currentMember.balance \in Int
  /\ m_pendingPassword \in BOOLEAN /\ m_pendingTotal \in Nat
  /\ dialog \in {NoDialog} \cup PasswordDialog \cup FaceDialog
  /\ box \in {"none", "success", "queryFailed", "wrongPassword"}
  /\ account \in [Members -> Nat]
  /\ deducted \in [Goods -> Nat] /\ dispensed \in [Goods -> Nat] /\ late \in [Goods -> Nat]
  /\ unpaid \in [Goods -> Nat] /\ sales \in Nat
  /\ spoken \in BOOLEAN

Init ==
  /\ stock = [g \in Goods |-> StartStock] /\ m_goodsList = stock
  /\ m_cartList = <<>> /\ m_currentMember = NoOne
  /\ m_pendingPassword = FALSE /\ m_pendingTotal = 0
  /\ dialog = NoDialog /\ box = "none" /\ replies = <<>>
  /\ account = [m \in Members |-> StartBalance] /\ orders = <<>>
  /\ deducted = [g \in Goods |-> 0]
  /\ dispensed = deducted /\ late = deducted /\ unpaid = deducted
  /\ sales = 0
  /\ spoken = TRUE
  /\ taps = 0 /\ dialogs = 0 /\ frames = 0 /\ adds = 0

-----------------------------------------------------------------------------

(* The units in a cart: <<i, k>> is the k-th unit of its i-th line. *)
UnitsIn(cart) == UNION {{i} \X (1 .. cart[i].num) : i \in DOMAIN cart}

Total(cart) == Cardinality(UnitsIn(cart))

UnitsOf(g, cart) == Cardinality({u \in UnitsIn(cart) : cart[u[1]].id = g})

(* External: an answer to a request, unless one of the two is lost. *)
Answer(msg) == replies' = Append(replies, msg) \/ UNCHANGED replies

(* The user can click in the widget; replies are delivered. *)
Clickable == dialog = NoDialog /\ box = "none"
Arrives(cmd) == box = "none" /\ replies # <<>> /\ Head(replies).cmd = cmd
Delivered(cmd) == Arrives(cmd) /\ replies' = Tail(replies)

-----------------------------------------------------------------------------
(* The cart. *)

(* The button of a row of the goods table, whose copy may be stale. *)
AddToCart(g, num) ==
  /\ Clickable /\ adds < MaxAdds /\ adds' = adds + 1
  /\ num <= m_goodsList[g]
  /\ m_cartList' = Append(m_cartList, [id |-> g, num |-> num])
  /\ UNCHANGED <<stock, m_goodsList, memberVars, m_pendingTotal, dialog, box,
                 replies, account, orders, history, taps, dialogs, frames>>

(* A voice command, whatever is open: the table is refreshed, then as many  *)
(* lines of one unit are added as were asked for if there is any stock.     *)
voiceAddToCart(g, qty) ==
  LET n == IF stock[g] < 1 THEN 0 ELSE qty IN
  /\ adds < MaxAdds /\ adds' = adds + 1
  /\ m_goodsList' = stock
  /\ m_cartList' = m_cartList \o [i \in 1 .. n |-> [id |-> g, num |-> 1]]
  /\ late' = IF box = "success" THEN [late EXCEPT ![g] = @ + n] ELSE late
  /\ spoken' = (n = qty)
  /\ UNCHANGED <<stock, memberVars, m_pendingTotal, dialog, box, replies, account,
                 orders, deducted, dispensed, unpaid, sales, taps, dialogs, frames>>

EmptyCart ==
  /\ m_cartList' = <<>> /\ m_goodsList' = stock
  /\ m_currentMember' = NoOne /\ m_pendingPassword' = FALSE

(* on_btn_clear_cart_clicked: by the button, or at any time by a voice      *)
(* command or the idle timer of the voice session.                          *)
ClearCart ==
  /\ m_cartList # <<>> \/ Authenticated
  /\ EmptyCart
  /\ late' = [g \in Goods |-> 0]
  /\ UNCHANGED <<stock, m_pendingTotal, dialog, box, replies, account, orders,
                 deducted, dispensed, unpaid, sales, spoken, bounds>>

-----------------------------------------------------------------------------
(* The member. *)

QueryMember(uid) ==
  /\ taps < MaxTaps /\ taps' = taps + 1
  /\ \E ok \in BOOLEAN :
       Answer([cmd |-> "member_query", ok |-> ok, uid |-> uid,
               balance |-> account[uid]])
  /\ UNCHANGED <<stock, cartVars, m_currentMember, m_pendingTotal, dialog, box,
                 account, orders, history, dialogs, frames, adds>>

(* A card, whatever is open. *)
slotGetCardUID(uid) == QueryMember(uid) /\ UNCHANGED m_pendingPassword

(* It remembers a password that nobody will verify. *)
on_btn_query_member_clicked(uid) ==
  Clickable /\ QueryMember(uid) /\ m_pendingPassword' = TRUE

(* What the widget does with a reply, up to the box. *)
MemberShown(msg) ==
  /\ IF msg.ok
       THEN /\ m_currentMember' = [uid |-> msg.uid, balance |-> msg.balance]
            /\ UNCHANGED box
       ELSE /\ box' = "queryFailed" /\ UNCHANGED m_currentMember
  /\ UNCHANGED <<stock, cartVars, m_pendingPassword, m_pendingTotal, dialog,
                 account, orders, history, bounds>>

onMemberQueryResult == Delivered("member_query") /\ MemberShown(Head(replies))

clearMemberInfo ==
  /\ box = "queryFailed" /\ box' = "none"
  /\ m_currentMember' = NoOne /\ m_pendingPassword' = FALSE
  /\ UNCHANGED <<stock, cartVars, m_pendingTotal, dialog, account, orders, history,
                 bounds>>

QueryFailedBoxClosed == clearMemberInfo /\ UNCHANGED replies

-----------------------------------------------------------------------------
(* processPayment. *)

Payable ==
  /\ m_cartList # <<>>
  /\ Total(m_cartList) <= m_currentMember.balance
  /\ \A i \in DOMAIN m_cartList : m_cartList[i].num <= stock[m_cartList[i].id]

(* shown: what the dialog that led here had said.  rest: what is on its way *)
(* from the server already.  The server refuses, or accepts and charges.    *)
processPayment(shown, rest) ==
  LET uid == m_currentMember.uid
      total == Total(m_cartList) IN
  IF ~ Payable
    THEN replies' = rest /\ UNCHANGED <<m_pendingTotal, account, orders>>
    ELSE /\ m_pendingTotal' = total
         /\ \/ /\ total <= account[uid]
               /\ account' = [account EXCEPT ![uid] = @ - total]
               /\ orders' = Append(orders, [uid |-> uid, total |-> total,
                                            shown |-> shown])
               /\ replies' \in {rest, Append(rest, [cmd |-> "order_create", ok |-> TRUE])}
            \/ /\ replies' \in {rest, Append(rest, [cmd |-> "order_create", ok |-> FALSE])}
               /\ UNCHANGED <<account, orders>>

(* The first n lines of the cart are in stock: deducting them one by one    *)
(* does not fail.                                                           *)
InStock(n) == \A g \in Goods : UnitsOf(g, SubSeq(m_cartList, 1, n)) <= stock[g]

Deducted(n) ==
  LET lines == SubSeq(m_cartList, 1, n) IN
  /\ stock' = [g \in Goods |-> stock[g] - UnitsOf(g, lines)]
  /\ deducted' = [g \in Goods |-> deducted[g] + UnitsOf(g, lines)]

(* Mutant: a failing deduction is only logged. *)
deductLogsFailure(n) ==
  /\ n = Len(m_cartList)
  /\ \E fit \in 0 .. n : InStock(fit) /\ (fit < n => ~ InStock(fit + 1)) /\ Deducted(fit)

(* The local stock, line by line, up to the first that fails. *)
deductStock(n) ==
  InStock(n) /\ (n < Len(m_cartList) => ~ InStock(n + 1)) /\ Deducted(n)

(* The deduction of the whole cart is a success. *)
OrderDeducted(n) ==
  /\ deductStock(n)
  /\ box' = IF n = Len(m_cartList) THEN "success" ELSE "none"

(* Mutant: the code of the reply is not looked at. *)
OrderReplyTaken ==
  /\ Delivered("order_create")
  /\ \E n \in 0 .. Len(m_cartList) : OrderDeducted(n)
  /\ UNCHANGED <<cartVars, memberVars, m_pendingTotal, dialog, account,
                 orders, dispensed, late, unpaid, sales, spoken, bounds>>

(* The reply stands for whatever is in the cart now. *)
onOrderCreateResult ==
  /\ Delivered("order_create")
  /\ IF Head(replies).ok
       THEN \E n \in 0 .. Len(m_cartList) :
              /\ OrderDeducted(n)
              /\ m_currentMember' =
                   IF n = Len(m_cartList) /\ Authenticated
                     THEN [m_currentMember EXCEPT !.balance = @ - m_pendingTotal]
                     ELSE m_currentMember
       ELSE UNCHANGED <<stock, deducted, m_currentMember, box>>
  /\ UNCHANGED <<cartVars, m_pendingPassword, m_pendingTotal, dialog, account,
                 orders, dispensed, late, unpaid, sales, spoken, bounds>>

(* rotateMotorForCart, with the cart as it is when the box is closed. *)
SuccessBoxClosed ==
  /\ box = "success" /\ box' = "none"
  /\ dispensed' = [g \in Goods |-> dispensed[g] + UnitsOf(g, m_cartList)]
  /\ sales' = IF m_cartList = <<>> THEN sales ELSE sales + 1
  /\ unpaid' = [g \in Goods |-> unpaid[g] + late[g]]
  /\ late' = [g \in Goods |-> 0]
  /\ EmptyCart
  /\ UNCHANGED <<stock, m_pendingTotal, dialog, replies, account, orders, deducted, spoken,
                 bounds>>

-----------------------------------------------------------------------------
(* Paying with the password. *)

PasswordDialogOpens ==
  /\ Clickable /\ Authenticated
  /\ dialogs < MaxDialogs /\ dialogs' = dialogs + 1
  /\ dialog' = [kind |-> "password", uid |-> m_currentMember.uid]
  /\ UNCHANGED <<stock, cartVars, memberVars, m_pendingTotal, box, replies, account,
                 orders, history, taps, frames, adds>>

(* The person named enters a password, right or wrong; it is verified for   *)
(* the member who is current when the dialog closes.                        *)
PasswordEntered ==
  /\ dialog.kind = "password" /\ box = "none"
  /\ dialog' = NoDialog
  /\ m_pendingPassword' = TRUE
  /\ \E ok \in {FALSE, dialog.uid = m_currentMember.uid} :
       Answer([cmd |-> "member_verify_password", ok |-> ok,
               shown |-> [kind |-> "password", uid |-> dialog.uid, total |-> 0]])
  /\ UNCHANGED <<stock, cartVars, m_currentMember, m_pendingTotal, box, account,
                 orders, history, bounds>>

DialogCancelled ==
  /\ dialog # NoDialog /\ box = "none"
  /\ dialog' = NoDialog
  /\ UNCHANGED <<stock, cartVars, memberVars, m_pendingTotal, box, replies, account,
                 orders, history, bounds>>

onPasswordVerifyResult ==
  /\ Arrives("member_verify_password")
  /\ LET msg == Head(replies)  rest == Tail(replies) IN
     \/ /\ msg.ok /\ m_pendingPassword
        /\ m_pendingPassword' = FALSE
        /\ processPayment(msg.shown, rest)
        /\ UNCHANGED box
     \/ /\ ~ (msg.ok /\ m_pendingPassword)
        /\ replies' = rest
        /\ box' = IF msg.ok THEN box ELSE "wrongPassword"
        /\ UNCHANGED <<m_pendingPassword, m_pendingTotal, account, orders>>
  /\ UNCHANGED <<stock, cartVars, m_currentMember, dialog, history, bounds>>

WrongPasswordBoxClosed ==
  /\ box = "wrongPassword" /\ box' = "none"
  /\ m_pendingPassword' = FALSE
  /\ UNCHANGED <<stock, cartVars, m_currentMember, m_pendingTotal, dialog, replies,
                 account, orders, history, bounds>>

-----------------------------------------------------------------------------
(* Paying with the face. *)

(* FacePayWidget: it keeps the member and the cart it was opened with.      *)
FaceDialogOpens ==
  /\ Clickable /\ Authenticated
  /\ dialogs < MaxDialogs /\ dialogs' = dialogs + 1
  /\ \E camera \in BOOLEAN :
       dialog' = [kind |-> "face", uid |-> m_currentMember.uid,
                  total |-> Total(m_cartList), camera |-> camera,
                  m_faceVerified |-> FALSE, m_isProcessing |-> FALSE, sent |-> 0]
  /\ UNCHANGED <<stock, cartVars, memberVars, m_pendingTotal, box, replies, account,
                 orders, history, taps, frames, adds>>

(* A frame of the 33 ms timer with a face whose features can be extracted.  *)
processFaceVerification ==
  /\ dialog.kind = "face" /\ dialog.camera
  /\ ~ dialog.m_isProcessing /\ ~ dialog.m_faceVerified
  /\ frames < MaxFrames /\ frames' = frames + 1
  /\ dialog' = [dialog EXCEPT !.m_isProcessing = TRUE, !.sent = @ + 1]
  /\ \E ok \in BOOLEAN :
       Answer([cmd |-> "face_verify", ok |-> ok, of |-> dialogs])
  /\ UNCHANGED <<stock, cartVars, memberVars, m_pendingTotal, box, account, orders,
                 history, taps, dialogs, adds>>

(* The open dialog takes any reply to a face_verify; without one it is lost. *)
slotFaceVerifyResult ==
  /\ Delivered("face_verify")
  /\ LET msg == Head(replies) IN
     dialog' = IF dialog.kind # "face" THEN dialog
               ELSE [dialog EXCEPT !.m_isProcessing = FALSE,
                                   !.m_faceVerified = msg.ok,
                                   !.sent = IF msg.of = dialogs THEN @ - 1 ELSE @]
  /\ UNCHANGED <<stock, cartVars, memberVars, m_pendingTotal, box, account, orders,
                 history, bounds>>

(* The button is enabled after a verification and when there is no camera.  *)
FaceConfirmEnabled == dialog.kind = "face" /\ (dialog.m_faceVerified \/ ~ dialog.camera)

(* A click on it; without a verification it only warns.                     *)
FaceConfirmAccepts == dialog.m_faceVerified

FaceConfirmed ==
  /\ box = "none" /\ FaceConfirmEnabled
  /\ IF FaceConfirmAccepts
       THEN /\ dialog' = NoDialog
            /\ processPayment([kind |-> "face", uid |-> dialog.uid,
                               total |-> dialog.total], replies)
       ELSE UNCHANGED <<dialog, m_pendingTotal, account, orders, replies>>
  /\ UNCHANGED <<stock, cartVars, memberVars, box, history, bounds>>

-----------------------------------------------------------------------------

SettlementStep ==
  \/ \E g \in Goods, n \in Quantities : AddToCart(g, n) \/ voiceAddToCart(g, n)
  \/ \E uid \in Members : on_btn_query_member_clicked(uid)
  \/ PasswordDialogOpens \/ PasswordEntered \/ DialogCancelled
  \/ onPasswordVerifyResult \/ WrongPasswordBoxClosed
  \/ FaceDialogOpens \/ processFaceVerification \/ slotFaceVerifyResult
  \/ FaceConfirmed
  \/ onOrderCreateResult \/ SuccessBoxClosed

(* Other widgets have a part in the other steps. *)
Next ==
  \/ SettlementStep
  \/ ClearCart
  \/ \E uid \in Members : slotGetCardUID(uid)
  \/ onMemberQueryResult \/ QueryFailedBoxClosed

Spec == Init /\ [][Next]_vars

-----------------------------------------------------------------------------
(* Properties. *)

(* What the motor is told to dispense was taken from the local stock first, *)
(* whatever is added, cleared or paid twice while an order is on its way    *)
(* and although the stock check of a payment does not add up two lines of   *)
(* the same goods (settlementwidget.cpp:140-172, 280-293).  Units added by  *)
(* voice while the success box is open are the one exception.               *)
DispensedWasDeducted ==
  \A g \in Goods : stock[g] >= 0 /\ dispensed[g] - unpaid[g] <= deducted[g]

(* Why: what is in the cart while the success box is open was deducted, but  *)
(* for the units added since.                                               *)
CartDeducted ==
  /\ {stock, deducted, dispensed, late, unpaid} \subseteq [Goods -> Int]
  /\ m_cartList \in Seq([id : Goods, num : Nat])
  /\ \A g \in Goods :
       /\ stock[g] >= 0 /\ late[g] >= 0
       /\ dispensed[g] - unpaid[g] <= deducted[g]
       /\ box = "success" =>
            dispensed[g] - unpaid[g] + UnitsOf(g, m_cartList) - late[g] <= deducted[g]

(* No more carts are dispensed than the server accepted orders, also when   *)
(* replies are late, lost or refusals (settlementwidget.cpp:140-172).       *)
SalesWereOrdered == sales <= Len(orders)

(* Why: every accepted order is confirmed by at most one reply, every such   *)
(* reply opens at most one success box and every success box dispenses once. *)
Confirmations(msgs) == {i \in DOMAIN msgs : msgs[i].cmd = "order_create" /\ msgs[i].ok}

IsSequence(s) == s \in Seq({s[i] : i \in DOMAIN s})

SaleInv ==
  /\ IsSequence(replies) /\ IsSequence(orders) /\ sales \in Nat
  /\ sales + (IF box = "success" THEN 1 ELSE 0) + Cardinality(Confirmations(replies))
       <= Len(orders)

(* settlementwidget.cpp:332: the dialog names the member and asks for the   *)
(* password to confirm the payment; that member is the one who pays.        *)
PasswordDialogNamesPayer ==
  \A i \in DOMAIN orders :
    orders[i].shown.kind = "password" => orders[i].uid = orders[i].shown.uid

(* facepaywidget.cpp:29: the dialog shows member and amount of the payment; *)
(* they are what is charged.                                                *)
FaceDialogShowsPayment ==
  \A i \in DOMAIN orders :
    orders[i].shown.kind = "face" =>
      /\ orders[i].uid = orders[i].shown.uid
      /\ orders[i].total = orders[i].shown.total

(* facepaywidget.cpp:62: "please confirm the payment manually" when there   *)
(* is no camera: the button it enables then accepts the payment.            *)
ManualConfirmAccepted == FaceConfirmEnabled => FaceConfirmAccepts

(* facepaywidget.cpp:126: the lock prevents duplicate requests.             *)
OneFaceRequest == dialog.kind = "face" => dialog.sent <= 1

(* mainwindow.cpp:444: "added <goods> x<quantity>": they are in the cart.   *)
AddedAsAnnounced == spoken

=============================================================================
