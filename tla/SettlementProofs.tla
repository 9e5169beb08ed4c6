--------------------------- MODULE SettlementProofs ---------------------------
(***************************************************************************)
(* Theorems about buying, for any members, goods, quantities and prices and *)
(* any number of queries, dialogs and additions, alone and beside the pages *)
(* for recharging and registering and the goods manager.                   *)
(***************************************************************************)
EXTENDS Widgets, SequenceTheorems, FiniteSetTheorems, TLAPS

(* A sequence, and what is left of it and added to it.                      *)
LEMMA SequenceLength ==
  ASSUME NEW s, IsSequence(s)
  PROVE  Len(s) \in Nat /\ DOMAIN s = 1 .. Len(s)
BY LenProperties DEF IsSequence

(* A sequence over any set is a sequence.                                   *)
LEMMA SequencesAre ==
  ASSUME NEW S, NEW s \in Seq(S)
  PROVE  IsSequence(s)
<1>1. Len(s) \in Nat /\ DOMAIN s = 1 .. Len(s)
  BY LenProperties
<1>2. s \in [1 .. Len(s) -> {s[i] : i \in DOMAIN s}]
  <2>1. s = [i \in 1 .. Len(s) |-> s[i]]
    BY LenProperties
  <2> QED BY <1>1, <2>1
<1> QED BY <1>1, <1>2, SeqDef DEF IsSequence

(* What Append does.                                                        *)
LEMMA OneMore ==
  ASSUME NEW s, IsSequence(s), NEW m
  PROVE  /\ IsSequence(Append(s, m)) /\ Len(Append(s, m)) = Len(s) + 1
         /\ \A i \in 1 .. Len(s) : Append(s, m)[i] = s[i]
         /\ Append(s, m)[Len(s) + 1] = m
<1>1. PICK S : S = {s[i] : i \in DOMAIN s} \cup {m}
  OBVIOUS
<1>2. s \in Seq(S) /\ m \in S
  <2>1. Len(s) \in Nat /\ DOMAIN s = 1 .. Len(s)
    BY SequenceLength
  <2>2. s \in [1 .. Len(s) -> S]
    <3>1. s \in [1 .. Len(s) -> {s[i] : i \in DOMAIN s}]
      BY <2>1, LenProperties DEF IsSequence
    <3> QED BY <1>1, <3>1
  <2> QED BY <1>1, <2>1, <2>2, SeqDef
<1>3. PICK t : t = Append(s, m)
  OBVIOUS
<1>4. /\ t \in Seq(S) /\ Len(t) = Len(s) + 1 /\ t[Len(s) + 1] = m
      /\ \A i \in 1 .. Len(s) : t[i] = s[i]
  BY <1>2, <1>3, AppendProperties
<1>5. IsSequence(t)
  BY <1>4, SequencesAre
<1> QED BY <1>3, <1>4, <1>5

(* What Head and Tail do.                                                   *)
LEMMA OneLess ==
  ASSUME NEW s, IsSequence(s), s # <<>>
  PROVE  /\ IsSequence(Tail(s)) /\ Len(Tail(s)) = Len(s) - 1
         /\ \A i \in 1 .. Len(Tail(s)) : Tail(s)[i] = s[i + 1]
         /\ Head(s) = s[1] /\ Len(s) >= 1
<1>1. PICK S : S = {s[i] : i \in DOMAIN s}
  OBVIOUS
<1>2. s \in Seq(S)
  BY <1>1 DEF IsSequence
<1>3. PICK t : t = Tail(s)
  OBVIOUS
<1>4. /\ t \in Seq(S) /\ Len(t) = Len(s) - 1
      /\ \A i \in 1 .. Len(t) : t[i] = s[i + 1]
  BY <1>2, <1>3, HeadTailProperties
<1>5. IsSequence(t)
  BY <1>4, SequencesAre
<1>6. Head(s) = s[1]
  BY <1>2, HeadTailProperties
<1>7. Len(s) >= 1
  BY <1>2, EmptySeq, LenProperties
<1> QED BY <1>3, <1>4, <1>5, <1>6, <1>7

(* The replies that confirm an order: a reply that comes in or goes out     *)
(* changes their number by what it is.                                      *)
Confirms(m) == m.cmd = "order_create" /\ m.ok

(* The confirmations under way can be counted.                              *)
LEMMA FiniteConfirmations ==
  ASSUME NEW s, IsSequence(s)
  PROVE  IsFiniteSet(Confirmations(s)) /\ Cardinality(Confirmations(s)) \in Nat
<1>1. Len(s) \in Nat /\ DOMAIN s = 1 .. Len(s)
  BY SequenceLength
<1>2. IsFiniteSet(1 .. Len(s)) /\ Confirmations(s) \in SUBSET (1 .. Len(s))
  BY <1>1, FS_Interval DEF Confirmations
<1> QED BY <1>2, FS_Subset, FS_CardinalityType

(* A reply sent is at most one confirmation more.                           *)
LEMMA ReplySent ==
  ASSUME NEW s, IsSequence(s), NEW m
  PROVE  Cardinality(Confirmations(Append(s, m)))
           <= Cardinality(Confirmations(s)) + (IF Confirms(m) THEN 1 ELSE 0)
<1>1. PICK t : t = Append(s, m)
  OBVIOUS
<1>2. /\ IsSequence(t) /\ Len(t) = Len(s) + 1 /\ t[Len(s) + 1] = m
      /\ \A i \in 1 .. Len(s) : t[i] = s[i]
  BY <1>1, OneMore
<1>3. /\ Len(s) \in Nat /\ DOMAIN s = 1 .. Len(s) /\ DOMAIN t = 1 .. Len(s) + 1
  BY <1>2, SequenceLength
<1>4. PICK Y, new : Y = Confirmations(s) /\ new = Len(s) + 1
  OBVIOUS
<1>5. IsFiniteSet(Y) /\ Cardinality(Y) \in Nat
  BY <1>4, FiniteConfirmations
<1>6. CASE Confirms(m)
  <2>1. PICK T : T = Y \cup {new}
    OBVIOUS
  <2>2. IsFiniteSet(T) /\ Cardinality(T) = IF new \in Y THEN Cardinality(Y) ELSE Cardinality(Y) + 1
    BY <1>5, <2>1, FS_AddElement, Zenon
  <2>3. Confirmations(t) \in SUBSET T
    BY <1>2, <1>3, <1>4, <2>1 DEF Confirmations
  <2>4. Cardinality(Confirmations(t)) <= Cardinality(T)
    BY <2>2, <2>3, FS_Subset
  <2>5. Cardinality(Confirmations(t)) \in Nat
    BY <1>2, FiniteConfirmations
  <2> QED BY <1>1, <1>4, <1>5, <1>6, <2>2, <2>4, <2>5
<1>7. CASE ~ Confirms(m)
  <2>1. Confirmations(t) \in SUBSET Y
    BY <1>2, <1>3, <1>4, <1>7 DEF Confirmations, Confirms
  <2>2. Cardinality(Confirmations(t)) <= Cardinality(Y)
    BY <1>5, <2>1, FS_Subset
  <2>3. Cardinality(Confirmations(t)) \in Nat
    BY <1>2, FiniteConfirmations
  <2> QED BY <1>1, <1>4, <1>5, <1>7, <2>2, <2>3
<1> QED BY <1>6, <1>7

(* A confirmation taken is one less.                                        *)
LEMMA ReplyTaken ==
  ASSUME NEW s, IsSequence(s), s # <<>>
  PROVE  Cardinality(Confirmations(Tail(s))) + (IF Confirms(Head(s)) THEN 1 ELSE 0)
           <= Cardinality(Confirmations(s))
<1>1. PICK t : t = Tail(s)
  OBVIOUS
<1>2. /\ IsSequence(t) /\ Len(t) = Len(s) - 1 /\ Head(s) = s[1]
      /\ \A i \in 1 .. Len(t) : t[i] = s[i + 1]
  BY <1>1, OneLess
<1>3. /\ Len(s) \in Nat /\ DOMAIN s = 1 .. Len(s) /\ Len(t) \in Nat /\ DOMAIN t = 1 .. Len(t)
  BY <1>2, SequenceLength
<1>4. PICK C, T : C = Confirmations(s) /\ T = Confirmations(t)
  OBVIOUS
<1>5. PICK R : R = C \ {1}
  OBVIOUS
<1>6. IsFiniteSet(C) /\ Cardinality(C) \in Nat /\ Cardinality(T) \in Nat
  BY <1>2, <1>4, FiniteConfirmations
<1>7. /\ IsFiniteSet(R)
      /\ Cardinality(R) = IF 1 \in C THEN Cardinality(C) - 1 ELSE Cardinality(C)
  BY <1>5, <1>6, FS_RemoveElement, Zenon
<1>8. Cardinality(T) <= Cardinality(R)
  <2> DEFINE f == [i \in T |-> i + 1]
  <2>1. T \in SUBSET (1 .. Len(t))
    BY <1>3, <1>4 DEF Confirmations
  <2>2. \A i \in T : i + 1 \in R
    <3> SUFFICES ASSUME NEW i \in T
                 PROVE  i + 1 \in R
      OBVIOUS
    <3>1. i \in 1 .. Len(t) /\ t[i].cmd = "order_create" /\ t[i].ok
      BY <1>3, <1>4 DEF Confirmations
    <3>2. i + 1 \in 1 .. Len(s) /\ i + 1 # 1 /\ t[i] = s[i + 1]
      BY <1>2, <1>3, <3>1
    <3> QED BY <1>3, <1>4, <1>5, <3>1, <3>2 DEF Confirmations
  <2>3. f \in [T -> R]
    BY <2>2
  <2>4. \A i \in T, j \in T : f[i] = f[j] => i = j
    BY <1>3, <2>1
  <2>5. f \in Injection(T, R)
    BY <2>3, <2>4 DEF Injection, IsInjective
  <2> HIDE DEF f
  <2> QED BY <1>7, <2>5, FS_Injection
<1>9. Confirms(Head(s)) => 1 \in C
  <2>1. 1 \in DOMAIN s
    BY <1>2, <1>3
  <2> QED BY <1>2, <1>4, <2>1 DEF Confirms, Confirmations
<1> QED BY <1>1, <1>4, <1>6, <1>7, <1>8, <1>9

(* A step that sends no confirmation, opens no success box and closes none. *)
LEMMA NoConfirmation ==
  ASSUME SaleInv, UNCHANGED <<sales, orders>>, box' = "success" => box = "success",
         IsSequence(replies'),
         Cardinality(Confirmations(replies')) <= Cardinality(Confirmations(replies))
  PROVE  SaleInv'
<1>1. /\ Cardinality(Confirmations(replies)) \in Nat /\ Cardinality(Confirmations(replies')) \in Nat
      /\ Len(orders) \in Nat
  BY FiniteConfirmations, SequenceLength DEF SaleInv
<1> QED BY <1>1 DEF SaleInv

(* What touches neither sales nor replies keeps the invariant.              *)
LEMMA NothingSent ==
  ASSUME SaleInv, UNCHANGED <<sales, orders, replies>>, box' = "success" => box = "success"
  PROVE  SaleInv'
<1>1. Cardinality(Confirmations(replies)) \in Nat
  BY FiniteConfirmations DEF SaleInv
<1> QED BY <1>1, NoConfirmation DEF SaleInv

(* What a handler leaves of the replies: those on their way, or those after  *)
(* the one it took.                                                         *)
IsRest(rest) == rest = replies \/ (replies # <<>> /\ rest = Tail(replies))

(* What is left of the replies holds no more confirmations.                 *)
LEMMA RestIsLess ==
  ASSUME SaleInv, NEW rest, IsRest(rest)
  PROVE  /\ IsSequence(rest)
         /\ Cardinality(Confirmations(rest)) <= Cardinality(Confirmations(replies))
         /\ Cardinality(Confirmations(rest)) \in Nat
         /\ Cardinality(Confirmations(replies)) \in Nat
<1>1. IsSequence(replies) /\ Cardinality(Confirmations(replies)) \in Nat
  BY FiniteConfirmations DEF SaleInv
<1>2. CASE rest = replies
  BY <1>1, <1>2
<1>3. CASE replies # <<>> /\ rest = Tail(replies)
  <2>1. IsSequence(rest)
    BY <1>1, <1>3, OneLess
  <2>2. Cardinality(Confirmations(rest)) \in Nat
    BY <2>1, FiniteConfirmations
  <2> QED BY <1>1, <1>3, <2>1, <2>2, ReplyTaken
<1> QED BY <1>2, <1>3 DEF IsRest

(* A request that is no order keeps the invariant, answered or not.         *)
LEMMA MessageSent ==
  ASSUME SaleInv, NEW rest, IsRest(rest),
         NEW m, ~ Confirms(m), replies' \in {rest, Append(rest, m)},
         UNCHANGED <<sales, orders>>, box' = "success" => box = "success"
  PROVE  SaleInv'
<1>1. /\ IsSequence(rest) /\ Cardinality(Confirmations(rest)) \in Nat
      /\ Cardinality(Confirmations(rest)) <= Cardinality(Confirmations(replies))
      /\ Cardinality(Confirmations(replies)) \in Nat
  BY RestIsLess
<1>2. CASE replies' = rest
  BY <1>1, <1>2, NoConfirmation
<1>3. CASE replies' = Append(rest, m)
  <2>1. IsSequence(replies')
    BY <1>1, <1>3, OneMore
  <2>2. Cardinality(Confirmations(replies')) <= Cardinality(Confirmations(rest)) + 0
    BY <1>1, <1>3, ReplySent
  <2>3. Cardinality(Confirmations(replies')) \in Nat
    BY <2>1, FiniteConfirmations
  <2> QED BY <1>1, <2>1, <2>2, <2>3, NoConfirmation
<1> QED BY <1>2, <1>3

(* An order adds the confirmation of its own at most.                       *)
LEMMA PaymentKeeps ==
  ASSUME SaleInv, NEW shown, NEW rest, IsRest(rest),
         processPayment(shown, rest), UNCHANGED <<sales, box>>
  PROVE  SaleInv'
<1>1. /\ IsSequence(rest) /\ Cardinality(Confirmations(rest)) \in Nat
      /\ Cardinality(Confirmations(rest)) <= Cardinality(Confirmations(replies))
      /\ Cardinality(Confirmations(replies)) \in Nat /\ Len(orders) \in Nat
  BY RestIsLess, SequenceLength DEF SaleInv
<1>2. CASE ~ Payable
  <2>1. replies' = rest /\ UNCHANGED orders
    BY <1>2 DEF processPayment
  <2> QED BY <1>1, <2>1, NoConfirmation
<1>3. CASE Payable
  <2>1. CASE \E order : orders' = Append(orders, order)
    <3>1. PICK order : orders' = Append(orders, order)
      BY <2>1
    <3>2. IsSequence(orders') /\ Len(orders') = Len(orders) + 1
      BY <3>1, OneMore DEF SaleInv
    <3>3. PICK m : replies' \in {rest, Append(rest, m)}
      BY <1>3 DEF processPayment
    <3>4. IsSequence(replies')
      BY <1>1, <3>3, OneMore, Zenon
    <3>5. Cardinality(Confirmations(replies')) \in Nat
      BY <3>4, FiniteConfirmations
    <3>6. Cardinality(Confirmations(replies')) <= Cardinality(Confirmations(rest)) + 1
      <4>1. CASE replies' = rest
        BY <1>1, <4>1
      <4>2. CASE replies' = Append(rest, m)
        BY <1>1, <3>5, <4>2, ReplySent
      <4> QED BY <3>3, <4>1, <4>2
    <3> QED BY <1>1, <3>2, <3>4, <3>5, <3>6 DEF SaleInv
  <2>2. CASE /\ replies' \in {rest, Append(rest, [cmd |-> "order_create", ok |-> FALSE])}
             /\ UNCHANGED orders
    <3>1. PICK m : m = [cmd |-> "order_create", ok |-> FALSE]
      OBVIOUS
    <3>2. ~ Confirms(m)
      BY <3>1 DEF Confirms
    <3> QED BY <2>2, <3>1, <3>2, MessageSent
  <2> QED BY <1>3, <2>1, <2>2 DEF processPayment
<1> QED BY <1>2, <1>3

(* A confirmation becomes the success box ...                               *)
LEMMA OrderReplyKeeps ==
  ASSUME SaleInv, onOrderCreateResult
  PROVE  SaleInv'
<1>1. /\ replies # <<>> /\ Head(replies).cmd = "order_create" /\ replies' = Tail(replies)
      /\ UNCHANGED <<orders, sales>> /\ box = "none"
      /\ box' = "none" \/ (box' = "success" /\ Head(replies).ok)
  BY DEF onOrderCreateResult, OrderDeducted, Delivered, Arrives
<1>2. /\ IsSequence(replies') /\ Cardinality(Confirmations(replies')) \in Nat
      /\ Cardinality(Confirmations(replies)) \in Nat /\ Len(orders) \in Nat
  BY <1>1, OneLess, FiniteConfirmations, SequenceLength DEF SaleInv
<1>3. Cardinality(Confirmations(replies')) + (IF Confirms(Head(replies)) THEN 1 ELSE 0)
        <= Cardinality(Confirmations(replies))
  BY <1>1, ReplyTaken DEF SaleInv
<1> QED BY <1>1, <1>2, <1>3 DEF SaleInv, Confirms

(* ... and the box at most one sale.                                        *)
LEMMA BoxKeeps ==
  ASSUME SaleInv, SuccessBoxClosed
  PROVE  SaleInv'
<1>1. Cardinality(Confirmations(replies)) \in Nat /\ Len(orders) \in Nat
  BY FiniteConfirmations, SequenceLength DEF SaleInv
<1> QED BY <1>1 DEF SaleInv, SuccessBoxClosed

(* So does the answer to it.                                                *)
LEMMA AnswerKeeps ==
  ASSUME SaleInv, NEW m, ~ Confirms(m), Answer(m), UNCHANGED <<sales, orders, box>>
  PROVE  SaleInv'
<1>1. replies' \in {replies, Append(replies, m)}
  BY DEF Answer
<1>2. IsRest(replies)
  BY DEF IsRest
<1> QED BY <1>1, <1>2, MessageSent

(* Every other step says nothing of an order.                               *)
LEMMA SettlementKeeps ==
  ASSUME SaleInv, SettlementStep
  PROVE  SaleInv'
<1>1. ASSUME NEW g \in Goods, NEW n \in Quantities, AddToCart(g, n) \/ voiceAddToCart(g, n)
      PROVE  SaleInv'
  <2>1. UNCHANGED <<sales, orders, replies, box>>
    BY <1>1 DEF AddToCart, voiceAddToCart, history
  <2> QED BY <2>1, NothingSent
<1>2. ASSUME NEW uid \in Members, on_btn_query_member_clicked(uid)
      PROVE  SaleInv'
  <2>1. PICK m : Answer(m) /\ m.cmd = "member_query"
    BY <1>2 DEF on_btn_query_member_clicked, QueryMember
  <2> QED
    BY <1>2, <2>1, AnswerKeeps DEF on_btn_query_member_clicked, QueryMember, Confirms, history
<1>3. CASE PasswordDialogOpens \/ DialogCancelled \/ WrongPasswordBoxClosed \/ FaceDialogOpens
  BY <1>3, NothingSent
     DEF PasswordDialogOpens, DialogCancelled, WrongPasswordBoxClosed, FaceDialogOpens, history
<1>4. CASE PasswordEntered
  <2>1. PICK m : Answer(m) /\ m.cmd = "member_verify_password"
    BY <1>4 DEF PasswordEntered
  <2> QED BY <1>4, <2>1, AnswerKeeps DEF PasswordEntered, Confirms, history
<1>5. CASE onPasswordVerifyResult
  <2>1. IsRest(Tail(replies))
    BY <1>5 DEF onPasswordVerifyResult, Arrives, IsRest
  <2>2. UNCHANGED sales
    BY <1>5 DEF onPasswordVerifyResult, history
  <2>3. CASE processPayment(Head(replies).shown, Tail(replies)) /\ UNCHANGED box
    BY <2>1, <2>2, <2>3, PaymentKeeps
  <2>4. CASE replies' = Tail(replies) /\ UNCHANGED orders /\ (box' = "success" => box = "success")
    BY <2>1, <2>2, <2>4, RestIsLess, NoConfirmation
  <2> QED BY <1>5, <2>3, <2>4 DEF onPasswordVerifyResult
<1>6. CASE processFaceVerification
  <2>1. PICK m : Answer(m) /\ m.cmd = "face_verify"
    BY <1>6 DEF processFaceVerification
  <2> QED BY <1>6, <2>1, AnswerKeeps DEF processFaceVerification, Confirms, history
<1>7. CASE slotFaceVerifyResult
  <2>1. IsRest(Tail(replies)) /\ replies' = Tail(replies)
    BY <1>7 DEF slotFaceVerifyResult, Delivered, Arrives, IsRest
  <2>2. UNCHANGED <<sales, orders, box>>
    BY <1>7 DEF slotFaceVerifyResult, history
  <2> QED BY <2>1, <2>2, RestIsLess, NoConfirmation
<1>8. CASE FaceConfirmed
  <2>1. UNCHANGED <<sales, box>> /\ IsRest(replies)
    BY <1>8 DEF FaceConfirmed, history, IsRest
  <2>2. CASE FaceConfirmAccepts
    BY <1>8, <2>1, <2>2, PaymentKeeps DEF FaceConfirmed
  <2>3. CASE ~ FaceConfirmAccepts
    BY <1>8, <2>1, <2>3, NothingSent DEF FaceConfirmed
  <2> QED BY <2>2, <2>3
<1> QED
  BY <1>1, <1>2, <1>3, <1>4, <1>5, <1>6, <1>7, <1>8, OrderReplyKeeps, BoxKeeps DEF SettlementStep

(* What widgets have a part in, up to what the others do with the reply.    *)
LEMMA CardKeeps ==
  ASSUME SaleInv, NEW uid, slotGetCardUID(uid)
  PROVE  SaleInv'
<1>1. PICK m : Answer(m) /\ m.cmd = "member_query"
  BY DEF slotGetCardUID, QueryMember
<1> QED BY <1>1, AnswerKeeps DEF slotGetCardUID, QueryMember, Confirms, history

(* So does clearing the cart.                                               *)
LEMMA ClearKeeps ==
  ASSUME SaleInv, ClearCart
  PROVE  SaleInv'
BY NothingSent DEF ClearCart, EmptyCart

(* So does the reply to a member query and what is asked next.              *)
LEMMA MemberReplyKeeps ==
  ASSUME SaleInv, Arrives("member_query"), NEW msg, MemberShown(msg), NEW m, ~ Confirms(m),
         replies' \in {Tail(replies), Append(Tail(replies), m)}
  PROVE  SaleInv'
<1>1. IsRest(Tail(replies))
  BY DEF Arrives, IsRest
<1>2. UNCHANGED <<sales, orders>> /\ (box' = "success" => box = "success")
  BY DEF MemberShown, history
<1> QED BY <1>1, <1>2, MessageSent

(* Nothing has been sold at the start.                                      *)
LEMMA InitialSales == Init => SaleInv
<1> SUFFICES ASSUME Init
             PROVE  SaleInv
  OBVIOUS
<1>1. /\ replies = <<>> /\ orders = <<>> /\ sales = 0 /\ box = "none"
  BY DEF Init
<1>2. IsSequence(replies) /\ IsSequence(orders) /\ Len(orders) = 0
  BY <1>1, EmptySeq, SequencesAre
<1>3. Confirmations(replies) = {}
  BY <1>1 DEF Confirmations
<1> QED BY <1>1, <1>2, <1>3, FS_EmptySet DEF SaleInv

(* No sale without its order, from the counts.                              *)
LEMMA SalesFollow == SaleInv => SalesWereOrdered
<1> SUFFICES ASSUME SaleInv
             PROVE  SalesWereOrdered
  OBVIOUS
<1>1. Cardinality(Confirmations(replies)) \in Nat /\ Len(orders) \in Nat
  BY FiniteConfirmations, SequenceLength DEF SaleInv
<1> QED BY <1>1 DEF SaleInv, SalesWereOrdered

(* A cart is dispensed only for an order the server has accepted, one cart    *)
(* for each, however replies are lost or delayed and whatever is clicked,    *)
(* said or shown to the card reader meanwhile (settlementwidget.cpp:140-172).*)
THEOREM SalesOrdered == Spec => []SalesWereOrdered
<1>1. SaleInv /\ [Next]_vars => SaleInv'
  <2> SUFFICES ASSUME SaleInv, [Next]_vars
               PROVE  SaleInv'
    OBVIOUS
  <2>1. CASE onMemberQueryResult
    <3>1. PICK m : m = [cmd |-> "none", ok |-> FALSE]
      OBVIOUS
    <3>2. ~ Confirms(m)
      BY <3>1 DEF Confirms
    <3>3. Arrives("member_query") /\ replies' = Tail(replies) /\ MemberShown(Head(replies))
      BY <2>1 DEF onMemberQueryResult, Delivered
    <3> QED BY <3>2, <3>3, MemberReplyKeeps
  <2>2. CASE QueryFailedBoxClosed
    BY <2>2, NothingSent DEF QueryFailedBoxClosed, clearMemberInfo, history
  <2>3. CASE UNCHANGED vars
    BY <2>3, NothingSent DEF vars, history
  <2> QED BY <2>1, <2>2, <2>3, SettlementKeeps, ClearKeeps, CardKeeps DEF Next
<1> QED BY <1>1, InitialSales, SalesFollow, PTL DEF Spec

(* The pages beside it leave orders and sales alone and send replies to other *)
(* commands than an order's.                                                *)
LEMMA PageKeeps ==
  ASSUME SaleInv, UNCHANGED sales_, NEW rest, IsRest(rest), NEW m, ~ Confirms(m),
         replies' \in {rest, Append(rest, m)}
  PROVE  SaleInv'
BY MessageSent DEF sales_, history

(* A step of another page keeps the invariant.                              *)
LEMMA PageStill ==
  ASSUME SaleInv, UNCHANGED sales_, UNCHANGED replies
  PROVE  SaleInv'
BY NothingSent DEF sales_, history

(* Every step of the pages together keeps it.                               *)
LEMMA WidgetsKeep ==
  ASSUME SaleInv, [WidgetsNext]_<<vars, widgetVars>>
  PROVE  SaleInv'
<1>1. PICK none : none = [cmd |-> "none", ok |-> FALSE]
  OBVIOUS
<1>2. ~ Confirms(none) /\ IsRest(replies)
  BY <1>1 DEF Confirms, IsRest
<1>3. CASE CartCleared
  BY <1>3, ClearKeeps DEF CartCleared
<1>4. ASSUME NEW uid \in Members, CardDetected(uid)
      PROVE  SaleInv'
  BY <1>4, CardKeeps DEF CardDetected
<1>5. CASE MemberQueryAnswered
  <2>1. Arrives("member_query") /\ MemberShown(Head(replies))
    BY <1>5 DEF MemberQueryAnswered
  <2>2. PICK m : ~ Confirms(m) /\ replies' \in {Tail(replies), Append(Tail(replies), m)}
    <3>1. CASE replies' = Tail(replies)
      BY <1>2, <3>1
    <3>2. CASE RechargeFound(Head(replies), Tail(replies))
      BY <1>2, <3>2 DEF RechargeFound, Reply, Confirms
    <3> QED BY <1>5, <3>1, <3>2 DEF MemberQueryAnswered
  <2> QED BY <2>1, <2>2, MemberReplyKeeps
<1>6. CASE FailureBoxClosed
  <2>1. UNCHANGED <<sales, orders>> /\ box' # "success"
    BY <1>6 DEF FailureBoxClosed, clearMemberInfo, history
  <2>2. PICK m : ~ Confirms(m) /\ replies' \in {replies, Append(replies, m)}
    BY <1>2, <1>6 DEF FailureBoxClosed, processRegisterRequest, Reply, Confirms
  <2> QED BY <1>2, <2>1, <2>2, MessageSent
<1>7. ASSUME NEW uid \in Uids, RechargeQuery(uid) \/ on_btn_register_clicked(uid)
      PROVE  SaleInv'
  <2>1. UNCHANGED sales_ /\ QueryReply(uid)
    BY <1>7 DEF RechargeQuery, on_btn_register_clicked
  <2>2. PICK m : ~ Confirms(m) /\ replies' \in {replies, Append(replies, m)}
    BY <2>1 DEF QueryReply, Reply, Confirms
  <2> QED BY <1>2, <2>1, <2>2, PageKeeps
<1>8. ASSUME NEW amount \in Amounts, on_btn_recharge_clicked(amount)
      PROVE  SaleInv'
  <2>1. UNCHANGED sales_
    BY <1>8 DEF on_btn_recharge_clicked
  <2>2. PICK m : ~ Confirms(m) /\ replies' \in {replies, Append(replies, m)}
    BY <1>8 DEF on_btn_recharge_clicked, Reply, Confirms
  <2> QED BY <1>2, <2>1, <2>2, PageKeeps
<1>9. CASE onMemberRechargeResult \/ onMemberRegisterResult \/ GoodsManagementAuthResult
  <2>1. UNCHANGED sales_ /\ replies' = Tail(replies) /\ IsRest(Tail(replies))
    BY <1>9 DEF onMemberRechargeResult, onMemberRegisterResult, GoodsManagementAuthResult,
                Delivered, Arrives, IsRest
  <2> QED BY <1>2, <2>1, PageKeeps
<1>10. CASE openGoodsManagerWithAuth
  <2>1. UNCHANGED sales_
    BY <1>10 DEF openGoodsManagerWithAuth
  <2>2. PICK m : ~ Confirms(m) /\ replies' \in {replies, Append(replies, m)}
    BY <1>10 DEF openGoodsManagerWithAuth, Reply, Confirms
  <2> QED BY <1>2, <2>1, <2>2, PageKeeps
<1>11. CASE \/ RechargeResets
            \/ \E g \in Goods : slotTableItemClicked(g)
            \/ \E added \in {0, 1} : on_btn_update_clicked(added)
  <2>1. UNCHANGED sales_ /\ UNCHANGED replies
    BY <1>11 DEF RechargeResets, slotTableItemClicked, on_btn_update_clicked
  <2> QED BY <2>1, PageStill
<1>12. CASE UNCHANGED <<vars, widgetVars>>
  BY <1>12, NothingSent DEF vars, history
<1> QED
  BY <1>3, <1>4, <1>5, <1>6, <1>7, <1>8, <1>9, <1>10, <1>11, <1>12, SettlementKeeps
     DEF WidgetsNext

(* ... also beside the recharge, registration and goods manager pages, whose  *)
(* replies the same connection carries (clientservice.cpp).                 *)
THEOREM WidgetsSalesOrdered == WidgetsSpec => []SalesWereOrdered
<1>1. WidgetsInit => SaleInv
  BY InitialSales DEF WidgetsInit
<1>2. SaleInv /\ [WidgetsNext]_<<vars, widgetVars>> => SaleInv'
  BY WidgetsKeep
<1> QED BY <1>1, <1>2, SalesFollow, PTL DEF WidgetsSpec

-----------------------------------------------------------------------------

(* The units of goods in a cart: there are finitely many, none in an empty   *)
(* cart, and a voice command adds no more than it says.                      *)
Cart == Seq([id : Goods, num : Nat])

(* A cart holds finitely many units.                                        *)
LEMMA FiniteUnits ==
  ASSUME NEW cart \in Cart
  PROVE  IsFiniteSet(UnitsIn(cart))
<1> DEFINE unitsOf(i) == {i} \X (1 .. cart[i].num)
           lines == {unitsOf(i) : i \in DOMAIN cart}
           f == [i \in DOMAIN cart |-> unitsOf(i)]
<1>1. Len(cart) \in Nat /\ DOMAIN cart = 1 .. Len(cart)
  BY LenProperties DEF Cart
<1>2. IsFiniteSet(DOMAIN cart)
  BY <1>1, FS_Interval
<1>3. ASSUME NEW i \in DOMAIN cart
      PROVE  IsFiniteSet(unitsOf(i))
  <2>1. cart[i] \in [id : Goods, num : Nat]
    BY <1>1, ElementOfSeq DEF Cart
  <2>2. cart[i].num \in Int
    BY <2>1
  <2>3. IsFiniteSet(1 .. cart[i].num)
    <3>1. PICK a \in Int, b \in Int : a = 1 /\ b = cart[i].num
      BY <2>2
    <3> QED BY <3>1, FS_Interval
  <2>4. IsFiniteSet({i})
    BY FS_Singleton
  <2> QED BY <2>3, <2>4, FS_Product
<1>4. f \in Surjection(DOMAIN cart, lines)
  BY DEF Surjection
<1>5. IsFiniteSet(lines)
  BY <1>2, <1>4, FS_Surjection
<1>6. \A T \in lines : IsFiniteSet(T)
  BY <1>3
<1> QED BY <1>5, <1>6, FS_UNION DEF UnitsIn

(* So the units of one of its goods can be counted.                         *)
LEMMA UnitsCounted ==
  ASSUME NEW cart \in Cart, NEW g
  PROVE  /\ IsFiniteSet({u \in UnitsIn(cart) : cart[u[1]].id = g})
         /\ UnitsOf(g, cart) \in Nat
<1>1. IsFiniteSet({u \in UnitsIn(cart) : cart[u[1]].id = g})
  BY FiniteUnits, FS_Subset
<1> QED BY <1>1, FS_CardinalityType DEF UnitsOf

(* An empty cart holds none.                                                *)
LEMMA EmptyCartHasNone ==
  ASSUME NEW g
  PROVE  UnitsOf(g, <<>>) = 0
<1>1. UnitsIn(<<>>) = {}
  BY DEF UnitsIn
<1> QED BY <1>1, FS_EmptySet DEF UnitsOf

(* Lines added by voice add that many units of those goods.                 *)
LEMMA VoiceAddsUnits ==
  ASSUME NEW cart \in Cart, NEW g \in Goods, NEW n \in Nat, NEW other \in Goods
  PROVE  LET more == cart \o [i \in 1 .. n |-> [id |-> g, num |-> 1]] IN
         /\ more \in Cart
         /\ UnitsOf(other, more) <= UnitsOf(other, cart) + IF other = g THEN n ELSE 0
<1>1. PICK added : added = [i \in 1 .. n |-> [id |-> g, num |-> 1]]
  OBVIOUS
<1>2. added \in Cart /\ Len(added) = n
  <2>1. added \in [1 .. n -> [id : Goods, num : Nat]]
    BY <1>1
  <2>2. added \in Cart
    BY <2>1, SeqDef DEF Cart
  <2> QED BY <1>1, <2>2, LenProperties DEF Cart
<1>3. PICK more : more = cart \o added
  OBVIOUS
<1>4. Len(cart) \in Nat /\ DOMAIN cart = 1 .. Len(cart)
  BY LenProperties DEF Cart
<1>5. /\ more \in Cart /\ Len(more) = Len(cart) + n
      /\ \A i \in 1 .. Len(more) :
           more[i] = IF i <= Len(cart) THEN cart[i] ELSE added[i - Len(cart)]
  <2>1. PICK S : S = [id : Goods, num : Nat]
    OBVIOUS
  <2>2. cart \in Seq(S) /\ added \in Seq(S)
    BY <1>2, <2>1 DEF Cart
  <2>3. /\ cart \o added \in Seq(S) /\ Len(cart \o added) = Len(cart) + Len(added)
        /\ \A i \in 1 .. Len(cart) + Len(added) : (cart \o added)[i] =
             IF i <= Len(cart) THEN cart[i] ELSE added[i - Len(cart)]
    BY <2>2, ConcatProperties
  <2> QED BY <1>2, <1>3, <2>1, <2>3 DEF Cart
<1>6. DOMAIN more = 1 .. (Len(cart) + n)
  BY <1>5, LenProperties DEF Cart
<1>7. /\ \A i \in 1 .. Len(cart) : more[i] = cart[i]
      /\ \A i \in (Len(cart) + 1) .. (Len(cart) + n) : more[i] = [id |-> g, num |-> 1]
  <2>1. ASSUME NEW i \in (Len(cart) + 1) .. (Len(cart) + n)
        PROVE  more[i] = [id |-> g, num |-> 1]
    <3>1. i - Len(cart) \in 1 .. n /\ ~ (i <= Len(cart)) /\ i \in 1 .. Len(more)
      BY <1>4, <1>5
    <3> QED BY <1>1, <1>5, <3>1
  <2>2. ASSUME NEW i \in 1 .. Len(cart)
        PROVE  more[i] = cart[i]
    BY <1>4, <1>5
  <2> QED BY <2>1, <2>2
<1> DEFINE old == {u \in UnitsIn(cart) : cart[u[1]].id = other}
           all == {u \in UnitsIn(more) : more[u[1]].id = other}
           new == ((Len(cart) + 1) .. (Len(cart) + n)) \X {1}
<1>8. ASSUME NEW u \in all
      PROVE  u \in old \/ (other = g /\ u \in new)
  <2>1. PICK i \in DOMAIN more : u \in {i} \X (1 .. more[i].num)
    BY DEF UnitsIn
  <2>2. u[1] = i /\ u[2] \in 1 .. more[i].num /\ u = <<i, u[2]>>
    BY <2>1
  <2>3. CASE i \in 1 .. Len(cart)
    <3>1. more[i] = cart[i] /\ i \in DOMAIN cart
      BY <1>4, <1>7, <2>3
    <3>2. u \in UnitsIn(cart)
      BY <2>1, <3>1 DEF UnitsIn
    <3> QED BY <2>2, <3>1, <3>2
  <2>4. CASE i \in (Len(cart) + 1) .. (Len(cart) + n)
    <3>1. more[i] = [id |-> g, num |-> 1]
      BY <1>7, <2>4
    <3>2. u[2] = 1 /\ other = g
      BY <2>2, <3>1
    <3>3. u[2] \in {1}
      BY <3>2
    <3> QED BY <2>2, <2>4, <3>2, <3>3
  <2> QED BY <1>4, <1>6, <2>1, <2>3, <2>4
<1>9. IsFiniteSet(old) /\ Cardinality(old) \in Nat
  BY UnitsCounted, FS_CardinalityType
<1>10. IsFiniteSet(new) /\ Cardinality(new) = n
  <2>1. /\ IsFiniteSet((Len(cart) + 1) .. (Len(cart) + n))
        /\ Cardinality((Len(cart) + 1) .. (Len(cart) + n)) = n
    <3>1. PICK a \in Int, b \in Int : a = Len(cart) + 1 /\ b = Len(cart) + n
      BY <1>4
    <3>2. IsFiniteSet(a .. b) /\ Cardinality(a .. b) = IF a > b THEN 0 ELSE b - a + 1
      BY FS_Interval
    <3>3. (IF a > b THEN 0 ELSE b - a + 1) = n
      BY <1>4, <3>1
    <3> QED BY <3>1, <3>2, <3>3
  <2>2. IsFiniteSet({1}) /\ Cardinality({1}) = 1
    BY FS_Singleton
  <2>3. IsFiniteSet(new) /\ Cardinality(new) = n * 1
    BY <2>1, <2>2, FS_Product
  <2> QED BY <2>3
<1>11. CASE other = g
  <2>1. all \subseteq old \cup new
    BY <1>8
  <2>2. IsFiniteSet(old \cup new) /\ Cardinality(old \cup new) <= Cardinality(old) + n
    <3>1. Cardinality(old \cap new) \in Nat
      BY <1>9, FS_Intersection, FS_CardinalityType
    <3>2. /\ IsFiniteSet(old \cup new)
          /\ Cardinality(old \cup new)
               = Cardinality(old) + Cardinality(new) - Cardinality(old \cap new)
      BY <1>9, <1>10, FS_Union
    <3> HIDE DEF old, new
    <3> QED BY <1>9, <1>10, <3>1, <3>2
  <2>3. Cardinality(all) <= Cardinality(old \cup new) /\ Cardinality(all) \in Nat
    BY <2>1, <2>2, FS_Subset, FS_CardinalityType
  <2>4. Cardinality(old \cup new) \in Nat
    BY <2>2, FS_CardinalityType
  <2>5. Cardinality(all) <= Cardinality(old) + n
    BY <1>9, <2>2, <2>3, <2>4
  <2> QED BY <1>1, <1>3, <1>5, <1>11, <2>5 DEF UnitsOf
<1>12. CASE other # g
  <2>1. all \subseteq old
    BY <1>8, <1>12
  <2>2. Cardinality(all) <= Cardinality(old)
    BY <1>9, <2>1, FS_Subset
  <2>3. UnitsOf(other, more) <= UnitsOf(other, cart) /\ UnitsOf(other, cart) \in Nat
    BY <2>2, UnitsCounted DEF UnitsOf
  <2>4. UnitsOf(other, cart) + (IF other = g THEN n ELSE 0) = UnitsOf(other, cart)
    BY <1>12, <2>3
  <2> QED BY <1>1, <1>3, <1>5, <2>3, <2>4
<1> QED BY <1>11, <1>12

(* The steps that deduct, add, clear and dispense.                          *)
Quiet == UNCHANGED <<stock, deducted, dispensed, late, unpaid, m_cartList>>

(* What changes neither cart nor counts keeps the invariant.                *)
LEMMA CartLeftAlone ==
  ASSUME CartDeducted, Quiet, box' = "success" => box = "success"
  PROVE  CartDeducted'
<1>1. \A g \in Goods : UnitsOf(g, m_cartList)' = UnitsOf(g, m_cartList)
  BY DEF UnitsOf, UnitsIn, Quiet
<1> QED BY <1>1 DEF CartDeducted, Quiet

(* Closing the success box dispenses what was deducted or added by voice.   *)
LEMMA CartDispensed ==
  ASSUME CartDeducted, SuccessBoxClosed
  PROVE  CartDeducted'
<1>1. /\ box = "success" /\ box' = "none" /\ m_cartList' = <<>>
      /\ UNCHANGED <<stock, deducted>>
      /\ dispensed' = [g \in Goods |-> dispensed[g] + UnitsOf(g, m_cartList)]
      /\ unpaid' = [g \in Goods |-> unpaid[g] + late[g]]
      /\ late' = [g \in Goods |-> 0]
  BY DEF SuccessBoxClosed, EmptyCart
<1>2. m_cartList \in Cart
  BY DEF CartDeducted, Cart
<1>3. \A g \in Goods : UnitsOf(g, m_cartList) \in Nat
  BY <1>2, UnitsCounted
<1>4. m_cartList' \in Seq([id : Goods, num : Nat])
  BY <1>1
<1>5. {stock', deducted', dispensed', late', unpaid'} \subseteq [Goods -> Int]
  BY <1>1, <1>3 DEF CartDeducted
<1>6. ASSUME NEW g \in Goods
      PROVE  /\ stock'[g] >= 0 /\ late'[g] >= 0
             /\ dispensed'[g] - unpaid'[g] <= deducted'[g]
  <2>1. /\ {stock[g], deducted[g], dispensed[g], late[g], unpaid[g]} \subseteq Int
        /\ dispensed'[g] = dispensed[g] + UnitsOf(g, m_cartList)
        /\ unpaid'[g] = unpaid[g] + late[g] /\ late'[g] = 0
    BY <1>1 DEF CartDeducted
  <2>2. /\ stock[g] >= 0
        /\ dispensed[g] - unpaid[g] + UnitsOf(g, m_cartList) - late[g] <= deducted[g]
    BY <1>1 DEF CartDeducted
  <2> QED BY <1>1, <1>3, <2>1, <2>2
<1> QED BY <1>1, <1>4, <1>5, <1>6 DEF CartDeducted

(* Clearing the cart keeps it.                                              *)
LEMMA CartEmptied ==
  ASSUME CartDeducted, ClearCart
  PROVE  CartDeducted'
<1>1. /\ m_cartList' = <<>> /\ UNCHANGED <<stock, deducted, dispensed, unpaid, box>>
      /\ late' = [g \in Goods |-> 0]
  BY DEF ClearCart, EmptyCart
<1>2. \A g \in Goods : UnitsOf(g, m_cartList)' = 0
  <2>1. \A g \in Goods : UnitsOf(g, <<>>) = 0
    BY EmptyCartHasNone
  <2> QED BY <1>1, <2>1 DEF UnitsOf, UnitsIn
<1>3. m_cartList' \in Seq([id : Goods, num : Nat])
  BY <1>1
<1>4. {stock', deducted', dispensed', late', unpaid'} \subseteq [Goods -> Int]
  BY <1>1 DEF CartDeducted
<1>5. ASSUME NEW g \in Goods
      PROVE  /\ stock'[g] >= 0 /\ late'[g] >= 0
             /\ dispensed'[g] - unpaid'[g] <= deducted'[g]
             /\ dispensed'[g] - unpaid'[g] + 0 - late'[g] <= deducted'[g]
  <2>1. /\ {dispensed[g], deducted[g], unpaid[g]} \subseteq Int /\ late'[g] = 0
        /\ stock[g] >= 0 /\ dispensed[g] - unpaid[g] <= deducted[g]
    BY <1>1 DEF CartDeducted
  <2> QED BY <1>1, <2>1
<1> QED BY <1>2, <1>3, <1>4, <1>5 DEF CartDeducted

(* Adding goods by hand keeps it.                                           *)
LEMMA CartGrows ==
  ASSUME CartDeducted, NEW g \in Goods, NEW n \in Quantities, AddToCart(g, n)
  PROVE  CartDeducted'
<1>1. /\ box = "none" /\ UNCHANGED <<box, stock, deducted, dispensed, late, unpaid>>
      /\ m_cartList' = Append(m_cartList, [id |-> g, num |-> n])
  BY DEF AddToCart, Clickable, history
<1>2. [id |-> g, num |-> n] \in [id : Goods, num : Nat]
  BY SettlementAssumption DEF SettlementAssumption
<1>3. m_cartList' \in Seq([id : Goods, num : Nat])
  BY <1>1, <1>2, AppendProperties DEF CartDeducted
<1> QED BY <1>1, <1>3 DEF CartDeducted

(* Adding goods by voice keeps it, with the success box open too.           *)
LEMMA VoiceCartGrows ==
  ASSUME CartDeducted, NEW g \in Goods, NEW qty \in Quantities, voiceAddToCart(g, qty)
  PROVE  CartDeducted'
<1>1. PICK n \in Nat :
        /\ m_cartList' = m_cartList \o [i \in 1 .. n |-> [id |-> g, num |-> 1]]
        /\ late' = IF box = "success" THEN [late EXCEPT ![g] = @ + n] ELSE late
        /\ UNCHANGED <<box, stock, deducted, dispensed, unpaid>>
  BY SettlementAssumption DEF voiceAddToCart, SettlementAssumption
<1>2. m_cartList \in Cart
  BY DEF CartDeducted, Cart
<1>3. m_cartList' \in Seq([id : Goods, num : Nat])
  BY <1>1, <1>2, VoiceAddsUnits DEF Cart
<1>4. late' \in [Goods -> Int]
  <2>1. CASE box = "success"
    BY <1>1, <2>1 DEF CartDeducted
  <2>2. CASE box # "success"
    BY <1>1, <2>2 DEF CartDeducted
  <2> QED BY <2>1, <2>2
<1>5. {stock', deducted', dispensed', late', unpaid'} \subseteq [Goods -> Int]
  BY <1>1, <1>4 DEF CartDeducted
<1>6. ASSUME NEW other \in Goods
      PROVE  /\ stock'[other] >= 0 /\ late'[other] >= 0
             /\ dispensed'[other] - unpaid'[other] <= deducted'[other]
             /\ box' = "success" =>
                  dispensed'[other] - unpaid'[other] + UnitsOf(other, m_cartList)' - late'[other]
                    <= deducted'[other]
  <2>1. PICK more \in Nat : more = IF other = g THEN n ELSE 0
    OBVIOUS
  <2>2. UnitsOf(other, m_cartList)' <= UnitsOf(other, m_cartList) + more
    <3>1. PICK cart : cart = m_cartList'
      OBVIOUS
    <3>2. UnitsOf(other, cart) <= UnitsOf(other, m_cartList) + more
      BY <1>1, <1>2, <2>1, <3>1, VoiceAddsUnits
    <3> QED BY <3>1, <3>2 DEF UnitsOf, UnitsIn
  <2>3. UnitsOf(other, m_cartList) \in Nat /\ UnitsOf(other, m_cartList)' \in Nat
    <3>1. UnitsOf(other, m_cartList) \in Nat
      BY <1>2, UnitsCounted
    <3>2. PICK cart \in Cart : cart = m_cartList'
      BY <1>3 DEF Cart
    <3>3. UnitsOf(other, cart) \in Nat
      BY UnitsCounted
    <3> QED BY <3>1, <3>2, <3>3 DEF UnitsOf, UnitsIn
  <2>4. /\ {stock[other], deducted[other], dispensed[other], late[other], unpaid[other]} \subseteq Int
        /\ stock[other] >= 0 /\ late[other] >= 0
        /\ dispensed[other] - unpaid[other] <= deducted[other]
        /\ box = "success" =>
             dispensed[other] - unpaid[other] + UnitsOf(other, m_cartList) - late[other]
               <= deducted[other]
    BY DEF CartDeducted
  <2>5. CASE box = "success"
    <3>1. late'[other] = late[other] + more
      BY <1>1, <2>1, <2>4, <2>5 DEF CartDeducted
    <3>2. PICK now \in Nat, before \in Nat :
            now = UnitsOf(other, m_cartList)' /\ before = UnitsOf(other, m_cartList)
      BY <2>3
    <3>3. now <= before + more /\ dispensed[other] - unpaid[other] + before - late[other]
            <= deducted[other]
      BY <2>2, <2>4, <2>5, <3>2
    <3>4. dispensed[other] - unpaid[other] + now - (late[other] + more) <= deducted[other]
      BY <2>4, <3>3
    <3>5. late[other] + more >= 0
      BY <2>4
    <3>6. UNCHANGED <<stock, deducted, dispensed, unpaid>>
      BY <1>1
    <3> QED BY <2>4, <3>1, <3>2, <3>4, <3>5, <3>6
  <2>6. CASE box # "success"
    BY <1>1, <2>4, <2>6
  <2> QED BY <2>5, <2>6
<1> QED BY <1>3, <1>5, <1>6 DEF CartDeducted

(* The reply to an order keeps it: the cart is deducted as it opens the     *)
(* box.                                                                     *)
LEMMA OrderTaken ==
  ASSUME CartDeducted, onOrderCreateResult
  PROVE  CartDeducted'
<1>1. box = "none" /\ UNCHANGED <<m_cartList, dispensed, late, unpaid>>
  BY DEF onOrderCreateResult, Delivered, Arrives, cartVars
<1>2. m_cartList \in Cart
  BY DEF CartDeducted, Cart
<1>3. CASE ~ Head(replies).ok
  BY <1>1, <1>3, CartLeftAlone DEF onOrderCreateResult, Quiet
<1>4. CASE Head(replies).ok
  <2>1. PICK n \in 0 .. Len(m_cartList) : OrderDeducted(n)
    BY <1>4 DEF onOrderCreateResult
  <2>2. PICK lines : lines = SubSeq(m_cartList, 1, n)
    OBVIOUS
  <2>3. lines \in Cart /\ (n = Len(m_cartList) => lines = m_cartList)
    <3>1. PICK S : S = [id : Goods, num : Nat]
      OBVIOUS
    <3>2. m_cartList \in Seq(S) /\ Len(m_cartList) \in Nat
      BY <1>2, <3>1, LenProperties DEF Cart
    <3>3. /\ lines \in Seq(S) /\ Len(lines) = n
          /\ \A i \in 1 .. n : lines[i] = m_cartList[i]
      BY <2>2, <3>2, SubSeqProperties
    <3>4. ASSUME n = Len(m_cartList)
          PROVE  lines = m_cartList
      BY <3>2, <3>3, <3>4, SeqEqual
    <3> QED BY <3>1, <3>3, <3>4 DEF Cart
  <2>4. /\ \A g \in Goods : UnitsOf(g, lines) <= stock[g]
        /\ stock' = [g \in Goods |-> stock[g] - UnitsOf(g, lines)]
        /\ deducted' = [g \in Goods |-> deducted[g] + UnitsOf(g, lines)]
        /\ box' = IF n = Len(m_cartList) THEN "success" ELSE "none"
    BY <2>1, <2>2 DEF OrderDeducted, deductStock, InStock, Deducted
  <2>5. \A g \in Goods : UnitsOf(g, lines) \in Nat
    BY <2>3, UnitsCounted
  <2>6. {stock', deducted', dispensed', late', unpaid'} \subseteq [Goods -> Int]
    BY <1>1, <2>4, <2>5 DEF CartDeducted
  <2>7. ASSUME NEW g \in Goods
        PROVE  /\ stock'[g] >= 0 /\ late'[g] >= 0
               /\ dispensed'[g] - unpaid'[g] <= deducted'[g]
               /\ box' = "success" =>
                    dispensed'[g] - unpaid'[g] + UnitsOf(g, m_cartList)' - late'[g]
                      <= deducted'[g]
    <3>1. /\ {stock[g], deducted[g], dispensed[g], late[g], unpaid[g]} \subseteq Int
          /\ stock[g] >= 0 /\ late[g] >= 0
          /\ dispensed[g] - unpaid[g] <= deducted[g]
          /\ stock'[g] = stock[g] - UnitsOf(g, lines)
          /\ deducted'[g] = deducted[g] + UnitsOf(g, lines)
      BY <2>4 DEF CartDeducted
    <3>2. UnitsOf(g, lines) <= stock[g] /\ UnitsOf(g, lines) \in Nat
      BY <2>4, <2>5
    <3>3. box' = "success" => UnitsOf(g, m_cartList)' = UnitsOf(g, lines)
      BY <1>1, <2>3, <2>4 DEF UnitsOf, UnitsIn
    <3>4. UNCHANGED <<dispensed, unpaid, late>>
      BY <1>1
    <3>5. /\ dispensed[g] - unpaid[g] <= deducted[g] + UnitsOf(g, lines)
          /\ dispensed[g] - unpaid[g] + UnitsOf(g, lines) - late[g]
               <= deducted[g] + UnitsOf(g, lines)
          /\ stock[g] - UnitsOf(g, lines) >= 0
      <4>1. PICK x \in Int, y \in Int, z \in Int, w \in Int, u \in Nat, s \in Int :
              /\ x = dispensed[g] /\ y = unpaid[g] /\ z = deducted[g] /\ w = late[g]
              /\ u = UnitsOf(g, lines) /\ s = stock[g]
        BY <3>1, <3>2
      <4>2. w >= 0 /\ x - y <= z /\ u <= s
        BY <3>1, <3>2, <4>1
      <4>3. x - y <= z + u /\ x - y + u - w <= z + u /\ s - u >= 0
        BY <4>2
      <4> QED BY <4>1, <4>3
    <3> QED BY <3>1, <3>3, <3>4, <3>5
  <2>8. m_cartList' \in Seq([id : Goods, num : Nat])
    BY <1>1 DEF CartDeducted
  <2> QED BY <2>6, <2>7, <2>8 DEF CartDeducted
<1> QED BY <1>3, <1>4

(* Every step of the settlement page keeps it.                              *)
LEMMA SettlementDeducts ==
  ASSUME CartDeducted, SettlementStep
  PROVE  CartDeducted'
<1>1. ASSUME NEW uid \in Members, on_btn_query_member_clicked(uid)
      PROVE  CartDeducted'
  BY <1>1, CartLeftAlone
     DEF on_btn_query_member_clicked, QueryMember, cartVars, history, Quiet
<1>2. CASE PasswordDialogOpens \/ PasswordEntered \/ DialogCancelled
  BY <1>2, CartLeftAlone
     DEF PasswordDialogOpens, PasswordEntered, DialogCancelled, cartVars, history, Quiet
<1>3. CASE onPasswordVerifyResult \/ WrongPasswordBoxClosed
  BY <1>3, CartLeftAlone
     DEF onPasswordVerifyResult, WrongPasswordBoxClosed, cartVars, history, Quiet
<1>4. CASE FaceDialogOpens \/ processFaceVerification \/ slotFaceVerifyResult \/ FaceConfirmed
  BY <1>4, CartLeftAlone
     DEF FaceDialogOpens, processFaceVerification, slotFaceVerifyResult, FaceConfirmed,
         cartVars, history, Quiet
<1> QED BY <1>1, <1>2, <1>3, <1>4, CartGrows, VoiceCartGrows, OrderTaken, CartDispensed
           DEF SettlementStep

(* A card that is read keeps it.                                            *)
LEMMA CardDeducts ==
  ASSUME CartDeducted, NEW uid \in Members, slotGetCardUID(uid)
  PROVE  CartDeducted'
BY CartLeftAlone DEF slotGetCardUID, QueryMember, cartVars, history, Quiet

(* A member shown or cleared keeps it.                                      *)
LEMMA ReplyShownDeducts ==
  ASSUME CartDeducted, MemberShown(Head(replies)) \/ clearMemberInfo
  PROVE  CartDeducted'
BY CartLeftAlone DEF MemberShown, clearMemberInfo, cartVars, history, Quiet

(* Nothing has been dispensed at the start.                                 *)
LEMMA InitialDeductions == Init => CartDeducted
<1> SUFFICES ASSUME Init
             PROVE  CartDeducted
  OBVIOUS
<1>1. /\ m_cartList = <<>> /\ box = "none"
      /\ stock = [g \in Goods |-> StartStock] /\ deducted = [g \in Goods |-> 0]
      /\ dispensed = deducted /\ late = deducted /\ unpaid = deducted
  BY DEF Init
<1>2. StartStock \in Nat
  BY SettlementAssumption DEF SettlementAssumption
<1>3. m_cartList \in Seq([id : Goods, num : Nat])
  BY <1>1
<1> QED BY <1>1, <1>2, <1>3 DEF CartDeducted

(* In whatever order carts are paid, answered, changed and dispensed and      *)
(* whichever deduction fails, the motor is told to dispense no more units of *)
(* any goods than were taken from the stock, except those added by voice     *)
(* while the success box is open (settlementwidget.cpp:140-172).             *)
THEOREM DispensedFromStock == Spec => []DispensedWasDeducted
<1>1. CartDeducted => DispensedWasDeducted
  BY DEF CartDeducted, DispensedWasDeducted
<1>2. CartDeducted /\ [Next]_vars => CartDeducted'
  <2> SUFFICES ASSUME CartDeducted, [Next]_vars
               PROVE  CartDeducted'
    OBVIOUS
  <2>1. CASE onMemberQueryResult \/ QueryFailedBoxClosed
    BY <2>1, ReplyShownDeducts DEF onMemberQueryResult, QueryFailedBoxClosed
  <2>2. CASE UNCHANGED vars
    BY <2>2, CartLeftAlone DEF vars, cartVars, history, Quiet
  <2> QED BY <2>1, <2>2, SettlementDeducts, CartEmptied, CardDeducts DEF Next
<1> QED BY <1>1, <1>2, InitialDeductions, PTL DEF Spec

(* The form of the goods manager shows a stock that was read from the table. *)
FormShowsStock == goodsForm # NotSelected => goodsForm.stock \in Nat /\ goodsForm.id \in Goods

(* ... also beside the goods manager, which writes the stock as well, and the *)
(* other pages (goodsmanager.cpp:109).                                       *)
THEOREM WidgetsDispensedFromStock == WidgetsSpec => []DispensedWasDeducted
<1>1. CartDeducted => DispensedWasDeducted
  BY DEF CartDeducted, DispensedWasDeducted
<1>2. WidgetsInit => CartDeducted /\ FormShowsStock
  BY InitialDeductions DEF WidgetsInit, FormShowsStock
<1>3. CartDeducted /\ FormShowsStock /\ [WidgetsNext]_<<vars, widgetVars>>
        => CartDeducted' /\ FormShowsStock'
  <2> SUFFICES ASSUME CartDeducted, FormShowsStock, [WidgetsNext]_<<vars, widgetVars>>
               PROVE  CartDeducted' /\ FormShowsStock'
    OBVIOUS
  <2>1. ASSUME UNCHANGED <<sales_, stock>>
        PROVE  CartDeducted'
    BY <2>1, CartLeftAlone DEF sales_, cartVars, history, Quiet
  <2>2. ASSUME UNCHANGED goodsForm
        PROVE  FormShowsStock'
    BY <2>2 DEF FormShowsStock
  <2>3. CASE SettlementStep /\ UNCHANGED widgetVars
    BY <2>2, <2>3, SettlementDeducts DEF widgetVars, managerVars
  <2>4. CASE CartCleared
    BY <2>2, <2>4, CartEmptied DEF CartCleared, managerVars
  <2>5. ASSUME NEW uid \in Members, CardDetected(uid)
        PROVE  CartDeducted' /\ FormShowsStock'
    BY <2>2, <2>5, CardDeducts DEF CardDetected, managerVars
  <2>6. CASE MemberQueryAnswered \/ FailureBoxClosed
    BY <2>2, <2>6, ReplyShownDeducts DEF MemberQueryAnswered, FailureBoxClosed, managerVars
  <2>7. ASSUME NEW uid \in Uids, RechargeQuery(uid) \/ on_btn_register_clicked(uid)
        PROVE  CartDeducted' /\ FormShowsStock'
    BY <2>1, <2>2, <2>7 DEF RechargeQuery, on_btn_register_clicked, managerVars
  <2>8. ASSUME NEW amount \in Amounts, on_btn_recharge_clicked(amount)
        PROVE  CartDeducted' /\ FormShowsStock'
    BY <2>1, <2>2, <2>8 DEF on_btn_recharge_clicked, managerVars
  <2>9. CASE onMemberRechargeResult \/ RechargeResets \/ onMemberRegisterResult
    BY <2>1, <2>2, <2>9
       DEF onMemberRechargeResult, RechargeResets, onMemberRegisterResult, managerVars
  <2>10. CASE openGoodsManagerWithAuth \/ GoodsManagementAuthResult
    BY <2>1, <2>2, <2>10 DEF openGoodsManagerWithAuth, GoodsManagementAuthResult
  <2>11. ASSUME NEW g \in Goods, slotTableItemClicked(g)
         PROVE  CartDeducted' /\ FormShowsStock'
    <3>1. UNCHANGED <<sales_, stock>> /\ goodsForm' = [id |-> g, stock |-> stock[g]]
      BY <2>11 DEF slotTableItemClicked
    <3>2. stock[g] \in Nat
      BY DEF CartDeducted
    <3> QED BY <2>1, <3>1, <3>2 DEF FormShowsStock
  <2>12. ASSUME NEW added \in {0, 1}, on_btn_update_clicked(added)
         PROVE  CartDeducted' /\ FormShowsStock'
    <3>1. /\ UNCHANGED sales_ /\ goodsForm # NotSelected
          /\ stock' = [stock EXCEPT ![goodsForm.id] = goodsForm.stock + added]
          /\ goodsForm' = [goodsForm EXCEPT !.stock = @ + added]
      BY <2>12 DEF on_btn_update_clicked
    <3>2. goodsForm.id \in Goods /\ goodsForm.stock + added \in Nat
      BY <3>1 DEF FormShowsStock
    <3>3. /\ stock' \in [Goods -> Int]
          /\ \A g \in Goods : stock'[g] >= 0
      BY <3>1, <3>2 DEF CartDeducted
    <3>4. UNCHANGED <<m_cartList, box, deducted, dispensed, late, unpaid>>
      BY <3>1 DEF sales_, cartVars, history
    <3>5. \A g \in Goods : UnitsOf(g, m_cartList)' = UnitsOf(g, m_cartList)
      BY <3>4 DEF UnitsOf, UnitsIn
    <3>6. CartDeducted'
      BY <3>3, <3>4, <3>5 DEF CartDeducted
    <3>7. FormShowsStock'
      BY <3>1, <3>2 DEF FormShowsStock
    <3> QED BY <3>6, <3>7
  <2>13. CASE UNCHANGED <<vars, widgetVars>>
    BY <2>2, <2>13, CartLeftAlone DEF vars, cartVars, history, Quiet, widgetVars, managerVars
  <2> QED
    BY <2>3, <2>4, <2>5, <2>6, <2>7, <2>8, <2>9, <2>10, <2>11, <2>12, <2>13 DEF WidgetsNext
<1> QED BY <1>1, <1>2, <1>3, PTL DEF WidgetsSpec

-----------------------------------------------------------------------------
(* Registering.                                                              *)

(* Whichever failed reply comes first sends the pending registration, once.   *)
LEMMA RequestOnce ==
  ASSUME RegisterInv, NEW rest, processRegisterRequest(rest)
  PROVE  RegisterInv'
BY DEF RegisterInv, processRegisterRequest, registerVars

(* A step that is none of registering's leaves it alone.                      *)
LEMMA NotRegistering ==
  ASSUME RegisterInv, UNCHANGED registerVars
  PROVE  RegisterInv'
BY DEF RegisterInv, registerVars

(* Every step of the pages together keeps the account.                       *)
LEMMA RegisterStep == RegisterInv /\ [WidgetsNext]_<<vars, widgetVars>> => RegisterInv'
<1> SUFFICES ASSUME RegisterInv, [WidgetsNext]_<<vars, widgetVars>> PROVE RegisterInv'
  OBVIOUS
<1>1. CASE UNCHANGED widgetVars
  BY <1>1, NotRegistering DEF widgetVars
<1>2. CASE CartCleared \/ \E uid \in Members : CardDetected(uid)
  BY <1>2, NotRegistering DEF CartCleared, CardDetected
<1>3. CASE MemberQueryAnswered
  <2>1. RegisterFound \/ UNCHANGED registerVars
    BY <1>3 DEF MemberQueryAnswered
  <2> QED BY <2>1, NotRegistering DEF RegisterFound, RegisterInv
<1>4. CASE FailureBoxClosed
  BY <1>4, RequestOnce DEF FailureBoxClosed
<1>5. ASSUME NEW uid \in Uids, RechargeQuery(uid) PROVE RegisterInv'
  BY <1>5, NotRegistering DEF RechargeQuery
<1>6. ASSUME NEW uid \in Uids, on_btn_register_clicked(uid) PROVE RegisterInv'
  BY <1>6 DEF on_btn_register_clicked, RegisterInv
<1>7. ASSUME NEW amount \in Amounts, on_btn_recharge_clicked(amount) PROVE RegisterInv'
  BY <1>7, NotRegistering DEF on_btn_recharge_clicked
<1>8. CASE onMemberRechargeResult \/ RechargeResets
  BY <1>8, NotRegistering DEF onMemberRechargeResult, RechargeResets
<1>9. CASE onMemberRegisterResult
  BY <1>9 DEF onMemberRegisterResult, RegisterInv
<1>10. CASE openGoodsManagerWithAuth \/ GoodsManagementAuthResult
  BY <1>10, NotRegistering DEF openGoodsManagerWithAuth, GoodsManagementAuthResult
<1>11. CASE \/ \E g \in Goods : slotTableItemClicked(g)
            \/ \E added \in {0, 1} : on_btn_update_clicked(added)
  BY <1>11, NotRegistering DEF slotTableItemClicked, on_btn_update_clicked
<1> QED BY <1>1, <1>2, <1>3, <1>4, <1>5, <1>6, <1>7, <1>8, <1>9, <1>10, <1>11
  DEF WidgetsNext

(* However replies to other pages' queries, to earlier clicks and to cards are *)
(* mixed: no more registrations are sent than the user asked for               *)
(* (memberregister.cpp:94, 177-219).                                         *)
THEOREM RegisteredOnce == WidgetsSpec => []RegisteredAsAsked
<1>1. WidgetsInit => RegisterInv
  BY DEF WidgetsInit, RegisterInv
<1>2. RegisterInv => RegisteredAsAsked
  BY DEF RegisterInv, RegisteredAsAsked
<1> QED BY <1>1, <1>2, RegisterStep, PTL DEF WidgetsSpec
=============================================================================
