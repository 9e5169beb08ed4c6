-------------------------------- MODULE Voice --------------------------------
(***************************************************************************)
(* The voice session (ui/mainwindow.cpp, services/voice_assist.cpp) and the *)
(* command parser (services/voice_engine.cpp).                              *)
(*                                                                         *)
(* What is recognised goes into the line edit of the session, a partial     *)
(* result as well, and 600 ms after a final one the line edit's text at     *)
(* that time is sent, if there is any.  It all runs on the GUI thread, but  *)
(* the help box and the box that simulates the microphone run the event     *)
(* loop inside their handler, so that timers and the microphone go on.      *)
(* What the commands do to the cart and its payment is in Settlement.       *)
(*                                                                         *)
(* A text is the sequence of its characters and numbers; a keyword is       *)
(* written in pinyin.  Each intent keeps those of its keywords that the     *)
(* utterances of an instance can contain.                                   *)
(***************************************************************************)
EXTENDS Integers, SequencesExt

CONSTANTS
  Utterances,    (* what is said or typed                                  *)
  MaxInputs,     (* bound: texts said, typed or entered                    *)
  MaxSessions    (* bound: sessions                                        *)

ASSUME VoiceAssumption ==
  Utterances \subseteq Seq(STRING) /\ MaxInputs \in Nat /\ MaxSessions \in Nat

VARIABLES
  m_voiceActive,
  m_voiceIdleTimer,    (* is running                                       *)
  m_listening,         (* and there is a recognizer                        *)
  speaking,            (* what is being said, <<>> when nothing is         *)
  lineEdit_voice,
  sendShots,           (* running 600 ms timers                            *)
  boxes,               (* the open boxes, the innermost last               *)
  voiceCart,           (* units put into the cart                          *)
  rechargeAmount,      (* the amount in the recharge page                  *)
  said,                (* history: texts said in full, typed or entered    *)
  inputs,              (* how many                                         *)
  command,             (* history: the last one executed                   *)
  sessions

voiceVars == <<m_voiceActive, m_voiceIdleTimer, m_listening, speaking, lineEdit_voice,
               sendShots, boxes, voiceCart, rechargeAmount, said,
               inputs, command, sessions>>

voiceSession == <<m_voiceActive, m_voiceIdleTimer, m_listening, speaking>>
effects == <<voiceCart, rechargeAmount, command>>
heard == <<said, inputs>>

NoCommand == [text |-> <<>>, category |-> "none", amount |-> 0]

VoiceInit ==
  /\ m_voiceActive = FALSE /\ m_voiceIdleTimer = FALSE /\ m_listening = FALSE
  /\ speaking = <<>> /\ lineEdit_voice = <<>>
  /\ sendShots = 0 /\ boxes = <<>>
  /\ voiceCart = 0 /\ rechargeAmount = 0
  /\ said = {} /\ inputs = 0 /\ command = NoCommand /\ sessions = 0

-----------------------------------------------------------------------------
(* The parser. *)

ContainsText(text, word) ==
  \E i \in 0 .. Len(text) - Len(word) : SubSeq(text, i + 1, i + Len(word)) = word

ContainsAny(text, patterns) == \E word \in patterns : ContainsText(text, word)

(* In the order of the table: the first that matches is taken. *)
m_intentTable == <<
  [target |-> "checkout",    patterns |-> {<<"jie", "zhang">>, <<"fu", "kuan">>}],
  [target |-> "cancel",      patterns |-> {<<"qu", "xiao">>, <<"bu", "yao", "le">>}],
  [target |-> "recharge",    patterns |-> {<<"chong", "zhi">>}],
  [target |-> "balance",     patterns |-> {<<"yu", "e">>, <<"duo", "shao", "qian">>}],
  [target |-> "recommend",   patterns |-> {<<"tui", "jian">>}],
  [target |-> "register",    patterns |-> {<<"zhu", "ce">>}],
  [target |-> "help",        patterns |-> {<<"bang", "zhu">>}],
  [target |-> "buy",         patterns |-> {<<"mai">>, <<"jia">>, <<"lai">>, <<"yao">>}],
  [target |-> "greet",       patterns |-> {<<"ni", "hao">>}],
  [target |-> "thanks",      patterns |-> {<<"xie", "xie">>}],
  [target |-> "end_session", patterns |-> {<<"jie", "shu">>, <<"zai", "jian">>}] >>

m_goodsAliases == <<
  [target |-> "cola",    patterns |-> {<<"ke", "le">>}],
  [target |-> "water",   patterns |-> {<<"shui">>}],
  [target |-> "shampoo", patterns |-> {<<"xi", "fa", "shui">>}] >>

Units == {"ping", "bao", "ge", "kuai", "yuan"}
AmountUnits == {"kuai", "yuan"}

Numeral(n, words) == [target |-> n, patterns |-> words, unit |-> FALSE]
OneOf(units) == [target |-> 1, patterns |-> units, unit |-> TRUE]

m_numberMap == <<
  Numeral(1, {<<"yi">>}), Numeral(2, {<<"er">>, <<"liang">>}), Numeral(3, {<<"san">>}),
  Numeral(4, {<<"si">>}), Numeral(5, {<<"wu">>}), Numeral(6, {<<"liu">>}),
  Numeral(7, {<<"qi">>}), Numeral(8, {<<"ba">>}), Numeral(9, {<<"jiu">>}),
  Numeral(10, {<<"shi">>}),
  Numeral(20, {<<"er", "shi">>}), Numeral(30, {<<"san", "shi">>}),
  Numeral(50, {<<"wu", "shi">>}), Numeral(100, {<<"yi", "bai">>}),
  Numeral(200, {<<"liang", "bai">>}), Numeral(500, {<<"wu", "bai">>}),
  Numeral(1000, {<<"yi", "qian">>}),
  OneOf({<<"ping">>, <<"bao">>, <<"ge">>}), OneOf({<<"kuai">>, <<"yuan">>}) >>

(* A number in Arabic digits is one element of a text. *)
Arabic == [d \in {"0", "3", "12", "99999"} |->
             CASE d = "0" -> 0 [] d = "3" -> 3 [] d = "12" -> 12 [] d = "99999" -> 99999]

(* The rules one of whose patterns the text contains, and what the first of  *)
(* some rules stands for.                                                   *)
Hits(table, text) == {i \in DOMAIN table : ContainsAny(text, table[i].patterns)}

FirstOf(table, rules, none) ==
  IF rules = {} THEN none ELSE table[CHOOSE i \in rules : \A j \in rules : i <= j].target

FirstMatch(table, text, none) == FirstOf(table, Hits(table, text), none)

resolveGoodsName(text) == FirstMatch(m_goodsAliases, text, "")

(* What the regular expression captures: the first number before a unit.    *)
NumbersBefore(unitWords, text) ==
  {i \in 1 .. Len(text) - 1 : text[i] \in DOMAIN Arabic /\ text[i + 1] \in unitWords}

ArabicBefore(unitWords, text) ==
  LET at == NumbersBefore(unitWords, text) IN
  IF at = {} THEN 0 ELSE Arabic[text[CHOOSE i \in at : \A j \in at : i <= j]]

NumeralRules == {i \in DOMAIN m_numberMap : ~ m_numberMap[i].unit}

(* Mutant: the rules of the units are looked at too, and first. *)
NumeralsAndUnits(text) ==
  LET units == Hits(m_numberMap, text) \ NumeralRules IN
  FirstOf(m_numberMap, IF units = {} THEN Hits(m_numberMap, text) ELSE units, 0)

Numerals(text) == FirstOf(m_numberMap, Hits(m_numberMap, text) \cap NumeralRules, 0)

matchNumber(text) ==
  LET v == ArabicBefore(Units, text) IN IF v > 0 THEN v ELSE Numerals(text)

extractQuantity(text) == LET v == matchNumber(text) IN IF v > 0 THEN v ELSE 1

extractAmount(text) ==
  LET v == ArabicBefore(AmountUnits, text) IN
  IF v > 0 /\ v <= 9999 THEN v ELSE matchNumber(text)

(* What can stand in the line edit. *)
Texts == (UNION {Prefixes(u) : u \in Utterances}) \ {<<>>}

(* What is made of each text: the intent, and what its signal carries.      *)
processCommand ==
  [text \in Texts |->
    LET category == FirstMatch(m_intentTable, text, "unknown")
        goods == resolveGoodsName(text)
    IN [category |-> IF category = "buy" /\ goods = "" THEN "buy_failed" ELSE category,
        amount |-> CASE category = "buy" -> extractQuantity(text)
                     [] category = "recharge" -> extractAmount(text)
                     [] OTHER -> 0]]

(* RechargeWidget::setRechargeAmount *)
setRechargeAmount(n) == IF n > 0 /\ n <= 9999 THEN n ELSE rechargeAmount

-----------------------------------------------------------------------------
(* Listening. *)

(* startListening; without a microphone, a model or a recognizer the session *)
(* is typed.                                                                *)
startVoiceListening == m_listening' \in (IF m_listening THEN {TRUE} ELSE BOOLEAN)

(* finalizeResult reports what was being said, behind all that had been      *)
(* reported before.  The caller clears the text; its timer goes on.         *)
FinalShots == IF m_listening /\ speaking # <<>> THEN 1 ELSE 0

stopVoiceListening(shots) ==
  /\ m_listening' = FALSE
  /\ speaking' = <<>>
  /\ sendShots' = shots + FinalShots

Input(u) == inputs < MaxInputs /\ inputs' = inputs + 1 /\ said' = said \cup {u}

(* processAudioData: somebody speaks, and a partial result is shown.        *)
PartialResult ==
  /\ m_listening /\ inputs < MaxInputs
  /\ \E u \in Utterances : \E n \in Len(speaking) + 1 .. Len(u) - 1 :
       /\ IsPrefix(speaking, u)
       /\ speaking' = SubSeq(u, 1, n)
       /\ lineEdit_voice' = speaking'
  /\ UNCHANGED <<m_voiceActive, m_voiceIdleTimer, m_listening, sendShots, boxes, effects,
                 heard, sessions>>

(* checkVoskResult *)
FinalResult ==
  /\ m_listening
  /\ \E u \in Utterances :
       /\ IsPrefix(speaking, u)
       /\ lineEdit_voice' = u /\ Input(u)
  /\ sendShots' = sendShots + 1
  /\ speaking' = <<>>
  /\ UNCHANGED <<m_voiceActive, m_voiceIdleTimer, m_listening, boxes, effects, sessions>>

-----------------------------------------------------------------------------
(* The session.  The user reaches the window when no box is open. *)

(* on_btn_voice_wake_clicked *)
beginVoiceSession ==
  /\ boxes = <<>> /\ ~ m_voiceActive
  /\ sessions < MaxSessions /\ sessions' = sessions + 1
  /\ m_voiceActive' = TRUE /\ m_voiceIdleTimer' = TRUE
  /\ startVoiceListening
  /\ UNCHANGED <<speaking, lineEdit_voice, sendShots, boxes, effects, heard>>

SessionCloses(shots) ==
  /\ m_voiceIdleTimer' = FALSE
  /\ stopVoiceListening(shots)
  /\ m_voiceActive' = FALSE
  /\ lineEdit_voice' = <<>>

endVoiceSession ==
  /\ boxes = <<>> /\ m_voiceActive
  /\ SessionCloses(sendShots)
  /\ UNCHANGED <<boxes, effects, heard, sessions>>

(* Mutant: the timer waits until the boxes are closed. *)
AbortWithoutBox ==
  /\ m_voiceIdleTimer /\ m_voiceActive /\ boxes = <<>>
  /\ SessionCloses(sendShots)
  /\ voiceCart' = 0 /\ rechargeAmount' = 0
  /\ UNCHANGED <<boxes, command, heard, sessions>>

(* The idle timer, whatever is open.  The cart is cleared by a call that is  *)
(* posted and runs before anything else.                                    *)
abortVoiceSession ==
  /\ m_voiceIdleTimer /\ m_voiceActive
  /\ SessionCloses(sendShots)
  /\ voiceCart' = 0 /\ rechargeAmount' = 0
  /\ UNCHANGED <<boxes, command, heard, sessions>>

(* on_btn_voice_send_clicked with processCommand and the slots of its        *)
(* signals.  The help box is open before the line edit is cleared.          *)
Execute(text, shots) ==
  LET category == processCommand[text].category
      amount == processCommand[text].amount
  IN
  /\ m_voiceActive /\ text # <<>>
  /\ command' = [text |-> text, category |-> category, amount |-> amount]
  /\ voiceCart' = CASE category = "cancel" -> 0
                    [] category = "buy" -> voiceCart + amount
                    [] OTHER -> voiceCart
  /\ rechargeAmount' = IF category = "recharge" THEN setRechargeAmount(amount)
                       ELSE rechargeAmount
  /\ boxes' = IF category = "help" THEN Append(boxes, "help") ELSE boxes
  /\ IF category = "end_session" THEN SessionCloses(shots)
     ELSE /\ lineEdit_voice' = IF category = "help" THEN text ELSE <<>>
          /\ m_voiceIdleTimer' = TRUE
          /\ sendShots' = shots
          /\ UNCHANGED <<m_voiceActive, m_listening, speaking>>
  /\ UNCHANGED sessions

(* A 600 ms timer, of this session or of an earlier one. *)
SendShot ==
  /\ sendShots > 0
  /\ \/ Execute(lineEdit_voice, sendShots - 1)
     \/ /\ ~ (m_voiceActive /\ lineEdit_voice # <<>>)
        /\ sendShots' = sendShots - 1
        /\ UNCHANGED <<voiceSession, lineEdit_voice, boxes, effects, sessions>>
  /\ UNCHANGED heard

(* The button or the return key, on what is there or on what was typed.     *)
SendByHand ==
  /\ boxes = <<>>
  /\ \/ Execute(lineEdit_voice, sendShots) /\ UNCHANGED heard
     \/ \E u \in Utterances :
          /\ Input(u)
          /\ Execute(u, sendShots)

HelpClosed ==
  /\ boxes # <<>> /\ Last(boxes) = "help"
  /\ boxes' = Front(boxes)
  /\ lineEdit_voice' = <<>>
  /\ UNCHANGED <<voiceSession, sendShots, effects, heard, sessions>>

(* on_btn_voice_simulate_clicked: the text entered is reported as if it had  *)
(* been recognised, also when the session is over by then.                  *)
SimulateOpens ==
  /\ boxes = <<>> /\ m_voiceActive /\ inputs < MaxInputs
  /\ boxes' = <<"simulate">>
  /\ UNCHANGED <<voiceSession, lineEdit_voice, sendShots, effects, heard, sessions>>

SimulateClosed ==
  /\ boxes # <<>> /\ Last(boxes) = "simulate"
  /\ boxes' = Front(boxes)
  /\ \/ \E u \in Utterances :
          /\ Input(u)
          /\ lineEdit_voice' = u
          /\ sendShots' = sendShots + 1
     \/ UNCHANGED <<lineEdit_voice, sendShots, heard>>
  /\ UNCHANGED <<voiceSession, effects, sessions>>

VoiceNext ==
  \/ PartialResult \/ FinalResult
  \/ beginVoiceSession \/ endVoiceSession \/ abortVoiceSession
  \/ SendShot \/ SendByHand \/ HelpClosed \/ SimulateOpens \/ SimulateClosed

(* Timers expire; nobody has to speak, to type or to close a box.           *)
VoiceFairness == WF_voiceVars(abortVoiceSession) /\ WF_voiceVars(SendShot)

VoiceSpec == VoiceInit /\ [][VoiceNext]_voiceVars /\ VoiceFairness

-----------------------------------------------------------------------------
(* Properties. *)

VoiceTypeOK ==
  /\ {m_voiceActive, m_voiceIdleTimer, m_listening} \subseteq BOOLEAN
  /\ sendShots \in Nat /\ voiceCart \in Nat /\ rechargeAmount \in 0 .. 9999
  /\ boxes \in Seq({"help", "simulate"})
  /\ inputs \in 0 .. MaxInputs /\ said \subseteq Utterances

(* The microphone, which the stream needs back, is held only while the idle  *)
(* timer runs, and the timer ends the session although boxes stay open and   *)
(* stale timers go on sending (mainwindow.cpp:662, 687, 779).               *)
MicrophoneGivenBack == m_listening ~> ~ m_listening

(* What a text names: numbers in digits before a unit, and the numerals up   *)
(* to ten.                                                                  *)
InDigits(text) == {Arabic[text[i]] : i \in NumbersBefore(Units, text)}

Digits == <<{"yi"}, {"er", "liang"}, {"san"}, {"si"}, {"wu"}, {"liu"}, {"qi"}, {"ba"}, {"jiu"},
            {"shi"}>>

InWords(text) == {n \in 1 .. 10 : Digits[n] \cap ToSet(text) # {}}

(* A purchase is of the number that is said: of one in digits, unless it is   *)
(* zero, else of one that is spelled, and of one piece only where there is    *)
(* neither - also where units, other words and numerals stand side by side    *)
(* or numerals are put together (voice_engine.cpp:185-205).                  *)
QuantityAsSaid ==
  command.category = "buy" =>
    LET counted == InDigits(command.text)
        spelled == InWords(command.text)
    IN /\ counted # {} /\ 0 \notin counted => command.amount \in counted
       /\ counted \subseteq {0} =>
            command.amount \in (IF spelled = {} THEN {1} ELSE spelled)

(* Who listens is in a session, and its idle timer runs.                     *)
ListeningIsTimed == m_listening => m_voiceActive /\ m_voiceIdleTimer

(* What is in the line edit, and so what is executed, begins an utterance.   *)
VoiceInv ==
  /\ m_voiceActive \in BOOLEAN /\ m_voiceIdleTimer = m_voiceActive
  /\ m_listening \in BOOLEAN /\ ListeningIsTimed
  /\ speaking \in Seq(STRING)
  /\ lineEdit_voice \in Texts \cup {<<>>}
  /\ command = NoCommand \/ \E text \in Texts :
       command = [text |-> text, category |-> processCommand[text].category,
                  amount |-> processCommand[text].amount]
  /\ QuantityAsSaid

(* voice_assist.cpp:225: a result is acted upon when it is final.  Also a     *)
(* partial one is, by the 600 ms timer of the result before it, and then the *)
(* final one again (mainwindow.cpp:532, 541).                               *)
OnlyFinalResults == command # NoCommand => command.text \in said

(* voice_engine.cpp:146-153: the table has numerals above ten.              *)
LargeNumerals ==
  \A i \in 11 .. 17 : LET rule == m_numberMap[i] IN
    \A word \in rule.patterns : matchNumber(word) = rule.target

(* voice_engine.cpp:127: the table has an alias "xi fa shui" for shampoo; it  *)
(* contains the one for water, whose rule stands before.                    *)
GoodsAsNamed ==
  \A i \in DOMAIN m_goodsAliases : LET rule == m_goodsAliases[i] IN
    \A word \in rule.patterns : resolveGoodsName(word) = rule.target

=============================================================================
