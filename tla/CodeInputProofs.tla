-------------------------- MODULE CodeInputProofs --------------------------
(* Proofs about CodeInput, for every length of the countdown. *)
EXTENDS CodeInput, TLAPS

(* The button is enabled only when nothing is asked for and no countdown   *)
(* runs, so sendCode starts from there; with the reason a button may stay  *)
(* disabled for good, this is inductive.                                   *)
Inv == TypeOK /\ OneCodeAtATime /\ StuckExplained

LEMMA InitInv == Init => Inv
<1> SUFFICES ASSUME Init PROVE Inv
  OBVIOUS
<1>1. TypeOK
  <2>1. countNum \in -1..Count
    BY CountAssumption DEF Init
  <2>2. answer \in Answers \cup {"none"} /\ btnText \in {Idle} \cup 0..Count
    BY DEF Init
  <2> QED BY <2>1, <2>2 DEF Init, TypeOK
<1>2. OneCodeAtATime /\ StuckExplained
  BY DEF Init, OneCodeAtATime, StuckExplained
<1> QED BY <1>1, <1>2 DEF Inv

LEMMA ReceiveAnswerInv == ASSUME Inv, ReceiveAnswer PROVE Inv'
<1>1. /\ TypeOK /\ sending /\ disabled /\ ~(countNum >= 0)
      /\ sending' = FALSE /\ UNCHANGED <<valid, btnText>>
  BY DEF Inv, OneCodeAtATime, ReceiveAnswer
<1>2. CASE Sent
  <2>1. countNum' = Count /\ answer' = "sent" /\ disabled' = disabled
    BY <1>1, <1>2 DEF Sent, StartCounting
  <2>2. TypeOK'
    <3>1. countNum' \in -1..Count
      BY <2>1, CountAssumption
    <3>2. answer' \in Answers \cup {"none"}
      BY <2>1 DEF Answers
    <3> QED BY <1>1, <2>1, <3>1, <3>2 DEF TypeOK
  <2>3. OneCodeAtATime' /\ StuckExplained'
    BY <1>1, <2>1, CountAssumption DEF OneCodeAtATime, StuckExplained
  <2> QED BY <2>2, <2>3 DEF Inv
<1>3. CASE Refused
  BY <1>1, <1>3 DEF Refused, Inv, TypeOK, OneCodeAtATime, StuckExplained, Answers
<1>4. CASE Ignored
  BY <1>1, <1>4 DEF Ignored, Inv, TypeOK, OneCodeAtATime, StuckExplained, Answers
<1> QED BY <1>2, <1>3, <1>4 DEF ReceiveAnswer

LEMMA TickInv == ASSUME Inv, Tick PROVE Inv'
<1>1. /\ TypeOK /\ countNum >= 0 /\ ~sending /\ disabled
      /\ countNum' = countNum - 1 /\ UNCHANGED <<valid, sending, answer>>
  BY DEF Inv, OneCodeAtATime, Tick
<1>2. countNum \in 0..Count /\ countNum' \in -1..Count
  BY <1>1, CountAssumption DEF TypeOK
<1>3. CASE countNum = 0
  <2>1. btnText' = Idle /\ disabled' = FALSE /\ countNum' = -1
    BY <1>1, <1>3 DEF Tick
  <2>2. TypeOK'
    BY <1>1, <1>2, <2>1 DEF TypeOK
  <2>3. OneCodeAtATime' /\ StuckExplained'
    BY <1>1, <2>1 DEF OneCodeAtATime, StuckExplained
  <2> QED BY <2>2, <2>3 DEF Inv
<1>4. CASE countNum # 0
  <2>1. btnText' = countNum /\ disabled' = disabled /\ countNum' >= 0
    BY <1>1, <1>2, <1>4, CountAssumption DEF Tick
  <2>2. TypeOK'
    BY <1>1, <1>2, <2>1 DEF TypeOK
  <2>3. OneCodeAtATime' /\ StuckExplained'
    BY <1>1, <1>2, <2>1, CountAssumption DEF OneCodeAtATime, StuckExplained
  <2> QED BY <2>2, <2>3 DEF Inv
<1> QED BY <1>3, <1>4

LEMMA NextInv == Inv /\ [Next]_vars => Inv'
<1> SUFFICES ASSUME Inv, [Next]_vars PROVE Inv'
  OBVIOUS
<1>1. CASE ChangePhone
  BY <1>1 DEF ChangePhone, Inv, TypeOK, OneCodeAtATime, StuckExplained
<1>2. CASE SendCode
  BY <1>2 DEF SendCode, Inv, TypeOK, OneCodeAtATime, StuckExplained
<1>3. CASE ReceiveAnswer
  BY <1>3, ReceiveAnswerInv
<1>4. CASE Tick
  BY <1>4, TickInv
<1>5. CASE UNCHANGED vars
  BY <1>5 DEF vars, Inv, TypeOK, OneCodeAtATime, StuckExplained
<1> QED BY <1>1, <1>2, <1>3, <1>4, <1>5 DEF Next

LEMMA FieldAlways == Init /\ [][Next]_vars => []Inv
BY InitInv, NextInv, PTL

LEMMA Invariance == Spec => []Inv
BY FieldAlways, PTL DEF Spec

-----------------------------------------------------------------------------
(* The button, its text and the countdown keep their types. *)
THEOREM TypeCorrect == Spec => []TypeOK
<1>1. Inv => TypeOK
  BY DEF Inv
<1> QED BY <1>1, Invariance, PTL

(* No code can be asked for during a countdown or while one is asked for,  *)
(* so startCounting never drops the callback that enables the button.      *)
THEOREM OneCode == Spec => []OneCodeAtATime
<1>1. Inv => OneCodeAtATime
  BY DEF Inv
<1> QED BY <1>1, Invariance, PTL

(* A button disabled with nothing to wait for had an answer that sendCode  *)
(* has no branch for.                                                      *)
THEOREM Stuck == Spec => []StuckExplained
<1>1. Inv => StuckExplained
  BY DEF Inv
<1> QED BY <1>1, Invariance, PTL

-----------------------------------------------------------------------------
(* After a success the button comes back if no countdown runs for ever:    *)
(* nothing else can keep it from its callback.  That the countdown from    *)
(* Count ends is an induction over its numbers and left to the run.        *)
THEOREM SentComesBack == Init /\ [][Next]_vars /\ []<>(countNum < 0) => SentReenables
<1> DEFINE Heard == answer = "sent" /\ ~sending
           Runs  == ~(countNum < 0)
<1>1. Inv /\ Heard /\ disabled => Runs
  BY DEF Inv, StuckExplained
<1>2. Inv /\ Heard /\ disabled /\ [Next]_vars => Heard' \/ ~disabled'
  <2> SUFFICES ASSUME Heard, disabled, [Next]_vars PROVE UNCHANGED <<answer, sending>>
    OBVIOUS
  <2>1. ~SendCode /\ ~ReceiveAnswer
    BY DEF SendCode, ReceiveAnswer
  <2> QED BY <2>1 DEF Next, vars, ChangePhone, Tick
<1>3. SentReenables <=> (Heard ~> ~disabled)
  BY DEF SentReenables
<1>4. []<>(countNum < 0) <=> []<>~Runs
  <2>1. countNum < 0 <=> ~Runs
    OBVIOUS
  <2> HIDE DEF Runs
  <2> QED BY <2>1, PTL
<1> HIDE DEF Heard, Runs
<1> QED BY <1>1, <1>2, <1>3, <1>4, FieldAlways, PTL
=============================================================================
