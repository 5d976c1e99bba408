------------------------------ MODULE CodeInput ------------------------------
(***************************************************************************)
(* The field for an SMS code (components/CodeInput.js): its button asks    *)
(* the server for a code through _FetchData and is disabled until the      *)
(* answer, and after a success until a countdown has ended.                *)
(*                                                                         *)
(* _FetchData never rejects: a failed request, or an error with a message, *)
(* resolves to undefined.  What reaches sendCode is therefore one of       *)
(*   sent      error is falsy                                              *)
(*   zeroText  error is the text "0", with a message: != 0 is false for    *)
(*             it in _FetchData, Boolean() is true for it in sendCode      *)
(*   silent    error is set, without a message                             *)
(*   lost      undefined                                                   *)
(***************************************************************************)
EXTENDS Integers

CONSTANTS
    Count,   \* the first number of the countdown, 59
    Idle     \* the text of the button outside a countdown

ASSUME CountAssumption == Count \in Nat /\ Idle \notin Int

VARIABLES
    valid,     \* the phone number passed in is a mobile number
    disabled,  \* state.disabledBtn
    btnText,   \* state.btnText: Idle, or the number shown
    countNum,  \* this.countNum, -1 outside a countdown
    sending,   \* a request for a code is in flight
    answer     \* history: the last answer, or "none"

vars == <<valid, disabled, btnText, countNum, sending, answer>>

Answers == {"sent", "zeroText", "silent", "lost"}

TypeOK ==
    /\ valid \in BOOLEAN /\ disabled \in BOOLEAN /\ sending \in BOOLEAN
    /\ countNum \in -1..Count
    /\ btnText \in {Idle} \cup 0..Count
    /\ answer \in Answers \cup {"none"}

Init ==
    /\ valid \in BOOLEAN /\ disabled = FALSE /\ sending = FALSE
    /\ countNum = -1 /\ btnText = Idle /\ answer = "none"

(* The page that owns the field passes another phone number. *)
ChangePhone ==
    /\ valid' = ~valid
    /\ UNCHANGED <<disabled, btnText, countNum, sending, answer>>

SendCodeEnabled ==  \* mutated: the button is left enabled
    /\ ~disabled /\ valid
    /\ sending' = TRUE
    /\ UNCHANGED <<valid, disabled, btnText, countNum, answer>>
SendCode ==
    /\ ~disabled /\ valid
    /\ disabled' = TRUE /\ sending' = TRUE
    /\ UNCHANGED <<valid, btnText, countNum, answer>>

(* A countdown still on the way refuses another one, and its callback. *)
StartCountingSwapped ==  \* mutated: the test is the other way round
    countNum' = IF countNum >= 0 THEN Count ELSE countNum
StartCounting == countNum' = IF countNum >= 0 THEN countNum ELSE Count

Sent ==
    /\ answer' = "sent"
    /\ StartCounting
    /\ UNCHANGED disabled

Refused ==
    /\ answer' = "zeroText"
    /\ disabled' = FALSE
    /\ UNCHANGED countNum

(* Neither branch of the handler is taken, and its catch is never reached. *)
Ignored ==
    /\ answer' \in {"silent", "lost"}
    /\ UNCHANGED <<disabled, countNum>>

ReceiveAnswer ==
    /\ sending /\ sending' = FALSE
    /\ Sent \/ Refused \/ Ignored
    /\ UNCHANGED <<valid, btnText>>

(* One second of the interval. *)
TickForever ==  \* mutated: the interval is not cleared
    /\ countNum' = countNum - 1
    /\ IF countNum <= 0
         THEN btnText' = Idle /\ disabled' = FALSE
         ELSE btnText' = countNum /\ UNCHANGED disabled
    /\ UNCHANGED <<valid, sending, answer>>
TickSilently ==  \* mutated: the callback is not called
    /\ countNum >= 0
    /\ countNum' = countNum - 1
    /\ btnText' = IF countNum = 0 THEN Idle ELSE countNum
    /\ UNCHANGED <<valid, disabled, sending, answer>>
Tick ==
    /\ countNum >= 0
    /\ countNum' = countNum - 1
    /\ IF countNum = 0
         THEN btnText' = Idle /\ disabled' = FALSE
         ELSE btnText' = countNum /\ UNCHANGED disabled
    /\ UNCHANGED <<valid, sending, answer>>

Next == ChangePhone \/ SendCode \/ ReceiveAnswer \/ Tick

(* The interval fires; every request ends with an answer or an error. *)
Spec == Init /\ [][Next]_vars /\ WF_vars(Tick) /\ WF_vars(ReceiveAnswer)

-----------------------------------------------------------------------------
(* A code cannot be asked for during a countdown or while one is asked     *)
(* for, so startCounting never refuses the callback that alone enables the *)
(* button again.                                                           *)
OneCodeAtATime == (countNum >= 0 \/ sending) => disabled /\ ~(countNum >= 0 /\ sending)

(* A button that is disabled with nothing to wait for had an answer that   *)
(* sendCode has no branch for.                                             *)
StuckExplained ==
    disabled /\ ~sending /\ countNum < 0 => answer \in {"silent", "lost"}

(* After a success the button comes back.                                  *)
SentReenables == (answer = "sent" /\ ~sending) ~> ~disabled

(* The catch of sendCode says of a code that could not be had ("获取失败") *)
(* that the button is enabled again.                                       *)
FailureReenables == (answer = "lost" /\ ~sending) ~> ~disabled
=============================================================================
