-------------------------- MODULE AccountFlowProofs --------------------------
(* Proofs about AccountFlow, for every number of pages and of changes. *)
EXTENDS AccountFlow, TLAPS, SequenceTheorems

(* The stack is the root alone, or the root with a BindPhone page on it. *)
StackInv ==
    stack = <<1>> \/ \E k \in 2..opened : stack = <<1, k>>

(* A page has a request in flight exactly while it is submitting, and none *)
(* before it is opened.                                                    *)
RequestInv ==
    /\ \A id \in Ids : requests[id] = 1 <=> submitting[id]
    /\ \A id \in Ids : id > opened => requests[id] = 0

(* A change is followed by no other while its page was not left and heard  *)
(* of it: no request but the one of the page on top is in flight, and the  *)
(* change leaves none.                                                     *)
ChangeInv ==
    /\ ~abandoned => \A id \in Ids : requests[id] > 0 => id = Top /\ left = "no"
    /\ ~abandoned /\ ~unheard => applied = 0 \/ (applied = 1 /\ left = "code")

Inv == TypeOK /\ StackInv /\ RequestInv /\ VerifierOnTop /\ ChangeInv /\ ClosesWhenDone

-----------------------------------------------------------------------------
(* The page on top is the root exactly when it is alone. *)
LEMMA TopFacts ==
    ASSUME TypeOK, StackInv
    PROVE  /\ Top \in Ids /\ Top <= opened
           /\ Top = 1 <=> Len(stack) = 1
           /\ Len(stack) = 1 => stack = <<1>>
           /\ 1 \in Ids /\ opened \in Nat /\ 1 <= opened
<1>1. 1 \in Ids /\ opened \in Nat /\ 1 <= opened /\ opened \in Ids
  BY BoundsAssumption DEF TypeOK, Ids
<1>2. CASE stack = <<1>>
  BY <1>1, <1>2 DEF Top
<1>3. CASE \E k \in 2..opened : stack = <<1, k>>
  <2>1. PICK k \in 2..opened : stack = <<1, k>>
    BY <1>3
  <2>2. Top = k /\ Len(stack) = 2
    BY <2>1 DEF Top
  <2>3. k \in Ids /\ k # 1 /\ k <= opened
    BY <1>1, <2>1, BoundsAssumption DEF Ids
  <2> QED BY <1>1, <2>2, <2>3
<1> QED BY <1>2, <1>3 DEF StackInv

LEMMA InitInv == Init => Inv
<1> SUFFICES ASSUME Init PROVE Inv
  OBVIOUS
<1>1. 1 \in Ids
  BY BoundsAssumption DEF Ids
<1>2. stack = <<1>> /\ stack \in Seq(Ids) /\ Len(stack) = 1
  BY <1>1 DEF Init
<1>3. TypeOK
  <2>1. applied \in 0..MaxApplied /\ opened \in Ids /\ root \in Roots
    BY <1>1, BoundsAssumption DEF Init
  <2>2. submitting \in [Ids -> BOOLEAN] /\ requests \in [Ids -> 0..1]
    BY DEF Init
  <2>3. left \in {"no", "user", "code"} /\ unheard \in BOOLEAN /\ abandoned \in BOOLEAN
    BY DEF Init
  <2> QED BY <1>2, <2>1, <2>2, <2>3 DEF TypeOK
<1>4. RequestInv /\ ChangeInv /\ VerifierOnTop /\ ClosesWhenDone /\ StackInv
  BY <1>1, <1>2 DEF Init, RequestInv, ChangeInv, VerifierOnTop, ClosesWhenDone, StackInv
<1> QED BY <1>3, <1>4 DEF Inv

LEMMA SubmitInv == ASSUME Inv, NEW id \in Ids, Submit(id) PROVE Inv'
<1>0. requests[id] = 0 /\ requests \in [Ids -> 0..1]
  BY DEF Inv, Submit, RequestInv, TypeOK
<1>1. /\ TypeOK /\ StackInv /\ RequestInv
      /\ id = Top /\ left = "no" /\ requests[id] = 0
      /\ submitting' = [submitting EXCEPT ![id] = TRUE]
      /\ requests' = [requests EXCEPT ![id] = 1]
      /\ UNCHANGED <<root, stack, opened, applied, left, unheard, abandoned>>
  BY <1>0 DEF Inv, Submit
<1>3. TypeOK'
  BY <1>1 DEF TypeOK
<1>4. StackInv'
  BY <1>1 DEF StackInv
<1>5. id <= opened /\ id \in Nat /\ opened \in Nat
  BY <1>1, TopFacts DEF Ids
<1>6. RequestInv'
  BY <1>1, <1>5 DEF RequestInv, TypeOK
<1>7. Top' = Top
  BY <1>1 DEF Top
<1>8. VerifierOnTop'
  BY <1>1, <1>7, TopFacts DEF Inv, VerifierOnTop, TypeOK
<1>9. ChangeInv'
  BY <1>1, <1>7 DEF Inv, ChangeInv, TypeOK
<1>10. ClosesWhenDone'
  BY <1>1 DEF ClosesWhenDone
<1> QED BY <1>3, <1>4, <1>6, <1>8, <1>9, <1>10 DEF Inv

LEMMA AnswerInv == ASSUME Inv, NEW id \in Ids, Answer(id) PROVE Inv'
<1>0. requests[id] = 1 /\ requests \in [Ids -> 0..1]
  BY DEF Inv, Answer, TypeOK
<1>1. /\ TypeOK /\ StackInv /\ RequestInv /\ requests[id] = 1
      /\ requests' = [requests EXCEPT ![id] = 0]
      /\ submitting' = [submitting EXCEPT ![id] = FALSE]
      /\ UNCHANGED <<root, abandoned>>
  BY <1>0 DEF Inv, Answer
<1>2. RequestInv' \/ opened' # opened
  BY <1>1 DEF RequestInv, TypeOK
<1>3. CASE Verified(id)
  <2>0. id = 1 /\ root = "VerifyPhone"
    BY <1>3 DEF Verified, Page
  <2>11. opened + 1 \in Ids
    BY <1>1, <1>3, BoundsAssumption DEF Verified, TypeOK, Ids
  <2>1. /\ id = 1 /\ root = "VerifyPhone" /\ opened + 1 \in Ids
        /\ opened' = opened + 1 /\ stack' = Append(stack, opened + 1)
        /\ UNCHANGED <<applied, left, unheard>>
    BY <1>3, <2>0, <2>11 DEF Verified
  <2>2. stack = <<1>> /\ opened \in Nat /\ 1 <= opened
    BY <1>1, <2>1, TopFacts DEF Inv, VerifierOnTop
  <2>3. stack' = <<1, opened + 1>> /\ stack' \in Seq(Ids) /\ Len(stack') = 2
    <3> DEFINE n == opened + 1
    <3> HIDE DEF n
    <3>3. 1 \in Ids /\ n \in Ids /\ <<1>> \in Seq(Ids)
      BY <2>1 DEF n
    <3>4. /\ Append(<<1>>, n) \in Seq(Ids) /\ Len(Append(<<1>>, n)) = 2
          /\ Append(<<1>>, n)[1] = 1 /\ Append(<<1>>, n)[2] = n
      BY <3>3
    <3>5. <<1, n>> \in Seq(Ids) /\ Len(<<1, n>>) = 2 /\ <<1, n>>[1] = 1 /\ <<1, n>>[2] = n
      BY <3>3
    <3>6. Append(<<1>>, n) = <<1, n>>
      <4> DEFINE a == Append(<<1>>, n)
                 b == <<1, n>>
      <4>1. a \in Seq(Ids) /\ b \in Seq(Ids) /\ Len(a) = Len(b)
        BY <3>4, <3>5
      <4>2. \A i \in 1..Len(a) : a[i] = b[i]
        <5>1. \A i \in 1..Len(a) : i = 1 \/ i = 2
          BY <3>4
        <5> QED BY <3>4, <3>5, <5>1
      <4> HIDE DEF a, b
      <4>3. a = b
        BY <4>1, <4>2, SeqEqual
      <4> QED BY <4>3 DEF a, b
    <3>1. stack' = <<1, opened + 1>>
      BY <2>1, <2>2, <3>6 DEF n
    <3>2. 1 \in Ids /\ opened + 1 \in Ids
      BY <2>1
    <3> QED BY <3>1, <3>2
  <2>4. TypeOK'
    BY <1>1, <2>1, <2>3 DEF TypeOK
  <2>5. StackInv'
    <3>1. opened + 1 \in 2..opened'
      BY <2>1, <2>2
    <3> QED BY <2>3, <3>1 DEF StackInv
  <2>6. RequestInv'
    BY <1>1, <2>1, <2>2 DEF RequestInv, TypeOK, Ids
  <2>7. VerifierOnTop'
    BY <1>1, <2>1 DEF VerifierOnTop, TypeOK
  <2>8. ASSUME ~abandoned PROVE \A j \in Ids : requests'[j] = 0
    BY <1>1, <2>1, <2>2, <2>8, TopFacts DEF Inv, ChangeInv, TypeOK
  <2>9. ChangeInv'
    BY <1>1, <2>1, <2>8 DEF Inv, ChangeInv
  <2>10. ClosesWhenDone'
    BY <2>1 DEF Inv, ClosesWhenDone
  <2> QED BY <2>4, <2>5, <2>6, <2>7, <2>9, <2>10 DEF Inv
<1>4. CASE Applied(id)
  <2>0. applied' \in 0..MaxApplied /\ applied \in Nat
    BY <1>1, <1>4, BoundsAssumption DEF Applied, TypeOK
  <2>8. /\ left' \in {left, "code"} /\ unheard' \in BOOLEAN
        /\ left' = "code" \/ unheard'
        /\ ~unheard' => ~unheard
    <3>1. CASE left' = "code" /\ UNCHANGED unheard
      BY <1>1, <3>1 DEF TypeOK
    <3>2. CASE unheard' = TRUE /\ UNCHANGED left
      BY <3>2
    <3> QED BY <1>4, <3>1, <3>2 DEF Applied
  <2>1. /\ applied' = applied + 1 /\ applied' \in 0..MaxApplied /\ applied \in Nat
        /\ UNCHANGED <<stack, opened>>
        /\ left' \in {left, "code"} /\ unheard' \in BOOLEAN
        /\ left' = "code" \/ unheard'
        /\ ~unheard' => ~unheard
    BY <1>4, <2>0, <2>8 DEF Applied
  <2>2. TypeOK'
    BY <1>1, <2>1 DEF TypeOK
  <2>3. StackInv' /\ RequestInv' /\ Top' = Top
    <3>1. Top' = Top
      BY <2>1 DEF Top
    <3> QED BY <1>1, <1>2, <2>1, <3>1 DEF StackInv
  <2>4. VerifierOnTop'
    BY <1>1, <2>3 DEF Inv, VerifierOnTop, TypeOK
  <2>5. ASSUME ~abandoned PROVE left = "no" /\ \A j \in Ids : requests'[j] = 0
    BY <1>1, <2>5 DEF Inv, ChangeInv, TypeOK
  <2>6. ChangeInv'
    BY <1>1, <2>1, <2>5 DEF Inv, ChangeInv
  <2>7. ClosesWhenDone'
    BY <2>1 DEF ClosesWhenDone
  <2> QED BY <2>2, <2>3, <2>4, <2>6, <2>7 DEF Inv
<1>5. CASE NotDone(id)
  <2>1. UNCHANGED <<stack, opened, applied, left, unheard>>
    BY <1>5 DEF NotDone
  <2>2. TypeOK'
    BY <1>1, <2>1 DEF TypeOK
  <2>3. StackInv' /\ RequestInv' /\ Top' = Top
    BY <1>1, <1>2, <2>1 DEF StackInv, Top
  <2>4. VerifierOnTop' /\ ChangeInv' /\ ClosesWhenDone'
    BY <1>1, <2>1, <2>3 DEF Inv, VerifierOnTop, ChangeInv, ClosesWhenDone, TypeOK
  <2> QED BY <2>2, <2>3, <2>4 DEF Inv
<1> QED BY <1>3, <1>4, <1>5 DEF Answer

LEMMA BackInv == ASSUME Inv, Back PROVE Inv'
<1>1. /\ TypeOK /\ StackInv /\ RequestInv /\ left = "no"
      /\ UNCHANGED <<root, opened, submitting, requests, applied, unheard>>
      /\ abandoned' = (abandoned \/ requests[Top] > 0)
      /\ stack' = <<1>> /\ left' \in {"no", "user"}
  BY TopFacts DEF Inv, Back
<1>2. Top \in Ids /\ 1 \in Ids /\ Top' = 1 /\ stack' \in Seq(Ids) /\ Len(stack') = 1
  BY <1>1, TopFacts DEF Top
<1>3. TypeOK'
  BY <1>1, <1>2 DEF TypeOK
<1>4. StackInv' /\ RequestInv' /\ VerifierOnTop' /\ ClosesWhenDone'
  BY <1>1, <1>2 DEF StackInv, RequestInv, VerifierOnTop, ClosesWhenDone
<1>5. ASSUME ~abandoned' PROVE ~abandoned /\ \A id \in Ids : requests[id] = 0
  <2>1. ~abandoned /\ ~(requests[Top] > 0)
    BY <1>1, <1>5
  <2>2. \A id \in Ids : requests[id] > 0 => id = Top
    BY <2>1 DEF Inv, ChangeInv
  <2>3. \A id \in Ids : requests[id] \in 0..1
    BY <1>1 DEF TypeOK
  <2> QED BY <2>1, <2>2, <2>3
<1>6. ChangeInv'
  BY <1>1, <1>5 DEF Inv, ChangeInv
<1> QED BY <1>3, <1>4, <1>6 DEF Inv

LEMMA StutterInv == ASSUME Inv, UNCHANGED vars PROVE Inv'
BY DEF vars, Inv, TypeOK, StackInv, RequestInv, VerifierOnTop, ChangeInv, ClosesWhenDone, Top

LEMMA AccountAlways == Init /\ [][Next]_vars => []Inv
<1>1. Init => Inv
  BY InitInv
<1>2. Inv /\ [Next]_vars => Inv'
  BY SubmitInv, AnswerInv, BackInv, StutterInv DEF Next
<1> QED BY <1>1, <1>2, PTL

LEMMA AccountInvariant == Spec => []Inv
BY AccountAlways, PTL DEF Spec

-----------------------------------------------------------------------------
(* The stack, the pages and their requests keep their types. *)
THEOREM TypeCorrect == Spec => []TypeOK
<1>1. Inv => TypeOK
  BY DEF Inv
<1> QED BY <1>1, AccountInvariant, PTL

(* VerifyPhone is on top when its request is answered, so that its         *)
(* navigate opens a BindPhone page and returns to none.                    *)
THEOREM VerifierFirst == Spec => []VerifierOnTop
<1>1. Inv => VerifierOnTop
  BY DEF Inv
<1> QED BY <1>1, AccountInvariant, PTL

(* A second change needs an answer that was lost or a page that was left:  *)
(* submitting alone keeps a page from changing the account twice.          *)
THEOREM ChangesOnce == Spec => []ChangedOnce
<1>1. Inv => ChangedOnce
  BY DEF Inv, ChangeInv, ChangedOnce, TypeOK
<1> QED BY <1>1, AccountInvariant, PTL

(* No page calls the host's goReLogin or exit without a change made. *)
THEOREM ClosesDone == Spec => []ClosesWhenDone
<1>1. Inv => ClosesWhenDone
  BY DEF Inv
<1> QED BY <1>1, AccountInvariant, PTL

-----------------------------------------------------------------------------
(* The weak fairness of the answers, with its condition written out as     *)
(* what lets a request be answered: no page's request stays out for ever.  *)
FairAnswer(id) == []<>~(requests[id] > 0) \/ []<><<Answer(id)>>_vars

LEMMA ButtonReturn ==
    ASSUME NEW id \in Ids
    PROVE  Init /\ [][Next]_vars /\ FairAnswer(id)
             => (submitting[id] ~> (~submitting[id] \/ left # "no"))
<1>1. Inv => (submitting[id] => requests[id] > 0)
  BY DEF Inv, RequestInv
<1>2. Inv /\ <<Answer(id)>>_vars => (~submitting[id])'
  BY DEF Inv, TypeOK, Answer
<1> QED BY <1>1, <1>2, AccountAlways, PTL DEF FairAnswer

(* As requests end, with an answer or an error, the button of every page   *)
(* comes back, or the app is left.                                         *)
THEOREM ButtonsReturn ==
    Init /\ [][Next]_vars /\ (\A id \in Ids : FairAnswer(id)) => ButtonReturns
<1> SUFFICES ASSUME NEW id \in Ids
             PROVE  Init /\ [][Next]_vars /\ FairAnswer(id)
                      => (submitting[id] ~> (~submitting[id] \/ left # "no"))
  BY DEF ButtonReturns
<1> QED BY ButtonReturn
=============================================================================
