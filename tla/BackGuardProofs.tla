--------------------------- MODULE BackGuardProofs ---------------------------
(* Proofs about BackGuard, for every choice of its constants. *)
EXTENDS BackGuard, SequenceTheorems, TLAPS

(* The top of the stack is a route, and there are routes below an id only  *)
(* if it is on the stack.                                                  *)
LEMMA TopType ==
    ASSUME stack \in Seq(Route), Len(stack) >= 1
    PROVE  /\ Top \in Route /\ Len(stack) \in Nat /\ StateIndex \in Nat
           /\ \A i \in 1..Len(stack) : stack[i] \in Route
BY DEF Top, StateIndex

LEMMA BelowType ==
    ASSUME stack \in Seq(Route), NEW id
    PROVE  Below(id) \in Nat /\ (Len(stack) >= 1 => Below(id) < Len(stack))
<1>1. CASE Mounted(id)
  <2>1. PICK j \in DOMAIN stack : stack[j].id = id
    BY <1>1 DEF Mounted
  <2> DEFINE c == CHOOSE i \in DOMAIN stack : stack[i].id = id
  <2>2. c \in DOMAIN stack
    BY <2>1
  <2>3. DOMAIN stack = 1..Len(stack) /\ Len(stack) \in Nat
    OBVIOUS
  <2>4. Below(id) = c - 1
    BY <1>1 DEF Below
  <2> QED BY <2>2, <2>3, <2>4
<1>2. CASE ~Mounted(id)
  BY <1>2 DEF Below
<1> QED BY <1>1, <1>2

(* Cutting the stack down leaves a stack, with its root in place. *)
LEMMA CutToType ==
    ASSUME stack \in Seq(Route), Len(stack) >= 1, transitioning \in BOOLEAN,
           NEW n \in Nat, n <= Len(stack), CutTo(n)
    PROVE  /\ stack' \in Seq(Route) /\ Len(stack') >= 1 /\ transitioning' \in BOOLEAN
           /\ Len(stack') <= Len(stack)
           /\ \A i \in 1..Len(stack') : stack'[i] = stack[i]
<1>1. CASE n >= 1
  <2>1. stack' = SubSeq(stack, 1, n) /\ transitioning' = TRUE
    BY <1>1 DEF CutTo
  <2>2. SubSeq(stack, 1, n) \in Seq(Route) /\ Len(SubSeq(stack, 1, n)) = n
    BY <1>1
  <2>3. \A i \in 1..n : SubSeq(stack, 1, n)[i] = stack[i]
    BY <1>1
  <2> QED BY <1>1, <2>1, <2>2, <2>3
<1>2. CASE ~(n >= 1)
  BY <1>2 DEF CutTo
<1> QED BY <1>1, <1>2

-----------------------------------------------------------------------------
(* Type correctness, one lemma for each group of actions. *)

LEMMA SwipBackType ==
    ASSUME swipe \in BOOLEAN, NEW type, NEW b \in BOOLEAN
    PROVE  SwipBack(type, b) \in BOOLEAN
<1>1. (swipe /\ ~b) \in BOOLEAN
  OBVIOUS
<1>2. (type \in {"REPLACE", "COMPLETE_TRANSITION", "SET_PARAMS"}) \in BOOLEAN
  OBVIOUS
<1>3. CASE Len(stack) = 1 /\ ~b
  BY <1>2, <1>3, Zenon DEF SwipBack
<1>4. CASE ~(Len(stack) = 1 /\ ~b)
  BY <1>1, <1>4, Zenon DEF SwipBack
<1> QED BY <1>3, <1>4

LEMMA DefaultBackType ==
    ASSUME TypeOK, NEW type, DefaultBack(type)
    PROVE  /\ stack' \in Seq(Route) /\ Len(stack') >= 1
           /\ transitioning' \in BOOLEAN /\ swipe' \in BOOLEAN /\ exited' \in BOOLEAN
<1>1. Len(stack) - 1 \in Nat /\ Len(stack) - 1 <= Len(stack)
  BY DEF TypeOK
<1> QED BY <1>1, CutToType, SwipBackType DEF TypeOK, DefaultBack

LEMMA KeyedBackType ==
    ASSUME TypeOK, NEW id, KeyedBack(id)
    PROVE  /\ stack' \in Seq(Route) /\ Len(stack') >= 1
           /\ transitioning' \in BOOLEAN /\ swipe' \in BOOLEAN /\ exited' \in BOOLEAN
<1>1. Below(id) \in Nat /\ Below(id) <= Len(stack)
  BY BelowType DEF TypeOK
<1> QED BY <1>1, CutToType, SwipBackType DEF TypeOK, KeyedBack

LEMMA ResumeType ==
    ASSUME TypeOK, NEW id \in Ids, NEW index \in Nat, Resume(id, index)
    PROVE  /\ stack' \in Seq(Route) /\ Len(stack') >= 1
           /\ transitioning' \in BOOLEAN /\ swipe' \in BOOLEAN /\ exited' \in BOOLEAN
           /\ goBack' \in 0..MaxVisits /\ oStateIndex' \in Nat
BY KeyedBackType, BoundsAssumption DEF Resume, Ids

LEMMA NavigateType ==
    ASSUME TypeOK, NEW page, NEW id, [page |-> page, id |-> id] \in Route, Navigate(page, id)
    PROVE  /\ stack' \in Seq(Route) /\ Len(stack') >= 1
           /\ transitioning' \in BOOLEAN /\ swipe' \in BOOLEAN /\ overlap' \in BOOLEAN
<1>1. swipe' \in BOOLEAN /\ overlap' \in BOOLEAN
  BY SwipBackType DEF TypeOK, Navigate
<1>2. CASE OnStack(page)
  <2> DEFINE at == CHOOSE i \in DOMAIN stack : stack[i].page = page
  <2>1. at \in 1..Len(stack)
    BY <1>2 DEF OnStack, TypeOK
  <2>2. stack' = SubSeq(stack, 1, at) /\ transitioning' = (at # Len(stack) \/ transitioning)
    BY <1>2 DEF Navigate
  <2> HIDE DEF at
  <2>3. SubSeq(stack, 1, at) \in Seq(Route) /\ Len(SubSeq(stack, 1, at)) = at
    BY <2>1 DEF TypeOK
  <2> QED BY <1>1, <2>1, <2>2, <2>3 DEF TypeOK
<1>3. CASE ~OnStack(page)
  <2>1. stack' = Append(stack, [page |-> page, id |-> id]) /\ transitioning' = TRUE
    BY <1>3 DEF Navigate
  <2> QED BY <1>1, <2>1 DEF TypeOK
<1> QED BY <1>2, <1>3

LEMMA FormOnTop ==
    ASSUME TypeOK, Guarded
    PROVE  /\ Top.id \in Ids /\ StateIndex \in Nat
           /\ forms[Top.id] \in Form /\ Saved(forms[Top.id]) \in [Types -> Drafts]
<1>1. Top \in Route /\ StateIndex \in Nat
  BY TopType DEF TypeOK
<1>2. Top.id \in Ids
  BY <1>1 DEF Guarded, Route, Stateful
<1>3. forms[Top.id] \in Form
  BY <1>2 DEF TypeOK
<1> QED BY <1>1, <1>2, <1>3 DEF TypeOK, Saved, Form, Drafts

LEMMA BackType ==
    ASSUME TypeOK, NEW type, Back(type)
    PROVE  TypeOK'
<1>1. /\ overlap' \in BOOLEAN /\ viewer' \in BOOLEAN
      /\ UNCHANGED <<modal, pageVars>>
  BY DEF TypeOK, Back
<1>2. CASE Unguarded(type)
  BY <1>1, <1>2, DefaultBackType DEF TypeOK, Unguarded, guardVars, pageVars
<1>3. CASE PassGuard(type)
  BY <1>1, <1>3, DefaultBackType, BoundsAssumption DEF TypeOK, PassGuard, pageVars
<1>4. CASE AskLeave(type)
  <2>1. prompts' \in Seq([id : Ids, index : Nat])
    BY <1>4, FormOnTop DEF AskLeave, TypeOK
  <2>2. CASE Intercepts
    BY <1>1, <1>4, <2>1, <2>2 DEF AskLeave, TypeOK, pageVars, routeVars
  <2>3. CASE ~Intercepts
    BY <1>1, <1>4, <2>1, <2>3, DefaultBackType DEF AskLeave, TypeOK, pageVars
  <2> QED BY <2>2, <2>3
<1>5. CASE LeaveAtOnce
  <2>1. Guarded /\ stored' \in [Types -> Drafts] /\ prompts' = prompts
    BY <1>5, FormOnTop DEF LeaveAtOnce
  <2>2. CASE StateIndex = 0
    <3>1. /\ exited' = TRUE /\ swipe' = SwipBack("BACK", FALSE)
          /\ goBack' = 0 /\ oStateIndex' = 0 /\ UNCHANGED <<stack, transitioning>>
      BY <1>5, <2>2 DEF LeaveAtOnce
    <3>2. swipe' \in BOOLEAN /\ exited' \in BOOLEAN
      BY <3>1, SwipBackType DEF TypeOK
    <3>3. /\ UNCHANGED <<stack, transitioning, prompts, modal, visits, forms, activity>>
          /\ goBack' \in 0..MaxVisits /\ oStateIndex' \in Nat
      BY <1>1, <2>1, <3>1, BoundsAssumption DEF pageVars
    <3> QED BY <1>1, <2>1, <3>2, <3>3 DEF TypeOK
  <2>3. CASE StateIndex # 0
    <3>1. Resume(Top.id, StateIndex)
      BY <1>5, <2>3 DEF LeaveAtOnce
    <3> QED BY <1>1, <2>1, <3>1, FormOnTop, ResumeType DEF TypeOK, pageVars
  <2> QED BY <2>2, <2>3
<1> QED BY <1>2, <1>3, <1>4, <1>5 DEF Back

LEMMA LastAndFront ==
    ASSUME NEW S, NEW s \in Seq(S), s # <<>>
    PROVE  /\ Len(s) \in Nat /\ Len(s) >= 1
           /\ s[Len(s)] \in S /\ SubSeq(s, 1, Len(s) - 1) \in Seq(S)
           /\ Len(SubSeq(s, 1, Len(s) - 1)) = Len(s) - 1
<1>1. Len(s) \in Nat \ {0}
  BY EmptySeq
<1>2. s[Len(s)] \in S /\ \A i \in 1..(Len(s) - 1) : s[i] \in S
  BY <1>1
<1> DEFINE n == Len(s) - 1
<1>3. n \in Nat /\ 1 \in Int /\ n \in Int /\ \A i \in 1..n : s[i] \in S
  BY <1>1, <1>2
<1> HIDE DEF n
<1>4. /\ SubSeq(s, 1, n) \in Seq(S)
      /\ Len(SubSeq(s, 1, n)) = n
  BY <1>3, SubSeqProperties
<1> USE DEF n
<1> QED BY <1>1, <1>2, <1>4

LEMMA LeaveType ==
    ASSUME TypeOK, modal => prompts # <<>>, Leave
    PROVE  TypeOK'
<1>1. /\ TopPrompt \in [id : Ids, index : Nat]
      /\ prompts' \in Seq([id : Ids, index : Nat])
  BY LastAndFront DEF TypeOK, Leave, DropPrompt, TopPrompt
<1>2. modal' \in BOOLEAN
  BY DEF Leave, DropPrompt
<1>3. stored' \in [Types -> Drafts]
  BY <1>1 DEF Leave, TypeOK, Saved, Form, Drafts
<1>4. Resume(TopPrompt.id, TopPrompt.index)
  BY DEF Leave
<1> QED BY <1>1, <1>2, <1>3, <1>4, ResumeType DEF Leave, TypeOK, pageVars

LEMMA StayType ==
    ASSUME TypeOK, modal => prompts # <<>>, Stay
    PROVE  TypeOK'
<1>1. prompts' \in Seq([id : Ids, index : Nat])
  BY LastAndFront DEF TypeOK, Stay, DropPrompt
<1>2. modal' \in BOOLEAN
  BY DEF Stay, DropPrompt
<1> QED BY <1>1, <1>2 DEF Stay, TypeOK, routeVars, pageVars

(* The forms keep their type when a field of one of them is set. *)
LEMMA FormUpdate ==
    ASSUME TypeOK, NEW id \in Ids
    PROVE  /\ \A v \in Texts \cup {Empty} : [forms EXCEPT ![id].text = v] \in [Ids -> Form]
           /\ \A b \in BOOLEAN : [forms EXCEPT ![id].submitting = b] \in [Ids -> Form]
<1>1. forms \in [Ids -> Form] /\ forms[id] \in Form
  BY DEF TypeOK
<1>2. \A v \in Texts \cup {Empty} : [forms[id] EXCEPT !.text = v] \in Form
  BY <1>1 DEF Form
<1>3. \A b \in BOOLEAN : [forms[id] EXCEPT !.submitting = b] \in Form
  BY <1>1 DEF Form
<1> QED BY <1>1, <1>2, <1>3

LEMMA NavigationType ==
    ASSUME TypeOK,
           \/ \E p \in Pages : TapLink(p)
           \/ \E t \in Types : OpenForm(t)
           \/ OpenActivity
           \/ \E id \in Ids : Submitted(id)
    PROVE  TypeOK'
<1>1. CASE \E p \in Pages : TapLink(p)
  <2>1. PICK p \in Pages : TapLink(p)
    BY <1>1
  <2>2. [page |-> p, id |-> 0] \in Route
    BY <2>1 DEF TapLink, Route
  <2> QED BY <2>1, <2>2, NavigateType DEF TapLink, TypeOK, guardVars, pageVars
<1>2. CASE \E t \in Types : OpenForm(t)
  <2>1. PICK t \in Types : OpenForm(t)
    BY <1>2
  <2>2. visits + 1 \in Ids
    BY <2>1, BoundsAssumption DEF OpenForm, TypeOK, Ids
  <2>3. [page |-> "HeadlineForm", id |-> visits + 1] \in Route
    BY <2>2 DEF Route, Stateful
  <2>4. NewForm(t) \in Form
    BY DEF NewForm, Form
  <2> QED BY <2>1, <2>2, <2>3, <2>4, NavigateType DEF OpenForm, TypeOK, guardVars, Ids
<1>3. CASE OpenActivity
  <2>1. visits + 1 \in Ids
    BY <1>3, BoundsAssumption DEF OpenActivity, TypeOK, Ids
  <2>2. [page |-> "ActivityDetail", id |-> visits + 1] \in Route
    BY <2>1 DEF Route, Stateful
  <2> QED BY <1>3, <2>1, <2>2, NavigateType DEF OpenActivity, TypeOK, guardVars, Ids
<1>4. CASE \E id \in Ids : Submitted(id)
  <2>1. PICK id \in Ids : Submitted(id)
    BY <1>4
  <2>2. [page |-> "HeadlineSubmitted", id |-> 0] \in Route
    BY DEF Route, Stateful, Pages
  <2>3. forms' \in [Ids -> Form]
    BY <2>1, FormUpdate DEF Submitted
  <2> QED BY <2>1, <2>2, <2>3, NavigateType DEF Submitted, TypeOK, guardVars
<1> QED BY <1>1, <1>2, <1>3, <1>4

LEMMA FormStepType ==
    ASSUME TypeOK,
           \/ \E v \in Texts \cup {Empty} : InputChange(v)
           \/ Submit
           \/ \E id \in Ids : LoadStorage(id) \/ NotSubmitted(id)
           \/ \E t \in Types : Expire(t)
    PROVE  TypeOK'
<1> USE DEF TypeOK, guardVars, routeVars, pageVars
<1>1. CASE \E v \in Texts \cup {Empty} : InputChange(v)
  <2>1. PICK v \in Texts \cup {Empty} : InputChange(v)
    BY <1>1
  <2>2. Guarded /\ forms' = [forms EXCEPT ![Top.id].text = v]
    BY <2>1 DEF InputChange
  <2>3. forms' \in [Ids -> Form]
    BY <2>2, FormOnTop, FormUpdate
  <2> QED BY <2>1, <2>3 DEF InputChange
<1>2. CASE Submit
  BY <1>2, FormOnTop, FormUpdate DEF Submit
<1>3. CASE \E id \in Ids : LoadStorage(id)
  <2>1. PICK id \in Ids : LoadStorage(id)
    BY <1>3
  <2>2. forms[id] \in Form /\ stored[forms[id].type] \in Drafts
    BY DEF Form
  <2>3. forms' \in [Ids -> Form]
    BY <2>1, <2>2 DEF LoadStorage, Form, Drafts
  <2> QED BY <2>1, <2>3 DEF LoadStorage
<1>4. CASE \E id \in Ids : NotSubmitted(id)
  BY <1>4, FormUpdate DEF NotSubmitted
<1>5. CASE \E t \in Types : Expire(t)
  BY <1>5 DEF Expire, Drafts
<1> QED BY <1>1, <1>2, <1>3, <1>4, <1>5

LEMMA PageStepType ==
    ASSUME TypeOK, ShowAlert \/ CompleteTransition \/ Exit
                   \/ (\E id \in Ids : FetchActivity(id)) \/ ShowImages \/ HideImages
    PROVE  TypeOK'
<1> USE DEF TypeOK, guardVars, routeVars, pageVars
<1>1. CASE ShowAlert
  BY <1>1 DEF ShowAlert
<1>2. CASE CompleteTransition
  BY <1>2, SwipBackType DEF CompleteTransition
<1>3. CASE Exit
  BY <1>3 DEF Exit
<1>4. CASE \E id \in Ids : FetchActivity(id)
  <2>1. PICK id \in Ids : FetchActivity(id)
    BY <1>4
  <2>2. swipe' \in BOOLEAN
    BY <2>1, SwipBackType DEF FetchActivity
  <2>3. activity' \in [Ids -> {"none", "loading", "shown", "failed"}]
    BY <2>1 DEF FetchActivity
  <2> QED BY <2>1, <2>2, <2>3 DEF FetchActivity
<1>5. CASE ShowImages
  BY <1>5, SwipBackType DEF ShowImages
<1>6. CASE HideImages
  BY <1>6, SwipBackType DEF HideImages
<1> QED BY <1>1, <1>2, <1>3, <1>4, <1>5, <1>6

(* An alert covers the screen only while a prompt waits for an answer. *)
ModalInv == modal => prompts # <<>>
TypeInv  == TypeOK /\ ModalInv

LEMMA TypeInit == Init => TypeInv
<1> SUFFICES ASSUME Init PROVE TypeInv
  OBVIOUS
<1>1. PICK p \in Roots :
        /\ stack = <<[page |-> p, id |-> IF p \in Stateful THEN 1 ELSE 0]>>
        /\ visits = IF p \in Stateful THEN 1 ELSE 0
        /\ activity = [i \in Ids |-> IF i = 1 /\ p = "ActivityDetail" THEN "loading" ELSE "none"]
  BY DEF Init, Opened
<1>2. [page |-> p, id |-> IF p \in Stateful THEN 1 ELSE 0] \in Route
  BY RootsAssumption, BoundsAssumption DEF Route, Ids, Stateful, Pages
<1>3. stack \in Seq(Route) /\ Len(stack) >= 1
  BY <1>1, <1>2
<1>4. visits \in 0..MaxVisits /\ activity \in [Ids -> {"none", "loading", "shown", "failed"}]
  BY <1>1, BoundsAssumption DEF Ids
<1>5. forms \in [Ids -> Form] /\ stored \in [Types -> Drafts]
  BY DEF Init, NewForm, Form, Drafts
<1>6. /\ prompts = <<>> /\ prompts \in Seq([id : Ids, index : Nat])
      /\ goBack \in 0..MaxVisits /\ oStateIndex \in Nat
  BY BoundsAssumption DEF Init
<1> QED BY <1>3, <1>4, <1>5, <1>6 DEF Init, Opened, TypeInv, TypeOK, ModalInv

LEMMA ModalStep == TypeInv /\ [Next]_vars => ModalInv'
<1> SUFFICES ASSUME TypeInv, [Next]_vars PROVE ModalInv'
  OBVIOUS
<1> USE DEF TypeInv, ModalInv
<1>1. CASE HeaderPop \/ SystemBack
  <2>1. UNCHANGED modal /\ ~modal
    BY <1>1 DEF HeaderPop, SystemBack, Back, Touchable
  <2> QED BY <2>1
<1>2. CASE Leave \/ Stay
  <2>1. /\ prompts # <<>> /\ prompts' = SubSeq(prompts, 1, Len(prompts) - 1)
        /\ modal' = (Len(prompts) > 1)
    BY <1>2 DEF Leave, Stay, DropPrompt
  <2>2. Len(prompts') = Len(prompts) - 1
    BY <2>1, LastAndFront DEF TypeOK
  <2>3. Len(prompts) \in Nat /\ Len(<<>>) = 0
    BY DEF TypeOK
  <2>4. modal' => Len(prompts) > 1
    BY <2>1, Zenon
  <2>5. Len(prompts) > 1 => Len(prompts') # 0
    BY <2>2, <2>3
  <2> QED BY <2>3, <2>4, <2>5
<1>3. CASE ShowAlert
  BY <1>3 DEF ShowAlert, guardVars
<1>4. CASE UNCHANGED <<prompts, modal>>
  BY <1>4
<1> QED
  BY <1>1, <1>2, <1>3, <1>4
  DEF Next, vars, guardVars, TapLink, OpenForm, Expire, OpenActivity, CompleteTransition, Exit,
      InputChange, Submit, LoadStorage, Submitted, NotSubmitted, FetchActivity, ShowImages, HideImages

LEMMA TypeStep == TypeInv /\ [Next]_vars => TypeInv'
<1> SUFFICES ASSUME TypeInv, [Next]_vars PROVE TypeOK'
  BY ModalStep DEF TypeInv
<1>1. CASE HeaderPop \/ SystemBack
  BY <1>1, BackType DEF HeaderPop, SystemBack, TypeInv
<1>2. CASE Leave \/ Stay
  BY <1>2, LeaveType, StayType DEF TypeInv, ModalInv
<1>3. CASE UNCHANGED vars
  BY <1>3 DEF TypeInv, TypeOK, vars, guardVars, routeVars, pageVars
<1> QED BY <1>1, <1>2, <1>3, NavigationType, FormStepType, PageStepType DEF Next, TypeInv

(* The variables of router, guard and pages keep to their types. *)
THEOREM TypeCorrect == Spec => []TypeOK
<1>1. TypeInv => TypeOK
  BY DEF TypeInv
<1> QED BY <1>1, TypeInit, TypeStep, PTL DEF Spec

-----------------------------------------------------------------------------
(* The host's gesture. *)

SwipeInv == TypeInv /\ SwipeOnlyAtRoot

(* Whatever the action, the gesture is on after it only at the root. *)
LEMMA SwipBackAtRoot ==
    ASSUME SwipeOnlyAtRoot, NEW type, NEW b \in BOOLEAN, SwipBack(type, b)
    PROVE  Len(stack) = 1 /\ type # "NAVIGATE"
<1>1. Len(stack) = 1
  BY DEF SwipeOnlyAtRoot, SwipBack
<1>2. CASE b
  BY <1>2 DEF SwipBack
<1>3. CASE ~b
  <2>1. SwipBack(type, b) = IF type = "POP" THEN swipe
                            ELSE type \in {"REPLACE", "COMPLETE_TRANSITION", "SET_PARAMS"}
    BY <1>1, <1>3, Zenon DEF SwipBack
  <2> QED BY <1>1, <2>1
<1> QED BY <1>1, <1>2, <1>3

(* A stack that is cut down from a root alone is that root. *)
LEMMA SwipeAfterCut ==
    ASSUME SwipeInv, NEW n \in Nat, n <= Len(stack), CutTo(n),
           NEW type, NEW b \in BOOLEAN, swipe' = SwipBack(type, b)
    PROVE  SwipeOnlyAtRoot'
<1>1. Len(stack') >= 1 /\ Len(stack') <= Len(stack) /\ Len(stack') \in Nat
  BY CutToType DEF SwipeInv, TypeInv, TypeOK
<1>2. swipe' => Len(stack) = 1
  BY SwipBackAtRoot DEF SwipeInv
<1> QED BY <1>1, <1>2 DEF SwipeOnlyAtRoot

LEMMA SwipeBack ==
    ASSUME SwipeInv, NEW type, Back(type)
    PROVE  SwipeOnlyAtRoot'
<1>1. Len(stack) - 1 \in Nat /\ Len(stack) - 1 <= Len(stack)
  BY DEF SwipeInv, TypeInv, TypeOK
<1>2. DefaultBack(type) => SwipeOnlyAtRoot'
  BY <1>1, SwipeAfterCut DEF DefaultBack
<1>3. \A id : Below(id) \in Nat /\ Below(id) <= Len(stack)
  BY BelowType DEF SwipeInv, TypeInv, TypeOK
<1>4. ASSUME NEW id, NEW index, Resume(id, index) PROVE SwipeOnlyAtRoot'
  BY <1>3, <1>4, SwipeAfterCut DEF Resume, KeyedBack
<1>5. CASE Unguarded(type) \/ PassGuard(type)
  BY <1>2, <1>5 DEF Unguarded, PassGuard
<1>6. CASE AskLeave(type)
  BY <1>2, <1>6 DEF AskLeave, routeVars, SwipeInv, SwipeOnlyAtRoot
<1>7. CASE LeaveAtOnce
  <2>1. CASE StateIndex = 0
    BY <1>7, <2>1 DEF LeaveAtOnce, StateIndex, SwipeOnlyAtRoot, SwipeInv, TypeInv, TypeOK
  <2>2. CASE StateIndex # 0
    BY <1>4, <1>7, <2>2 DEF LeaveAtOnce
  <2> QED BY <2>1, <2>2
<1> QED BY <1>5, <1>6, <1>7 DEF Back

LEMMA SwipeStep == SwipeInv /\ [Next]_vars => SwipeInv'
<1> SUFFICES ASSUME SwipeInv, [Next]_vars PROVE SwipeOnlyAtRoot'
  BY TypeStep DEF SwipeInv
<1>1. CASE HeaderPop \/ SystemBack
  BY <1>1, SwipeBack DEF HeaderPop, SystemBack
<1>2. CASE Leave
  <2>1. Resume(TopPrompt.id, TopPrompt.index)
    BY <1>2 DEF Leave
  <2>2. Below(TopPrompt.id) \in Nat /\ Below(TopPrompt.id) <= Len(stack)
    BY BelowType DEF SwipeInv, TypeInv, TypeOK
  <2> QED BY <2>1, <2>2, SwipeAfterCut DEF Resume, KeyedBack
<1>3. ASSUME NEW page, NEW id, Navigate(page, id) PROVE SwipeOnlyAtRoot'
  <2>1. ~SwipBack("NAVIGATE", FALSE)
    BY SwipBackAtRoot DEF SwipeInv
  <2>2. ~swipe'
    BY <1>3, <2>1, Zenon DEF Navigate
  <2> QED BY <2>2 DEF SwipeOnlyAtRoot
<1>4. CASE CompleteTransition \/ (\E id \in Ids : FetchActivity(id)) \/ ShowImages \/ HideImages
  <2>1. ASSUME UNCHANGED stack, NEW type, NEW b \in BOOLEAN, swipe' => SwipBack(type, b)
        PROVE  SwipeOnlyAtRoot'
    BY <2>1, SwipBackAtRoot DEF SwipeInv, SwipeOnlyAtRoot
  <2>2. CASE CompleteTransition
    BY <2>1, <2>2, Zenon DEF CompleteTransition
  <2>3. CASE \E id \in Ids : FetchActivity(id)
    <3>1. PICK id \in Ids : FetchActivity(id)
      BY <2>3
    <3>2. UNCHANGED stack
      BY <3>1 DEF FetchActivity
    <3>3. CASE swipe' = SwipBack("SET_PARAMS", FALSE)
      BY <2>1, <3>2, <3>3, Zenon
    <3>4. CASE UNCHANGED swipe
      BY <3>2, <3>4 DEF SwipeInv, SwipeOnlyAtRoot
    <3> QED BY <3>1, <3>3, <3>4 DEF FetchActivity
  <2>4. CASE ShowImages
    BY <2>1, <2>4, Zenon DEF ShowImages
  <2>5. CASE HideImages
    BY <2>1, <2>5, Zenon DEF HideImages
  <2> QED BY <1>4, <2>2, <2>3, <2>4, <2>5
<1>5. CASE UNCHANGED <<stack, swipe>>
  BY <1>5 DEF SwipeInv, SwipeOnlyAtRoot
<1> QED
  BY <1>1, <1>2, <1>3, <1>4, <1>5
  DEF Next, vars, routeVars, Stay, ShowAlert, TapLink, OpenForm, OpenActivity, Submitted, Exit,
      InputChange, Submit, LoadStorage, NotSubmitted, Expire

(* The host's swipe-back gesture is only ever enabled on the first page. *)
THEOREM SwipeSafe == Spec => []SwipeOnlyAtRoot
<1>1. Init => SwipeInv
  BY TypeInit DEF Init, Opened, SwipeInv, SwipeOnlyAtRoot
<1>2. SwipeInv => SwipeOnlyAtRoot
  BY DEF SwipeInv
<1> QED BY <1>1, <1>2, SwipeStep, PTL DEF Spec
-----------------------------------------------------------------------------
(* The back guard: until a back or a page comes while an alert is pending, *)
(* nothing is left in goBack and oStateIndex and there is one alert at     *)
(* most; while there is one, its form is on top and the app was left only  *)
(* if that form is the root.                                               *)
PendingInv ==
    prompts # <<>> => /\ Len(prompts) = 1 /\ Guarded /\ prompts[1].id = Top.id
                      /\ exited => Len(stack) = 1
GuardInv ==
    SwipeInv /\ (~overlap => goBack = 0 /\ oStateIndex = 0 /\ PendingInv)

LEMMA GuardBack ==
    ASSUME GuardInv, NEW type, Back(type), ~overlap'
    PROVE  goBack' = 0 /\ oStateIndex' = 0 /\ PendingInv'
<1>1. /\ ~overlap /\ prompts = <<>> /\ goBack = 0 /\ oStateIndex = 0 /\ ~exited
      /\ prompts \in Seq([id : Ids, index : Nat])
  BY DEF Back, Touchable, GuardInv, SwipeInv, TypeInv, TypeOK
<1>2. CASE Unguarded(type)
  BY <1>1, <1>2 DEF Unguarded, guardVars, PendingInv
<1>3. CASE PassGuard(type)
  BY <1>1, <1>3 DEF PassGuard
<1>4. CASE AskLeave(type)
  <2>1. Guarded /\ goBack' = 0 /\ oStateIndex' = 0
    BY <1>1, <1>4 DEF AskLeave
  <2>2. Len(prompts') = 1 /\ prompts'[1].id = Top.id
    BY <1>1, <1>4, FormOnTop DEF AskLeave, GuardInv, SwipeInv, TypeInv
  <2>3. UNCHANGED stack /\ (exited' => Len(stack) = 1)
    <3>1. CASE Intercepts
      BY <1>1, <1>4, <3>1 DEF AskLeave, routeVars
    <3>2. CASE ~Intercepts
      <4>1. Len(stack) = 1
        BY <1>1, <3>2 DEF Intercepts, StateIndex, GuardInv, SwipeInv, TypeInv, TypeOK
      <4> QED BY <1>4, <3>2, <4>1 DEF AskLeave, DefaultBack, CutTo
    <3> QED BY <3>1, <3>2
  <2>4. Guarded' /\ Top' = Top
    BY <2>1, <2>3 DEF Guarded, Top
  <2> QED BY <2>1, <2>2, <2>3, <2>4 DEF PendingInv
<1>5. CASE LeaveAtOnce
  BY <1>1, <1>5 DEF LeaveAtOnce, Resume, PendingInv
<1> QED BY <1>2, <1>3, <1>4, <1>5 DEF Back

LEMMA GuardPrompt ==
    ASSUME GuardInv, Leave \/ Stay, ~overlap'
    PROVE  goBack' = 0 /\ oStateIndex' = 0 /\ PendingInv'
<1>1. /\ ~overlap /\ prompts # <<>> /\ Guarded /\ goBack = 0 /\ oStateIndex = 0
      /\ Len(prompts) = 1
  BY DEF Leave, Stay, GuardInv, PendingInv, SwipeInv, TypeInv, ModalInv
<1>2. prompts' = SubSeq(prompts, 1, Len(prompts) - 1)
  BY DEF Leave, Stay, DropPrompt
<1>3. Len(prompts') = 0 /\ prompts' \in Seq([id : Ids, index : Nat])
  BY <1>1, <1>2, LastAndFront DEF GuardInv, SwipeInv, TypeInv, TypeOK
<1>4. prompts' = <<>>
  BY <1>3, EmptySeq
<1>5. goBack' = 0 /\ oStateIndex' = 0
  BY <1>1 DEF Leave, Stay, Resume
<1> QED BY <1>4, <1>5 DEF PendingInv

LEMMA GuardNavigate ==
    ASSUME GuardInv, NEW page, NEW id, Navigate(page, id), UNCHANGED guardVars, ~overlap'
    PROVE  goBack' = 0 /\ oStateIndex' = 0 /\ PendingInv'
<1>1. ~overlap /\ prompts = <<>>
  BY DEF Navigate, GuardInv, SwipeInv, TypeInv, TypeOK
<1> QED BY <1>1 DEF guardVars, GuardInv, PendingInv

LEMMA GuardStep == GuardInv /\ [Next]_vars => GuardInv'
<1> SUFFICES ASSUME GuardInv, [Next]_vars, ~overlap'
             PROVE  goBack' = 0 /\ oStateIndex' = 0 /\ PendingInv'
  BY SwipeStep DEF GuardInv
<1>1. CASE HeaderPop \/ SystemBack
  BY <1>1, GuardBack DEF HeaderPop, SystemBack
<1>2. CASE Leave \/ Stay
  BY <1>2, GuardPrompt
<1>3. CASE Exit
  <2>1. ~overlap /\ UNCHANGED <<stack, guardVars>>
    BY <1>3 DEF Exit
  <2>2. Guarded => Len(stack) = 1
    BY <1>3 DEF Exit, Guarded, GuardInv, SwipeInv, SwipeOnlyAtRoot
  <2>3. Guarded' = Guarded /\ Top' = Top
    BY <2>1 DEF Guarded, Top
  <2> QED BY <2>1, <2>2, <2>3 DEF GuardInv, PendingInv, guardVars
<1>4. CASE UNCHANGED <<stack, exited, guardVars, overlap>>
  BY <1>4 DEF GuardInv, PendingInv, Guarded, Top, guardVars
<1> QED
  BY <1>1, <1>2, <1>3, <1>4, GuardNavigate
  DEF Next, vars, routeVars, ShowAlert, TapLink, OpenForm, OpenActivity, Submitted,
      InputChange, Submit, LoadStorage, NotSubmitted, Expire,
      CompleteTransition, FetchActivity, ShowImages, HideImages

LEMMA GuardAlways == Spec => []GuardInv
<1>1. Init => GuardInv
  BY TypeInit DEF Init, Opened, GuardInv, SwipeInv, SwipeOnlyAtRoot, PendingInv
<1> QED BY <1>1, GuardStep, PTL DEF Spec

(* goBack and oStateIndex are left set only by an overlap of requests. *)
THEOREM StaleGuardExplained == Spec => []StaleOnlyAfterOverlap
<1>1. GuardInv => StaleOnlyAfterOverlap
  BY DEF GuardInv, StaleOnlyAfterOverlap
<1> QED BY <1>1, GuardAlways, PTL

(* A pending alert keeps its form on top and the app open, unless the form *)
(* is the first page.                                                      *)
THEOREM PendingKept == Spec => []PendingKeepsPage
<1>1. GuardInv => PendingKeepsPage
  <2> SUFFICES ASSUME GuardInv, prompts # <<>>, ~overlap, stack[1].page # "HeadlineForm"
               PROVE  Guarded /\ ~exited
    BY DEF PendingKeepsPage
  <2>1. Guarded /\ (exited => Len(stack) = 1)
    BY DEF GuardInv, PendingInv
  <2> QED BY <2>1 DEF Guarded, Top
<1> QED BY <1>1, GuardAlways, PTL
-----------------------------------------------------------------------------
(* The draft.  The pages lead to each other in one direction only, so the  *)
(* stack is sorted by the rank of its pages: a page is on it at most once, *)
(* and the form on top is the only one there is.                           *)
Rank(page) ==
    CASE page = "HeadlineIndex"             -> 1
      [] page = "HeadlineSelect"            -> 2
      [] page = "HeadlineForm"              -> 3
      [] page = "ActivitysSignUpManagement" -> 4
      [] page = "ActivityDetail"            -> 5
      [] page = "ActivityJoiners"           -> 6
      [] page = "WebPage"                   -> 7
      [] OTHER                              -> 8
Sorted ==
    \A i, j \in 1..Len(stack) : i < j => Rank(stack[i].page) < Rank(stack[j].page)

LEMMA RankType ==
    /\ \A page \in Pages : Rank(page) \in 1..8
    /\ \A page \in Pages : Rank(page) = 8 => page = "HeadlineSubmitted"
    /\ \A page \in Pages : \A next \in Links(page) : Rank(page) < Rank(next)
    /\ Rank("HeadlineSubmitted") = 8
BY DEF Rank, Pages, Links

LEMMA RoutePages ==
    ASSUME TypeOK
    PROVE  /\ Len(stack) \in Nat \ {0} /\ DOMAIN stack = 1..Len(stack)
           /\ \A i \in 1..Len(stack) : stack[i].page \in Pages
<1>1. \A r \in Route : r.page \in Pages
  BY DEF Route, Stateful, Pages
<1> QED BY <1>1 DEF TypeOK

LEMMA OnlyTopForm ==
    ASSUME TypeOK, Sorted, Guarded, NEW id, FormMounted(id)
    PROVE  id = Top.id
<1>1. PICK i \in 1..Len(stack) : stack[i] = [page |-> "HeadlineForm", id |-> id]
  BY RoutePages DEF FormMounted
<1>2. Len(stack) \in 1..Len(stack) /\ i \in Nat /\ i <= Len(stack)
  BY RoutePages
<1>3. Rank(stack[i].page) = Rank(stack[Len(stack)].page) /\ Rank(stack[i].page) \in Nat
  BY <1>1, RankType DEF Guarded, Top, Pages
<1>4. ~(i < Len(stack))
  BY <1>2, <1>3 DEF Sorted
<1>5. i = Len(stack)
  BY <1>2, <1>4
<1> QED BY <1>1, <1>5 DEF Top

(* A cut leaves a sorted stack, and cuts no form off when it takes away    *)
(* only a page that is none.                                               *)
LEMMA SortedCut ==
    ASSUME TypeOK, Sorted, NEW n \in Nat, n <= Len(stack), CutTo(n)
    PROVE  Sorted'
<1>0. stack \in Seq(Route) /\ Len(stack) >= 1 /\ transitioning \in BOOLEAN
  BY DEF TypeOK
<1>1. /\ stack' \in Seq(Route) /\ Len(stack') <= Len(stack)
      /\ \A i \in 1..Len(stack') : stack'[i] = stack[i]
  BY <1>0, CutToType
<1>2. \A i \in 1..Len(stack') : i \in 1..Len(stack)
  BY <1>1, RoutePages
<1> QED BY <1>1, <1>2 DEF Sorted

LEMMA CutSparesForm ==
    ASSUME TypeOK, ~Guarded, CutTo(Len(stack) - 1), NEW id, FormMounted(id)
    PROVE  FormMounted(id)'
<1>1. PICK i \in 1..Len(stack) : stack[i] = [page |-> "HeadlineForm", id |-> id]
  BY RoutePages DEF FormMounted
<1>2. i # Len(stack)
  BY <1>1 DEF Guarded, Top
<1>0. Len(stack) \in Nat \ {0}
  BY RoutePages
<1>3. i \in 1..(Len(stack) - 1) /\ Len(stack) - 1 >= 1
  BY <1>0, <1>2
<1>4. stack' = SubSeq(stack, 1, Len(stack) - 1)
  BY <1>3 DEF CutTo
<1>5. stack'[i] = stack[i] /\ i \in DOMAIN stack'
  <2> DEFINE n == Len(stack) - 1
  <2>1. n \in Int /\ 1 \in Int /\ \A k \in 1..n : stack[k] \in Route
    BY RoutePages DEF TypeOK
  <2>2. i \in 1..n /\ stack' = SubSeq(stack, 1, n)
    BY <1>3, <1>4
  <2> HIDE DEF n
  <2> QED BY <2>1, <2>2, SubSeqProperties DEF TypeOK
<1> QED BY <1>1, <1>5 DEF FormMounted

(* A page opened from the page on top, or the page of a successful         *)
(* application, goes on top of the stack.                                  *)
LEMMA NavigateUp ==
    ASSUME TypeOK, Sorted, NEW page \in Pages, NEW id, Navigate(page, id),
           page \in Links(Top.page) \/ page = "HeadlineSubmitted"
    PROVE  Sorted' /\ \A f : FormMounted(f) => FormMounted(f)'
<1>1. /\ Len(stack) \in Nat \ {0} /\ DOMAIN stack = 1..Len(stack)
      /\ \A i \in 1..Len(stack) : stack[i].page \in Pages /\ Rank(stack[i].page) \in 1..8
      /\ Rank(page) \in 1..8
  BY RoutePages, RankType
<1>2. \/ Rank(Top.page) < Rank(page)
      \/ Rank(Top.page) = 8 /\ Top.page = "HeadlineSubmitted" /\ page = "HeadlineSubmitted"
  <2>1. Top.page \in Pages
    BY <1>1 DEF Top
  <2> QED BY <2>1, RankType
<1>3. \A i \in 1..Len(stack) : i < Len(stack) => Rank(stack[i].page) < Rank(Top.page)
  BY <1>1 DEF Sorted, Top
<1>4. CASE OnStack(page)
  <2> DEFINE at == CHOOSE i \in DOMAIN stack : stack[i].page = page
  <2>1. at \in 1..Len(stack) /\ stack[at].page = page
    BY <1>1, <1>4 DEF OnStack
  <2>2. stack' = SubSeq(stack, 1, at)
    BY <1>4 DEF Navigate
  <2> HIDE DEF at
  <2>3. at = Len(stack)
    <3>1. Len(stack) \in Nat /\ at \in 1..Len(stack)
      BY <1>1, <2>1
    <3>2. Rank(Top.page) \in 1..8 /\ Rank(page) \in 1..8
      BY <1>1 DEF Top
    <3>3. ~(at < Len(stack))
      BY <1>2, <1>3, <2>1, <3>2
    <3> QED BY <3>1, <3>3
  <2>4. stack' = stack
    BY <2>2, <2>3 DEF TypeOK
  <2> QED BY <2>4 DEF Sorted, FormMounted
<1>5. CASE ~OnStack(page)
  <2>1. stack' = Append(stack, [page |-> page, id |-> id])
    BY <1>5 DEF Navigate
  <2>2. /\ Len(stack') = Len(stack) + 1 /\ DOMAIN stack' = 1..(Len(stack) + 1)
        /\ \A i \in 1..Len(stack) : stack'[i] = stack[i]
        /\ stack'[Len(stack) + 1].page = page
    BY <2>1 DEF TypeOK
  <2>3. Rank(Top.page) < Rank(page)
    BY <1>1, <1>2, <1>5 DEF OnStack, Top
  <2>4. Sorted'
    <3> SUFFICES ASSUME NEW i \in 1..Len(stack'), NEW j \in 1..Len(stack'), i < j
                 PROVE  Rank(stack'[i].page) < Rank(stack'[j].page)
      BY DEF Sorted
    <3>1. i \in 1..Len(stack) /\ stack'[i] = stack[i]
      BY <1>1, <2>2
    <3>2. CASE j = Len(stack) + 1
      <4>1. Rank(stack[i].page) <= Rank(Top.page) /\ Rank(Top.page) \in 1..8
        <5>1. Rank(Top.page) \in 1..8 /\ Rank(stack[i].page) \in 1..8
          BY <1>1, <3>1 DEF Top
        <5>2. CASE i = Len(stack)
          BY <5>1, <5>2 DEF Top
        <5>3. CASE i # Len(stack)
          <6>1. i < Len(stack)
            BY <1>1, <3>1, <5>3
          <6> QED BY <1>3, <3>1, <5>1, <6>1
        <5> QED BY <5>2, <5>3
      <4> QED BY <1>1, <2>2, <2>3, <3>1, <3>2, <4>1
    <3>3. CASE j # Len(stack) + 1
      <4>1. j \in 1..Len(stack) /\ stack'[j] = stack[j]
        BY <1>1, <2>2, <3>3
      <4> QED BY <3>1, <4>1 DEF Sorted
    <3> QED BY <3>2, <3>3
  <2>5. \A f : FormMounted(f) => FormMounted(f)'
    BY <1>1, <2>2 DEF FormMounted
  <2> QED BY <2>4, <2>5
<1> QED BY <1>4, <1>5
LEMMA SortedBack ==
    ASSUME TypeOK, Sorted, NEW type, Back(type)
    PROVE  Sorted'
<1>1. Len(stack) - 1 \in Nat /\ Len(stack) - 1 <= Len(stack)
  BY RoutePages
<1>2. DefaultBack(type) => Sorted'
  BY <1>1, SortedCut DEF DefaultBack
<1>3. \A id : Below(id) \in Nat /\ Below(id) <= Len(stack)
  BY BelowType DEF TypeOK
<1>4. ASSUME NEW id, NEW index, Resume(id, index) PROVE Sorted'
  BY <1>3, <1>4, SortedCut DEF Resume, KeyedBack
<1>5. CASE Unguarded(type) \/ PassGuard(type)
  BY <1>2, <1>5 DEF Unguarded, PassGuard
<1>6. CASE AskLeave(type)
  BY <1>2, <1>6 DEF AskLeave, routeVars, Sorted
<1>7. CASE LeaveAtOnce
  BY <1>4, <1>7 DEF LeaveAtOnce, Sorted
<1> QED BY <1>5, <1>6, <1>7 DEF Back

LEMMA NavigationUp ==
    ASSUME TypeOK, Sorted,
           \/ \E p \in Pages : TapLink(p)
           \/ \E t \in Types : OpenForm(t)
           \/ OpenActivity
           \/ \E id \in Ids : Submitted(id)
    PROVE  Sorted' /\ \A f : FormMounted(f) => FormMounted(f)'
<1>1. "HeadlineForm" \in Pages /\ "ActivityDetail" \in Pages /\ "HeadlineSubmitted" \in Pages
  BY DEF Pages
<1>2. CASE \E p \in Pages : TapLink(p)
  BY <1>2, NavigateUp DEF TapLink
<1>3. CASE \E t \in Types : OpenForm(t)
  BY <1>1, <1>3, NavigateUp DEF OpenForm
<1>4. CASE OpenActivity
  BY <1>1, <1>4, NavigateUp DEF OpenActivity
<1>5. CASE \E id \in Ids : Submitted(id)
  BY <1>1, <1>5, NavigateUp DEF Submitted
<1> QED BY <1>2, <1>3, <1>4, <1>5

DraftInv == GuardInv /\ Sorted

LEMMA DraftStep == DraftInv /\ [Next]_vars => DraftInv'
<1> SUFFICES ASSUME DraftInv, [Next]_vars PROVE Sorted'
  BY GuardStep DEF DraftInv
<1>0. TypeOK /\ Sorted
  BY DEF DraftInv, GuardInv, SwipeInv, TypeInv
<1>1. CASE HeaderPop \/ SystemBack
  BY <1>0, <1>1, SortedBack DEF HeaderPop, SystemBack
<1>2. CASE Leave
  <2>1. CutTo(Below(TopPrompt.id))
    BY <1>2 DEF Leave, Resume, KeyedBack
  <2>2. Below(TopPrompt.id) \in Nat /\ Below(TopPrompt.id) <= Len(stack)
    BY <1>0, BelowType DEF TypeOK
  <2> QED BY <1>0, <2>1, <2>2, SortedCut
<1>3. CASE UNCHANGED stack
  BY <1>0, <1>3 DEF Sorted
<1> QED
  BY <1>0, <1>1, <1>2, <1>3, NavigationUp
  DEF Next, vars, routeVars, Stay, ShowAlert, Exit, InputChange, Submit, LoadStorage,
      NotSubmitted, Expire, CompleteTransition, FetchActivity, ShowImages, HideImages

LEMMA SavedText ==
    ASSUME TypeOK, Guarded, stored' = Saved(forms[Top.id])
    PROVE  stored'[forms[Top.id].type] = forms[Top.id].text
<1>1. forms[Top.id] \in Form
  BY FormOnTop
<1>2. forms[Top.id].type \in Types
  BY <1>1 DEF Form
<1> QED BY <1>2 DEF TypeOK, Saved

LEMMA KeepsDraftStep == DraftInv /\ [Next]_vars => [overlap' \/ KeepsDraft]_vars
<1> SUFFICES ASSUME DraftInv, [Next]_vars, ~overlap', NEW id \in Ids,
                    FormMounted(id), ~FormMounted(id)'
             PROVE  stored'[forms[id].type] = forms[id].text
  BY DEF KeepsDraft, Leaves
<1>0. TypeOK /\ Sorted
  BY DEF DraftInv, GuardInv, SwipeInv, TypeInv
<1>1. stack' # stack
  BY DEF FormMounted
<1>2. ASSUME NEW type, Back(type) PROVE stored'[forms[id].type] = forms[id].text
  <2>1. ~overlap /\ goBack = 0 /\ oStateIndex = 0
    BY <1>0, <1>2 DEF Back, DraftInv, GuardInv, TypeOK
  <2>2. ~Unguarded(type)
    BY <1>0, CutSparesForm DEF Unguarded, DefaultBack
  <2>3. ~AskLeave(type)
    <3>1. CASE Intercepts
      BY <1>1, <3>1 DEF AskLeave, routeVars
    <3>2. CASE ~Intercepts
      <4>1. Len(stack) = 1
        BY <1>0, <2>1, <3>2, RoutePages DEF Intercepts, StateIndex
      <4>2. ~CutTo(Len(stack) - 1)
        <5>1. ~(Len(stack) - 1 >= 1)
          BY <4>1
        <5> QED BY <1>1, <5>1, Zenon DEF CutTo
      <4> QED BY <3>2, <4>2, Zenon DEF AskLeave, DefaultBack
    <3> QED BY <3>1, <3>2
  <2>4. LeaveAtOnce
    BY <1>2, <2>1, <2>2, <2>3 DEF Back, PassGuard
  <2>5. Guarded /\ stored' = Saved(forms[Top.id])
    BY <2>4 DEF LeaveAtOnce
  <2> QED BY <1>0, <2>5, OnlyTopForm, SavedText
<1>3. CASE Leave
  <2>1. ~overlap /\ prompts # <<>>
    BY <1>3 DEF Leave, DraftInv, GuardInv, SwipeInv, TypeInv, ModalInv
  <2>2. Guarded /\ TopPrompt.id = Top.id
    BY <2>1 DEF DraftInv, GuardInv, PendingInv, TopPrompt
  <2>3. stored' = Saved(forms[Top.id])
    BY <1>3, <2>2 DEF Leave
  <2> QED BY <1>0, <2>2, <2>3, OnlyTopForm, SavedText
<1> QED
  BY <1>0, <1>1, <1>2, <1>3, NavigationUp
  DEF Next, vars, routeVars, HeaderPop, SystemBack, Stay, ShowAlert, Exit, InputChange, Submit,
      LoadStorage, NotSubmitted, Expire, CompleteTransition, FetchActivity, ShowImages, HideImages

LEMMA DraftInit == Init => DraftInv
<1> SUFFICES ASSUME Init PROVE DraftInv
  OBVIOUS
<1>1. TypeInv
  BY TypeInit
<1>2. GuardInv
  BY <1>1 DEF Init, Opened, GuardInv, SwipeInv, SwipeOnlyAtRoot, PendingInv
<1>3. Len(stack) = 1
  BY DEF Init, Opened
<1>4. Sorted
  BY <1>3 DEF Sorted
<1> QED BY <1>2, <1>4 DEF DraftInv

(* Whatever way leads off the form, its text was saved, unless a back or a *)
(* page came while an alert was pending.                                   *)
THEOREM DraftSafe == Spec => DraftKept
<1> QED BY DraftInit, DraftStep, KeepsDraftStep, PTL DEF Spec, DraftKept
-----------------------------------------------------------------------------
(* The image browser.  The pages of the activity flow never meet those of  *)
(* the headline flow on the stack, so no alert and no answer to an         *)
(* application moves the stack under a picture; and when the activity page *)
(* is the root there is no other whose data could come late.               *)
ActivityPages == {"ActivitysSignUpManagement", "ActivityDetail", "ActivityJoiners"}

FlowInv ==
    /\ \A i \in 1..Len(stack) : stack[i].page \in ActivityPages <=> stack[1].page \in ActivityPages
    /\ stack[1].page \in ActivityPages
         => prompts = <<>> /\ \A id \in Ids : ~forms[id].submitting
    /\ stack[1].page = "ActivityDetail"
         => /\ stack[1].id = 1
            /\ \A i \in 1..Len(stack) : stack[i].page # "ActivitysSignUpManagement"
            /\ \A id \in Ids : id # 1 => activity[id] = "none"

(* While a picture is browsed nothing moves: its page is on top, with its  *)
(* data, and no transition is on whose end could enable the gesture.       *)
ViewerShown ==
    viewer => ~swipe /\ ~transitioning /\ Top.page = "ActivityDetail" /\ activity[Top.id] = "shown"

ViewerInv == TypeInv /\ FlowInv /\ ViewerShown

(* What a step does to the stack: it cuts it, or puts a page on top. *)
Shrunk == /\ Len(stack') \in 1..Len(stack)
          /\ \A i \in 1..Len(stack') : stack'[i] = stack[i]
Grown(page) == /\ Len(stack') = Len(stack) + 1
               /\ \A i \in 1..Len(stack) : stack'[i] = stack[i]
               /\ stack'[Len(stack) + 1].page = page

LEMMA ShrunkByCut ==
    ASSUME TypeOK, NEW n \in Nat, n <= Len(stack), CutTo(n)
    PROVE  Shrunk
<1>1. stack \in Seq(Route) /\ Len(stack) >= 1 /\ transitioning \in BOOLEAN
  BY DEF TypeOK
<1>2. /\ stack' \in Seq(Route) /\ Len(stack') >= 1 /\ Len(stack') <= Len(stack)
      /\ \A i \in 1..Len(stack') : stack'[i] = stack[i]
  BY <1>1, CutToType
<1> QED BY <1>1, <1>2 DEF Shrunk

LEMMA ShrunkByNothing == ASSUME TypeOK, UNCHANGED stack PROVE Shrunk
BY DEF TypeOK, Shrunk

LEMMA ShrunkByBack == ASSUME TypeOK, NEW type, Back(type) PROVE Shrunk
<1>1. Len(stack) - 1 \in Nat /\ Len(stack) - 1 <= Len(stack)
  BY RoutePages
<1>2. DefaultBack(type) => Shrunk
  BY <1>1, ShrunkByCut DEF DefaultBack
<1>3. \A id : Below(id) \in Nat /\ Below(id) <= Len(stack)
  BY BelowType DEF TypeOK
<1>4. ASSUME NEW id, NEW index, Resume(id, index) PROVE Shrunk
  BY <1>3, <1>4, ShrunkByCut DEF Resume, KeyedBack
<1>5. CASE Unguarded(type) \/ PassGuard(type)
  BY <1>2, <1>5 DEF Unguarded, PassGuard
<1>6. CASE AskLeave(type)
  BY <1>2, <1>6, ShrunkByNothing DEF AskLeave, routeVars
<1>7. CASE LeaveAtOnce
  BY <1>4, <1>7, ShrunkByNothing DEF LeaveAtOnce
<1> QED BY <1>5, <1>6, <1>7 DEF Back

LEMMA StackByNavigate ==
    ASSUME TypeOK, NEW page, NEW id, Navigate(page, id)
    PROVE  Shrunk \/ Grown(page)
<1>1. stack \in Seq(Route) /\ Len(stack) \in Nat
  BY DEF TypeOK
<1>2. CASE OnStack(page)
  <2> DEFINE at == CHOOSE i \in DOMAIN stack : stack[i].page = page
  <2>1. at \in 1..Len(stack)
    BY <1>1, <1>2 DEF OnStack
  <2>2. stack' = SubSeq(stack, 1, at)
    BY <1>2 DEF Navigate
  <2> HIDE DEF at
  <2> QED BY <1>1, <2>1, <2>2 DEF Shrunk
<1>3. CASE ~OnStack(page)
  <2>1. stack' = Append(stack, [page |-> page, id |-> id])
    BY <1>3 DEF Navigate
  <2>2. /\ Len(stack') = Len(stack) + 1
        /\ \A i \in 1..Len(stack) : stack'[i] = stack[i]
        /\ stack'[Len(stack) + 1] = [page |-> page, id |-> id]
    BY <1>1, <2>1
  <2> QED BY <2>2 DEF Grown
<1> QED BY <1>2, <1>3

LEMMA StackStep ==
    ASSUME TypeOK, [Next]_vars
    PROVE  \/ Shrunk
           \/ \E page \in Links(Top.page) : Grown(page)
           \/ Grown("HeadlineSubmitted") /\ \E id \in Ids : forms[id].submitting
<1>1. CASE HeaderPop \/ SystemBack
  BY <1>1, ShrunkByBack DEF HeaderPop, SystemBack
<1>2. CASE Leave
  <2>1. CutTo(Below(TopPrompt.id))
    BY <1>2 DEF Leave, Resume, KeyedBack
  <2>2. Below(TopPrompt.id) \in Nat /\ Below(TopPrompt.id) <= Len(stack)
    BY BelowType DEF TypeOK
  <2> QED BY <2>1, <2>2, ShrunkByCut
<1>3. CASE (\E p \in Pages : TapLink(p)) \/ (\E t \in Types : OpenForm(t)) \/ OpenActivity
  BY <1>3, StackByNavigate DEF TapLink, OpenForm, OpenActivity
<1>4. CASE \E id \in Ids : Submitted(id)
  BY <1>4, StackByNavigate DEF Submitted
<1>5. CASE UNCHANGED stack
  BY <1>5, ShrunkByNothing
<1> QED
  BY <1>1, <1>2, <1>3, <1>4, <1>5
  DEF Next, vars, routeVars, Stay, ShowAlert, Exit, InputChange, Submit, LoadStorage,
      NotSubmitted, Expire, CompleteTransition, FetchActivity, ShowImages, HideImages

LEMMA LinksInFlow ==
    \A p \in Pages : \A q \in Links(p) :
      /\ q \in ActivityPages <=> p \in ActivityPages
      /\ q = "ActivitysSignUpManagement" => FALSE
BY DEF Links, Pages, ActivityPages

(* In the activity flow there are no forms to be left or submitted. *)
LEMMA QuietFlow ==
    ASSUME ViewerInv, [Next]_vars, stack[1].page \in ActivityPages
    PROVE  /\ prompts' = <<>> /\ \A id \in Ids : ~forms'[id].submitting
           /\ ~Leave /\ ~Stay /\ ~(\E id \in Ids : Submitted(id) \/ NotSubmitted(id))
           /\ ~(\E t \in Types : OpenForm(t))
<1>1. /\ TypeOK /\ prompts = <<>> /\ ~modal /\ \A id \in Ids : ~forms[id].submitting
      /\ Top.page \in ActivityPages /\ Len(stack) \in Nat \ {0}
  BY RoutePages DEF ViewerInv, TypeInv, ModalInv, FlowInv, Top
<1>2. /\ ~Guarded /\ "HeadlineForm" \notin Links(Top.page)
      /\ \A p \in Links(Top.page) : p # "HeadlineForm"
  BY <1>1 DEF Guarded, ActivityPages, Links
<1>3. /\ ~Leave /\ ~Stay /\ ~(\E id \in Ids : Submitted(id) \/ NotSubmitted(id))
      /\ ~(\E t \in Types : OpenForm(t)) /\ ~Submit
      /\ ~(\E v \in Texts \cup {Empty} : InputChange(v))
  BY <1>1, <1>2 DEF Leave, Stay, Submitted, NotSubmitted, OpenForm, Submit, InputChange
<1>4. prompts' = prompts
  <2>1. ASSUME NEW type, Back(type) PROVE prompts' = prompts
    BY <1>2, <2>1 DEF Back, Unguarded, PassGuard, AskLeave, LeaveAtOnce, guardVars
  <2>2. CASE HeaderPop \/ SystemBack
    BY <2>1, <2>2 DEF HeaderPop, SystemBack
  <2> QED
    BY <1>3, <2>2
    DEF Next, vars, guardVars, ShowAlert, TapLink, Expire, OpenActivity, CompleteTransition,
        Exit, LoadStorage, FetchActivity, ShowImages, HideImages
<1>5. \A id \in Ids : ~forms'[id].submitting
  <2>1. ASSUME NEW i \in Ids, LoadStorage(i) PROVE \A id \in Ids : ~forms'[id].submitting
    <3>1. PICK r : /\ r.submitting = forms[i].submitting
                   /\ forms' = [forms EXCEPT ![i] = r]
      <4>1. CASE stored[forms[i].type] = NoDraft
        BY <2>1, <4>1 DEF LoadStorage, TypeOK, Form, ViewerInv, TypeInv
      <4>2. CASE stored[forms[i].type] # NoDraft
        BY <2>1, <4>2 DEF LoadStorage, TypeOK, Form, ViewerInv, TypeInv
      <4> QED BY <4>1, <4>2
    <3> QED BY <1>1, <3>1 DEF TypeOK
  <2>2. CASE UNCHANGED forms
    BY <1>1, <2>2
  <2> QED
    BY <1>3, <2>1, <2>2
    DEF Next, vars, pageVars, HeaderPop, SystemBack, Back, ShowAlert, TapLink, Expire,
        OpenActivity, CompleteTransition, Exit, FetchActivity, ShowImages, HideImages
<1> QED BY <1>1, <1>3, <1>4, <1>5

LEMMA FlowStep == ASSUME ViewerInv, [Next]_vars PROVE FlowInv'
<1>1. TypeOK /\ FlowInv
  BY DEF ViewerInv, TypeInv
<1>2. /\ Len(stack) \in Nat \ {0} /\ \A i \in 1..Len(stack) : stack[i].page \in Pages
      /\ Top = stack[Len(stack)] /\ Top.page \in Pages
  BY <1>1, RoutePages DEF Top
<1>3. PICK page : \/ Shrunk
                  \/ page \in Links(Top.page) /\ Grown(page)
                  \/ /\ page = "HeadlineSubmitted" /\ Grown(page)
                     /\ \E id \in Ids : forms[id].submitting
  BY <1>1, StackStep
<1>4. stack'[1] = stack[1]
  BY <1>2, <1>3 DEF Shrunk, Grown
<1>5. Grown(page) /\ ~Shrunk
        => /\ page \in ActivityPages <=> stack[1].page \in ActivityPages
           /\ page # "ActivitysSignUpManagement"
  <2>1. CASE page \in Links(Top.page)
    BY <1>1, <1>2, <2>1, LinksInFlow DEF FlowInv
  <2>2. CASE page = "HeadlineSubmitted" /\ \E id \in Ids : forms[id].submitting
    BY <1>1, <2>2 DEF FlowInv, ActivityPages
  <2> QED BY <1>3, <2>1, <2>2
<1>6. \A i \in 1..Len(stack') : \/ i \in 1..Len(stack) /\ stack'[i] = stack[i]
                                \/ Grown(page) /\ ~Shrunk /\ stack'[i].page = page
  BY <1>2, <1>3 DEF Shrunk, Grown
<1>7. \A i \in 1..Len(stack') :
        stack'[i].page \in ActivityPages <=> stack'[1].page \in ActivityPages
  BY <1>1, <1>4, <1>5, <1>6 DEF FlowInv
<1>8. stack'[1].page \in ActivityPages
        => prompts' = <<>> /\ \A id \in Ids : ~forms'[id].submitting
  BY <1>4, QuietFlow
<1>9. ASSUME stack'[1].page = "ActivityDetail"
      PROVE  /\ stack'[1].id = 1
             /\ \A i \in 1..Len(stack') : stack'[i].page # "ActivitysSignUpManagement"
             /\ \A id \in Ids : id # 1 => activity'[id] = "none"
  <2>1. /\ stack[1].page = "ActivityDetail" /\ stack[1].id = 1
        /\ \A i \in 1..Len(stack) : stack[i].page # "ActivitysSignUpManagement"
        /\ \A id \in Ids : id # 1 => activity[id] = "none"
    BY <1>1, <1>4, <1>9 DEF FlowInv
  <2>2. "ActivityDetail" \notin Links(Top.page)
    BY <1>2, <2>1 DEF Links, Pages
  <2>3. ~OpenActivity
    BY <2>2 DEF OpenActivity
  <2>4. \A id \in Ids : id # 1 => activity'[id] = "none"
    <3>1. CASE \E id \in Ids : FetchActivity(id)
      BY <1>1, <2>1, <3>1 DEF FetchActivity, TypeOK
    <3>2. CASE UNCHANGED activity
      BY <2>1, <3>2
    <3> QED
      BY <2>3, <3>1, <3>2
      DEF Next, vars, pageVars, HeaderPop, SystemBack, Back, ShowAlert, Leave, Stay, TapLink,
          OpenForm, Expire, CompleteTransition, Exit, InputChange, Submit, LoadStorage,
          Submitted, NotSubmitted, ShowImages, HideImages
  <2> QED BY <1>4, <1>5, <1>6, <2>1, <2>4
<1> QED BY <1>7, <1>8, <1>9 DEF FlowInv

LEMMA ViewerStep == ASSUME ViewerInv, [Next]_vars PROVE ViewerShown'
<1>1. TypeOK /\ FlowInv /\ ViewerShown /\ Len(stack) \in Nat \ {0}
  BY RoutePages DEF ViewerInv, TypeInv
<1>2. CASE ShowImages
  <2>1. ~SwipBack("SET_PARAMS", TRUE)
    BY DEF SwipBack
  <2>2. ~swipe'
    BY <1>2, <2>1, Zenon DEF ShowImages
  <2>3. UNCHANGED <<stack, transitioning, activity>> /\ ~transitioning
        /\ Top.page = "ActivityDetail" /\ activity[Top.id] = "shown"
    BY <1>2 DEF ShowImages, pageVars
  <2> QED BY <2>2, <2>3 DEF ViewerShown, Top
<1>3. CASE ~viewer'
  BY <1>3 DEF ViewerShown
<1>4. CASE viewer /\ ~ShowImages /\ viewer'
  <2>1. /\ ~swipe /\ ~transitioning /\ Top.page = "ActivityDetail" /\ activity[Top.id] = "shown"
        /\ stack[1].page \in ActivityPages
    BY <1>1, <1>4 DEF ViewerShown, FlowInv, Top, ActivityPages
  <2>2. /\ ~Leave /\ ~Stay /\ ~(\E id \in Ids : Submitted(id) \/ NotSubmitted(id))
        /\ ~(\E t \in Types : OpenForm(t))
    BY <2>1, QuietFlow
  <2>3. /\ ~HeaderPop /\ ~SystemBack /\ ~HideImages /\ ~CompleteTransition
        /\ ~(\E p \in Pages : TapLink(p))
    BY <1>4, <2>1 DEF HeaderPop, SystemBack, Back, HideImages, CompleteTransition, TapLink
  <2>4. ~OpenActivity
    BY <2>1 DEF OpenActivity, Links
  <2>5. CASE \E id \in Ids : FetchActivity(id)
    <3>1. PICK id \in Ids : FetchActivity(id)
      BY <2>5
    <3>2. UNCHANGED <<stack, transitioning>> /\ activity[id] = "loading"
      BY <3>1 DEF FetchActivity
    <3>3. activity'[Top.id] = activity[Top.id]
      <4>1. Top.id # id
        BY <2>1, <3>2
      <4>2. Top.id \in Ids
        <5>1. Top \in Route
          BY <1>1, TopType DEF TypeOK
        <5> QED BY <2>1, <5>1 DEF Route, Stateful
      <4>3. activity \in [Ids -> {"none", "loading", "shown", "failed"}]
        BY <1>1 DEF TypeOK
      <4>4. PICK a : activity' = [activity EXCEPT ![id] = a]
        BY <3>1 DEF FetchActivity
      <4> QED BY <4>1, <4>2, <4>3, <4>4
    <3>4. Len(stack) # 1
      BY <1>1, <2>1, <3>2 DEF Top, FlowInv
    <3>5. ~SwipBack("SET_PARAMS", FALSE)
      BY <2>1, <3>4 DEF SwipBack
    <3>6. ~swipe'
      BY <2>1, <3>1, <3>5, Zenon DEF FetchActivity
    <3> QED BY <2>1, <3>2, <3>3, <3>6 DEF ViewerShown, Top
  <2>6. CASE UNCHANGED <<stack, swipe, transitioning, activity>>
    BY <2>1, <2>6 DEF ViewerShown, Top
  <2> QED
    BY <1>4, <2>2, <2>3, <2>4, <2>5, <2>6
    DEF Next, vars, routeVars, pageVars, ShowAlert, Exit, InputChange, Submit, LoadStorage, Expire
<1>5. ShowImages \/ viewer \/ ~viewer'
  BY DEF Next, vars, HeaderPop, SystemBack, Back, ShowAlert, Leave, Stay, TapLink, OpenForm,
         OpenActivity, Expire, CompleteTransition, Exit, InputChange, Submit, LoadStorage,
         Submitted, NotSubmitted, FetchActivity, HideImages
<1> QED BY <1>2, <1>3, <1>4, <1>5

LEMMA FlowInit == Init => FlowInv
<1> SUFFICES ASSUME Init PROVE FlowInv
  OBVIOUS
<1>1. PICK p \in Roots :
        /\ stack = <<[page |-> p, id |-> IF p \in Stateful THEN 1 ELSE 0]>>
        /\ activity = [i \in Ids |-> IF i = 1 /\ p = "ActivityDetail" THEN "loading" ELSE "none"]
  BY DEF Init, Opened
<1>2. PICK r : r = [page |-> p, id |-> IF p \in Stateful THEN 1 ELSE 0]
  OBVIOUS
<1>3. stack = <<r>> /\ r.page = p /\ (p = "ActivityDetail" => r.id = 1)
  BY <1>1, <1>2 DEF Stateful
<1>4. Len(stack) = 1 /\ stack[1] = r /\ 1..Len(stack) = {1}
  BY <1>3
<1>5. PICK t \in Types : forms = [i \in Ids |-> NewForm(t)]
  BY DEF Init
<1>6. \A id \in Ids : ~forms[id].submitting
  BY <1>5 DEF NewForm
<1>7. prompts = <<>>
  BY DEF Init
<1>8. p = "ActivityDetail" => \A id \in Ids : id # 1 => activity[id] = "none"
  BY <1>1
<1> QED BY <1>3, <1>4, <1>6, <1>7, <1>8 DEF FlowInv

(* While a picture is browsed the host's gesture is off, whatever comes    *)
(* late: stopBack wins over everything that enables it.                    *)
THEOREM ViewerBlocks == Spec => []ViewerBlocksSwipe
<1>1. Init => ViewerInv
  BY TypeInit, FlowInit DEF Init, Opened, ViewerInv, ViewerShown
<1>2. ViewerInv /\ [Next]_vars => ViewerInv'
  BY TypeStep, FlowStep, ViewerStep DEF ViewerInv
<1>3. ViewerInv => ViewerBlocksSwipe
  BY DEF ViewerInv, ViewerShown, ViewerBlocksSwipe
<1> QED BY <1>1, <1>2, <1>3, PTL DEF Spec
-----------------------------------------------------------------------------
(* The app's first page.  An alert asked for by the form as the first page *)
(* is asked for as the app is left: its answer is not heard any more.      *)
RootLeft == ~overlap /\ prompts # <<>> /\ Len(stack) = 1 => exited

RootInv == DraftInv /\ RootLeft

(* Nothing takes the history of an overlap back. *)
LEMMA OverlapStays == TypeOK /\ [Next]_vars /\ ~overlap' => ~overlap
BY DEF TypeOK, Next, vars, HeaderPop, SystemBack, Back, ShowAlert, Leave, Stay, TapLink, Navigate,
       OpenForm, OpenActivity, Expire, CompleteTransition, Exit, InputChange, Submit, LoadStorage,
       Submitted, NotSubmitted, FetchActivity, ShowImages, HideImages

LEMMA RootLeftStep == RootInv /\ [Next]_vars => RootLeft'
<1> SUFFICES ASSUME RootInv, [Next]_vars, ~overlap', prompts' # <<>>, Len(stack') = 1
             PROVE  exited'
  BY DEF RootLeft
<1>0. TypeOK /\ Sorted /\ GuardInv /\ ~overlap /\ RootLeft
  BY OverlapStays DEF RootInv, DraftInv, GuardInv, SwipeInv, TypeInv
<1>1. ASSUME NEW type, Back(type) PROVE exited'
  <2>1. prompts = <<>> /\ oStateIndex = 0
    BY <1>0, <1>1 DEF Back, GuardInv
  <2>2. AskLeave(type)
    BY <1>1, <2>1 DEF Back, Unguarded, PassGuard, LeaveAtOnce, guardVars
  <2>3. CASE Intercepts
    <3>1. Len(stack) = 1
      BY <2>2, <2>3 DEF AskLeave, routeVars
    <3> QED BY <2>1, <2>3, <3>1 DEF Intercepts, StateIndex
  <2>4. CASE ~Intercepts
    <3>1. Len(stack) = 1
      BY <1>0, <2>1, <2>4, RoutePages DEF Intercepts, StateIndex
    <3> QED BY <2>2, <2>4, <3>1 DEF AskLeave, DefaultBack
  <2> QED BY <2>3, <2>4
<1>2. CASE Leave \/ Stay
  <2>1. prompts # <<>> /\ Len(prompts) = 1 /\ prompts \in Seq([id : Ids, index : Nat])
    BY <1>0, <1>2 DEF Leave, Stay, GuardInv, SwipeInv, TypeInv, ModalInv, PendingInv, TypeOK
  <2>2. prompts' = SubSeq(prompts, 1, 0)
    BY <1>2, <2>1 DEF Leave, Stay, DropPrompt
  <2>3. prompts' = <<>>
    BY <2>1, <2>2, SubSeqEmpty
  <2> QED BY <2>3
<1>3. ASSUME NEW page, NEW id, Navigate(page, id), UNCHANGED guardVars PROVE FALSE
  BY <1>0, <1>3 DEF Navigate, guardVars
<1>4. CASE UNCHANGED <<stack, prompts>> /\ exited' \in {TRUE, exited}
  <2>1. prompts # <<>> /\ Len(stack) = 1
    BY <1>4
  <2>2. exited
    BY <1>0, <2>1 DEF RootLeft
  <2> QED BY <1>4, <2>2
<1> QED
  BY <1>1, <1>2, <1>3, <1>4
  DEF Next, vars, routeVars, guardVars, HeaderPop, SystemBack, ShowAlert, TapLink, OpenForm,
      OpenActivity, Submitted, Exit, InputChange, Submit, LoadStorage, NotSubmitted, Expire,
      CompleteTransition, FetchActivity, ShowImages, HideImages

LEMMA RootStep == RootInv /\ [Next]_vars => RootInv'
BY DraftStep, RootLeftStep DEF RootInv

(* The first page stays the first page: no step takes it off the stack.    *)
FirstOfRoots == TypeInv /\ stack[1].page \in Roots

LEMMA RootStays == ASSUME TypeOK, [Next]_vars PROVE stack'[1] = stack[1]
<1>1. Len(stack) \in Nat \ {0}
  BY RoutePages
<1>2. PICK page : Shrunk \/ Grown(page)
  BY StackStep
<1> QED BY <1>1, <1>2 DEF Shrunk, Grown

(* The comment on the router claims that a pending alert interrupts every  *)
(* way back.  It does, on every page stack that does not begin with the    *)
(* form: that is the whole extent of the case in which it does not.        *)
THEOREM PendingHolds ==
    ASSUME "HeadlineForm" \notin Roots
    PROVE  Spec => []PendingInterrupts
<1>1. Init => FirstOfRoots
  <2> SUFFICES ASSUME Init PROVE stack[1].page \in Roots
    BY TypeInit DEF FirstOfRoots
  <2>1. PICK p \in Roots : stack = <<[page |-> p, id |-> IF p \in Stateful THEN 1 ELSE 0]>>
    BY DEF Init, Opened
  <2> QED BY <2>1
<1>2. FirstOfRoots /\ [Next]_vars => FirstOfRoots'
  BY TypeStep, RootStays DEF FirstOfRoots, TypeInv
<1>3. FirstOfRoots /\ GuardInv => PendingInterrupts
  <2> SUFFICES ASSUME FirstOfRoots, GuardInv, prompts # <<>>, ~overlap
               PROVE  Guarded /\ ~exited
    BY DEF PendingInterrupts
  <2>1. Guarded /\ (exited => Len(stack) = 1)
    BY DEF GuardInv, PendingInv
  <2> QED BY <2>1 DEF FirstOfRoots, Guarded, Top
<1> QED BY <1>1, <1>2, <1>3, GuardAlways, PTL DEF Spec
-----------------------------------------------------------------------------
(* The way back to the host application.  No application is under way on a *)
(* stack that begins with the page shown after one, as no page leads on.   *)
LastPage == stack[1].page = "HeadlineSubmitted" => \A id \in Ids : ~forms[id].submitting

(* On the first page the gesture is on, or what will enable it is open:    *)
(* the image browser's closing or the end of a transition.                 *)
ReturnDue == ~overlap /\ Len(stack) = 1 /\ ~exited => swipe \/ viewer \/ transitioning

ReturnInv == RootInv /\ ViewerInv /\ LastPage /\ ReturnDue

LEMMA LastPageStep == ASSUME ReturnInv, [Next]_vars PROVE LastPage'
<1> SUFFICES ASSUME stack'[1].page = "HeadlineSubmitted", NEW id \in Ids
             PROVE  ~forms'[id].submitting
  BY DEF LastPage
<1>1. /\ TypeOK /\ Sorted /\ Len(stack) \in Nat \ {0}
      /\ stack[1].page = "HeadlineSubmitted" /\ \A i \in Ids : ~forms[i].submitting
  BY RootStays, RoutePages DEF ReturnInv, RootInv, DraftInv, ViewerInv, TypeInv, LastPage
<1>2. ~Guarded /\ Top.page # "HeadlineSelect"
  <2>1. Len(stack) # 1 => Rank(stack[1].page) < Rank(Top.page)
    BY <1>1 DEF Sorted, Top
  <2>2. Top.page = "HeadlineSubmitted" \/ Rank(Top.page) > 8
    BY <1>1, <2>1, RankType DEF Top
  <2>3. Rank("HeadlineForm") = 3 /\ Rank("HeadlineSelect") = 2
    BY DEF Rank
  <2> QED BY <2>2, <2>3 DEF Guarded
<1>3. /\ ~Submit /\ ~(\E v \in Texts \cup {Empty} : InputChange(v))
      /\ ~(\E t \in Types : OpenForm(t))
      /\ ~(\E i \in Ids : Submitted(i) \/ NotSubmitted(i))
  <2>1. "HeadlineForm" \notin Links(Top.page)
    <3>1. Top.page \in Pages
      BY <1>1, RoutePages DEF Top
    <3> QED BY <1>2, <3>1 DEF Links, Pages
  <2> QED BY <1>1, <1>2, <2>1 DEF Submit, InputChange, OpenForm, Submitted, NotSubmitted
<1>4. ASSUME NEW i \in Ids, LoadStorage(i) PROVE ~forms'[id].submitting
  <2>1. PICK r : r.submitting = forms[i].submitting /\ forms' = [forms EXCEPT ![i] = r]
    <3>1. CASE stored[forms[i].type] = NoDraft
      BY <1>1, <1>4, <3>1 DEF LoadStorage, TypeOK, Form
    <3>2. CASE stored[forms[i].type] # NoDraft
      BY <1>1, <1>4, <3>2 DEF LoadStorage, TypeOK, Form
    <3> QED BY <3>1, <3>2
  <2> QED BY <1>1, <2>1 DEF TypeOK
<1>5. CASE UNCHANGED forms
  BY <1>1, <1>5
<1> QED
  BY <1>3, <1>4, <1>5
  DEF Next, vars, pageVars, HeaderPop, SystemBack, Back, ShowAlert, Leave, Stay, TapLink, Expire,
      OpenActivity, CompleteTransition, Exit, FetchActivity, ShowImages, HideImages

(* A cut that leaves one page is a transition, unless there was only one.  *)
LEMMA CutMoves == ASSUME NEW n, CutTo(n), Len(stack') = 1 PROVE transitioning' \/ Len(stack) = 1
BY DEF CutTo

(* A page opened from the first page goes on top of it. *)
LEMMA NavigateMoves ==
    ASSUME TypeOK, NEW page, NEW id, Navigate(page, id), Len(stack') = 1, page # Top.page
    PROVE  transitioning'
<1>1. CASE ~OnStack(page)
  BY <1>1 DEF Navigate
<1>2. CASE OnStack(page)
  <2> DEFINE at == CHOOSE i \in DOMAIN stack : stack[i].page = page
  <2>1. at \in DOMAIN stack /\ stack[at].page = page
    BY <1>2 DEF OnStack
  <2>2. transitioning' = (at # Len(stack) \/ transitioning)
    BY <1>2 DEF Navigate
  <2> HIDE DEF at
  <2> QED BY <2>1, <2>2 DEF Top
<1> QED BY <1>1, <1>2

LEMMA ReturnDueStep == ASSUME ReturnInv, [Next]_vars PROVE ReturnDue'
<1> SUFFICES ASSUME ~overlap', Len(stack') = 1, ~exited'
             PROVE  swipe' \/ viewer' \/ transitioning'
  BY DEF ReturnDue
<1>1. /\ TypeOK /\ Sorted /\ RootLeft /\ LastPage /\ ReturnDue /\ GuardInv
      /\ ~overlap /\ goBack = 0 /\ oStateIndex = 0 /\ Len(stack) \in Nat \ {0}
  BY OverlapStays, RoutePages
  DEF ReturnInv, RootInv, DraftInv, GuardInv, ViewerInv, TypeInv
<1>2. ASSUME NEW type, Back(type) PROVE transitioning'
  <2>1. Len(stack) # 1
    <3>1. ~(Unguarded(type) \/ PassGuard(type)) \/ Len(stack) # 1
      BY DEF Unguarded, PassGuard, DefaultBack
    <3>0. Len(stack) = 1 => StateIndex = 0 /\ ~Intercepts
      BY <1>1 DEF StateIndex, Intercepts
    <3>2. AskLeave(type) => Len(stack) # 1
      BY <3>0, Zenon DEF AskLeave, DefaultBack
    <3>3. LeaveAtOnce => Len(stack) # 1
      BY <3>0, Zenon DEF LeaveAtOnce
    <3> QED BY <1>2, <3>1, <3>2, <3>3 DEF Back
  <2>2. ~DefaultBack(type) \/ transitioning'
    BY <2>1, CutMoves DEF DefaultBack
  <2>3. \A id, index : ~Resume(id, index) \/ transitioning'
    BY <2>1, CutMoves DEF Resume, KeyedBack
  <2>4. UNCHANGED stack => FALSE
    BY <2>1
  <2> QED
    BY <1>2, <2>1, <2>2, <2>3, <2>4
    DEF Back, Unguarded, PassGuard, AskLeave, LeaveAtOnce, routeVars
<1>3. CASE Leave
  <2>1. prompts # <<>> /\ ~exited
    BY <1>3 DEF Leave, ReturnInv, ViewerInv, TypeInv, ModalInv
  <2>2. Len(stack) # 1
    BY <1>1, <2>1 DEF RootLeft
  <2> QED BY <1>3, <2>2, CutMoves DEF Leave, Resume, KeyedBack
<1>4. CASE (\E p \in Pages : TapLink(p)) \/ (\E t \in Types : OpenForm(t)) \/ OpenActivity
  <2>1. PICK page, id : page \in Links(Top.page) /\ Navigate(page, id)
    BY <1>4 DEF TapLink, OpenForm, OpenActivity
  <2>2. Top.page \in Pages
    BY <1>1, RoutePages DEF Top
  <2>3. Rank(Top.page) < Rank(page) /\ Rank(Top.page) \in 1..8
    BY <2>1, <2>2, RankType
  <2>4. page # Top.page
    BY <2>3
  <2> QED BY <1>1, <2>1, <2>4, NavigateMoves
<1>5. CASE \E id \in Ids : Submitted(id)
  <2>1. PICK id \in Ids : Submitted(id)
    BY <1>5
  <2>2. forms[id].submitting /\ Navigate("HeadlineSubmitted", 0)
    BY <2>1 DEF Submitted
  <2>3. stack[1].page # "HeadlineSubmitted"
    BY <1>1, <2>2 DEF LastPage
  <2>4. CASE Top.page = "HeadlineSubmitted"
    <3>1. Len(stack) # 1
      BY <2>3, <2>4 DEF Top
    <3>2. CASE OnStack("HeadlineSubmitted")
      <4> DEFINE at == CHOOSE i \in DOMAIN stack : stack[i].page = "HeadlineSubmitted"
      <4>1. /\ stack' = SubSeq(stack, 1, at)
            /\ transitioning' = (at # Len(stack) \/ transitioning)
        BY <2>2, <3>2 DEF Navigate
      <4> HIDE DEF at
      <4>2. CASE at = Len(stack)
        BY <1>1, <3>1, <4>1, <4>2 DEF TypeOK
      <4> QED BY <4>1, <4>2
    <3>3. CASE ~OnStack("HeadlineSubmitted")
      BY <2>2, <3>3 DEF Navigate
    <3> QED BY <3>2, <3>3
  <2>5. CASE Top.page # "HeadlineSubmitted"
    BY <1>1, <2>2, <2>5, NavigateMoves
  <2> QED BY <2>4, <2>5
<1>6. CASE CompleteTransition \/ HideImages \/ \E id \in Ids : FetchActivity(id)
  <2>1. UNCHANGED stack
    BY <1>6 DEF CompleteTransition, HideImages, FetchActivity
  <2>2. SwipBack("COMPLETE_TRANSITION", FALSE) /\ SwipBack("SET_PARAMS", FALSE)
    BY <2>1 DEF SwipBack
  <2>3. CASE CompleteTransition \/ HideImages
    BY <2>2, <2>3, Zenon DEF CompleteTransition, HideImages
  <2>4. CASE \E id \in Ids : FetchActivity(id)
    <3>1. PICK id \in Ids : FetchActivity(id)
      BY <2>4
    <3>2. CASE UNCHANGED swipe
      <4>1. UNCHANGED <<transitioning, exited, viewer>>
        BY <3>1 DEF FetchActivity
      <4> QED BY <1>1, <2>1, <3>2, <4>1 DEF ReturnDue
    <3> QED BY <2>2, <3>1, <3>2, Zenon DEF FetchActivity
  <2> QED BY <1>6, <2>3, <2>4
<1>7. CASE ShowImages
  BY <1>7 DEF ShowImages
<1>8. CASE UNCHANGED <<stack, transitioning, swipe, exited, viewer>>
  BY <1>1, <1>8 DEF ReturnDue
<1> QED
  BY <1>2, <1>3, <1>4, <1>5, <1>6, <1>7, <1>8
  DEF Next, vars, routeVars, HeaderPop, SystemBack, Stay, ShowAlert, Exit, InputChange, Submit,
      LoadStorage, NotSubmitted, Expire

LEMMA ReturnInit == Init => ReturnInv
<1> SUFFICES ASSUME Init PROVE ReturnInv
  OBVIOUS
<1>1. TypeInv /\ DraftInv /\ FlowInv
  BY TypeInit, DraftInit, FlowInit
<1>2. swipe /\ ~viewer /\ prompts = <<>>
  BY DEF Init, Opened
<1>3. PICK t \in Types : forms = [i \in Ids |-> NewForm(t)]
  BY DEF Init
<1>4. \A id \in Ids : ~forms[id].submitting
  BY <1>3 DEF NewForm
<1> QED BY <1>1, <1>2, <1>4
        DEF ReturnInv, RootInv, RootLeft, ViewerInv, ViewerShown, LastPage, ReturnDue

LEMMA ReturnAlways == Init /\ [][Next]_vars => []ReturnInv
<1>1. ReturnInv /\ [Next]_vars => ReturnInv'
  <2> SUFFICES ASSUME ReturnInv, [Next]_vars PROVE ReturnInv'
    OBVIOUS
  <2>1. RootInv /\ ViewerInv /\ TypeInv
    BY DEF ReturnInv, ViewerInv
  <2> QED BY <2>1, RootStep, TypeStep, FlowStep, ViewerStep, LastPageStep, ReturnDueStep
          DEF ReturnInv, ViewerInv
<1> QED BY <1>1, ReturnInit, PTL

(* The weak fairness of CompleteTransition, with its condition written out *)
(* as the guard it amounts to: a transition that stays on ends.            *)
FairTransitions ==
    []<>~(transitioning /\ ~exited) \/ []<><<CompleteTransition>>_vars

(* As transitions end, an iOS user back on the first page is not locked    *)
(* in: the gesture returns, unless a picture is open or the user goes on.  *)
THEOREM SwipeComesBack == Init /\ [][Next]_vars /\ FairTransitions => SwipeReturns
<1> DEFINE Due  == Len(stack) = 1 /\ ~exited /\ ~overlap
           Free == swipe \/ viewer \/ Len(stack) > 1 \/ exited \/ overlap
           On   == transitioning /\ ~exited
<1>1. ReturnInv => (~Free => On)
  <2> SUFFICES ASSUME ReturnInv, ~Free PROVE On
    OBVIOUS
  <2>1. Len(stack) \in Nat \ {0}
    BY RoutePages DEF ReturnInv, ViewerInv, TypeInv
  <2> QED BY <2>1 DEF ReturnInv, ReturnDue
<1>2. <<CompleteTransition>>_vars => ~On'
  BY DEF CompleteTransition
<1>3. SwipeReturns <=> (Due ~> Free)
  BY DEF SwipeReturns
<1>4. FairTransitions <=> ([]<>~On \/ []<><<CompleteTransition>>_vars)
  BY DEF FairTransitions
<1> HIDE DEF Due, Free, On
<1> QED BY <1>1, <1>2, <1>3, <1>4, ReturnAlways, PTL
-----------------------------------------------------------------------------
(* What a draft was when its form was opened.                              *)
(* A form on top is cut off together with nothing else, as the pages below *)
(* a form have no id.                                                      *)
LEMMA BelowTop ==
    ASSUME TypeOK, Sorted, Guarded
    PROVE  /\ Below(Top.id) = Len(stack) - 1
           /\ FormMounted(Top.id) /\ \A id : FormMounted(id) => id = Top.id
<1>1. /\ DOMAIN stack = 1..Len(stack) /\ Len(stack) \in Nat \ {0}
      /\ \A k \in 1..Len(stack) : stack[k] \in Route /\ stack[k].page \in Pages
  BY RoutePages DEF TypeOK
<1>2. Top \in Route /\ Top.id \in Ids /\ Top = [page |-> "HeadlineForm", id |-> Top.id]
  BY <1>1 DEF Top, Guarded, Route, Stateful
<1>3. FormMounted(Top.id)
  BY <1>1, <1>2 DEF FormMounted, Top
<1>4. \A page \in Pages : Rank(page) < 3 => page \notin Stateful
  BY DEF Rank, Pages, Stateful
<1>5. ASSUME NEW k \in 1..Len(stack), stack[k].id = Top.id PROVE k = Len(stack)
  <2>1. stack[k].page \in Stateful
    BY <1>1, <1>2, <1>5 DEF Route, Ids
  <2>2. Rank(stack[k].page) >= 3
    BY <1>1, <1>4, <2>1, RankType
  <2>3. Rank(Top.page) = 3 /\ Len(stack) \in 1..Len(stack)
    BY <1>1 DEF Guarded, Rank
  <2>4. ~(k < Len(stack))
    BY <1>1, <2>2, <2>3, RankType DEF Sorted, Top
  <2>5. k \in Nat /\ Len(stack) \in Nat /\ k <= Len(stack)
    BY <1>1
  <2> QED BY <2>4, <2>5
<1>6. Mounted(Top.id)
  BY <1>1 DEF Mounted, Top
<1>7. (CHOOSE i \in DOMAIN stack : stack[i].id = Top.id) = Len(stack)
  BY <1>1, <1>5, <1>6 DEF Mounted
<1>8. Below(Top.id) = Len(stack) - 1
  BY <1>6, <1>7 DEF Below
<1> QED BY <1>3, <1>8, OnlyTopForm

(* With the page on top gone, there is no form any more. *)
LEMMA FormCut ==
    ASSUME TypeOK, Sorted, Guarded, Len(stack) # 1, CutTo(Len(stack) - 1)
    PROVE  \A id : ~FormMounted(id)'
<1>1. Len(stack) - 1 \in Nat /\ Len(stack) - 1 >= 1 /\ DOMAIN stack = 1..Len(stack)
  BY RoutePages
<1> DEFINE n == Len(stack) - 1
<1>2. stack' = SubSeq(stack, 1, n)
  BY <1>1 DEF CutTo
<1>3. n \in Int /\ 1 \in Int /\ \A k \in 1..n : stack[k] \in Route
  BY RoutePages DEF TypeOK
<1>4. n < Len(stack) /\ Len(stack) \in 1..Len(stack)
  BY <1>1
<1> HIDE DEF n
<1>5. stack' \in Seq(Route) /\ Len(stack') = n /\ \A k \in 1..n : stack'[k] = stack[k]
  BY <1>2, <1>3, <1>1, SubSeqProperties DEF n
<1>6. \A k \in 1..n : Rank(stack[k].page) < Rank("HeadlineForm")
  BY <1>3, <1>4 DEF Sorted, Guarded, Top
<1>7. ~(Rank("HeadlineForm") < Rank("HeadlineForm"))
  BY DEF Rank
<1>8. DOMAIN stack' = 1..n
  BY <1>5
<1>9. ASSUME NEW id, FormMounted(id)' PROVE FALSE
  <2>1. PICK k \in 1..n : stack'[k] = [page |-> "HeadlineForm", id |-> id]
    BY <1>8, <1>9 DEF FormMounted
  <2>2. stack[k].page = "HeadlineForm"
    BY <1>5, <2>1
  <2> QED BY <1>6, <1>7, <2>2
<1> QED BY <1>9

(* Only the page that is opened is new on the stack. *)
LEMMA NoNewForm ==
    ASSUME TypeOK, NEW page, NEW id, Navigate(page, id), NEW f, FormMounted(f)'
    PROVE  FormMounted(f) \/ (page = "HeadlineForm" /\ f = id)
<1>0. Len(stack) \in Nat \ {0} /\ DOMAIN stack = 1..Len(stack) /\ stack \in Seq(Route)
  BY RoutePages DEF TypeOK
<1>1. PICK k \in DOMAIN stack' : stack'[k] = [page |-> "HeadlineForm", id |-> f]
  BY DEF FormMounted
<1>2. CASE OnStack(page)
  <2> DEFINE at == CHOOSE i \in DOMAIN stack : stack[i].page = page
  <2>1. at \in 1..Len(stack)
    BY <1>0, <1>2 DEF OnStack
  <2>2. stack' = SubSeq(stack, 1, at)
    BY <1>2 DEF Navigate
  <2> HIDE DEF at
  <2>3. k \in 1..Len(stack) /\ stack'[k] = stack[k]
    BY <1>0, <1>1, <2>1, <2>2
  <2> QED BY <1>0, <1>1, <2>3 DEF FormMounted
<1>3. CASE ~OnStack(page)
  <2>1. stack' = Append(stack, [page |-> page, id |-> id])
    BY <1>3 DEF Navigate
  <2>2. /\ k \in 1..(Len(stack) + 1)
        /\ k # Len(stack) + 1 => k \in 1..Len(stack) /\ stack'[k] = stack[k]
    BY <1>0, <1>1, <2>1
  <2>3. CASE k = Len(stack) + 1
    BY <1>0, <1>1, <2>1, <2>3
  <2> QED BY <1>0, <1>1, <2>2, <2>3 DEF FormMounted
<1> QED BY <1>2, <1>3

(* Neither does a page that is closed. *)
LEMMA NoFormByCut ==
    ASSUME TypeOK, Shrunk, NEW f, FormMounted(f)'
    PROVE  FormMounted(f)
<1>1. /\ Len(stack) \in Nat \ {0} /\ DOMAIN stack = 1..Len(stack)
      /\ Len(stack') \in 1..Len(stack)
  BY RoutePages DEF Shrunk
<1>2. PICK k \in DOMAIN stack' : stack'[k] = [page |-> "HeadlineForm", id |-> f]
  BY DEF FormMounted
<1> QED BY <1>1, <1>2 DEF FormMounted, Shrunk

(* As long as nothing overlapped and the app is open, a draft is saved only *)
(* as its form is taken off the stack: a form that found no draft has none *)
(* behind it.                                                              *)
Unread(id) == ~forms[id].loading /\ ~forms[id].loaded
NoneBehind ==
    ~overlap /\ ~exited =>
        \A id \in Ids : FormMounted(id) /\ Unread(id) => stored[forms[id].type] = NoDraft

SeenInv == RootInv /\ NoneBehind

LEMMA NoneBehindStep == SeenInv /\ [Next]_vars => NoneBehind'
<1> SUFFICES ASSUME SeenInv, [Next]_vars, ~overlap', ~exited',
                    NEW id \in Ids, FormMounted(id)', Unread(id)'
             PROVE  stored'[forms'[id].type] = NoDraft
  BY DEF NoneBehind
<1>0. TypeOK /\ Sorted /\ ~overlap /\ GuardInv /\ RootLeft /\ goBack = 0 /\ oStateIndex = 0
  BY OverlapStays DEF SeenInv, RootInv, DraftInv, GuardInv, SwipeInv, TypeInv
<1>1. CASE /\ FormMounted(id) /\ Unread(id) /\ forms'[id].type = forms[id].type
           /\ stored' = stored \/ \E t \in Types : Expire(t)
           /\ ~exited
  <2>1. stored[forms[id].type] = NoDraft /\ forms[id].type \in Types
    BY <1>0, <1>1 DEF SeenInv, NoneBehind, TypeOK, Form
  <2>2. CASE \E t \in Types : Expire(t)
    BY <1>0, <1>1, <2>1, <2>2 DEF Expire, TypeOK
  <2> QED BY <1>1, <2>1, <2>2
<1>2. ASSUME NEW type, Back(type) PROVE stored'[forms'[id].type] = NoDraft
  <2>1. FormMounted(id) /\ forms' = forms /\ ~exited
    BY <1>0, <1>2, ShrunkByBack, NoFormByCut DEF Back, Touchable, pageVars
  <2>2. CASE LeaveAtOnce
    <3>1. Guarded /\ StateIndex # 0
      BY <2>2 DEF LeaveAtOnce
    <3>2. CutTo(Below(Top.id))
      BY <2>2, <3>1 DEF LeaveAtOnce, Resume, KeyedBack
    <3>3. Len(stack) # 1
      BY <3>1 DEF StateIndex
    <3> QED BY <1>0, <3>1, <3>2, <3>3, BelowTop, FormCut
  <2>3. CASE Unguarded(type) \/ PassGuard(type) \/ AskLeave(type)
    <3>1. stored' = stored
      BY <2>3 DEF Unguarded, PassGuard, AskLeave
    <3> QED BY <1>1, <2>1, <3>1 DEF Unread
  <2> QED BY <1>2, <2>2, <2>3 DEF Back
<1>3. CASE Leave
  <2>1. prompts # <<>> /\ ~exited
    BY <1>3 DEF Leave, SeenInv, RootInv, DraftInv, GuardInv, SwipeInv, TypeInv, ModalInv
  <2>2. Guarded /\ TopPrompt.id = Top.id /\ Len(stack) # 1
    BY <1>0, <2>1 DEF GuardInv, PendingInv, TopPrompt, RootLeft
  <2>3. CutTo(Below(Top.id))
    BY <1>3, <2>2 DEF Leave, Resume, KeyedBack
  <2> QED BY <1>0, <2>2, <2>3, BelowTop, FormCut
<1>4. CASE (\E p \in Pages : TapLink(p)) \/ OpenActivity
  <2>1. \E page, n : page # "HeadlineForm" /\ Navigate(page, n)
    BY <1>4 DEF TapLink, OpenActivity, Stateful
  <2>2. forms' = forms /\ stored' = stored /\ ~exited
    BY <1>4 DEF TapLink, OpenActivity, Touchable, pageVars
  <2> QED BY <1>0, <1>1, <2>1, <2>2, NoNewForm DEF Unread
<1>5. ASSUME NEW t \in Types, OpenForm(t) PROVE stored'[forms'[id].type] = NoDraft
  <2>1. /\ Navigate("HeadlineForm", visits + 1) /\ ~exited /\ stored' = stored
        /\ forms' = [forms EXCEPT ![visits + 1] = NewForm(t)]
    BY <1>5 DEF OpenForm, Touchable
  <2>2. id # visits + 1
    BY <1>0, <2>1 DEF TypeOK, Unread, NewForm
  <2>3. FormMounted(id) /\ forms'[id] = forms[id]
    BY <1>0, <2>1, <2>2, NoNewForm DEF TypeOK
  <2> QED BY <1>1, <2>1, <2>3 DEF Unread
<1>6. ASSUME NEW i \in Ids, Submitted(i) \/ NotSubmitted(i)
      PROVE  stored'[forms'[id].type] = NoDraft
  <2>1. FormMounted(id)
    BY <1>0, <1>6, NoNewForm DEF Submitted, NotSubmitted, routeVars, FormMounted
  <2>2. /\ forms' = [forms EXCEPT ![i].submitting = FALSE] /\ stored' = stored /\ ~exited
    BY <1>6 DEF Submitted, NotSubmitted
  <2>3. /\ forms'[id].type = forms[id].type /\ forms'[id].loading = forms[id].loading
        /\ forms'[id].loaded = forms[id].loaded
    BY <1>0, <2>2 DEF TypeOK, Form
  <2> QED BY <1>1, <2>1, <2>2, <2>3 DEF Unread
<1>7. CASE (\E v \in Texts \cup {Empty} : InputChange(v)) \/ Submit
  <2>1. FormMounted(id) /\ stored' = stored /\ ~exited
    BY <1>7 DEF InputChange, Submit, routeVars, FormMounted, Touchable
  <2>2. /\ forms'[id].type = forms[id].type /\ forms'[id].loading = forms[id].loading
        /\ forms'[id].loaded = forms[id].loaded
    <3>1. Top.id \in Ids /\ forms[Top.id] \in Form
      BY <1>0, <1>7, FormOnTop DEF InputChange, Submit
    <3>2. CASE Submit
      BY <1>0, <3>1, <3>2 DEF Submit, TypeOK, Form
    <3>3. ASSUME NEW v \in Texts \cup {Empty}, InputChange(v)
          PROVE  /\ forms'[id].type = forms[id].type /\ forms'[id].loading = forms[id].loading
                 /\ forms'[id].loaded = forms[id].loaded
      BY <1>0, <3>1, <3>3 DEF InputChange, TypeOK, Form
    <3> QED BY <1>7, <3>2, <3>3
  <2> QED BY <1>1, <2>1, <2>2 DEF Unread
<1>8. ASSUME NEW i \in Ids, LoadStorage(i) PROVE stored'[forms'[id].type] = NoDraft
  <2>1. FormMounted(id) /\ stored' = stored /\ ~exited
    BY <1>8 DEF LoadStorage, routeVars, FormMounted
  <2>2. CASE i = id
    <3>1. CASE stored[forms[id].type] = NoDraft
      BY <1>0, <1>8, <2>1, <2>2, <3>1 DEF LoadStorage, TypeOK, Form
    <3>2. CASE stored[forms[id].type] # NoDraft
      BY <1>0, <1>8, <2>2, <3>2 DEF LoadStorage, TypeOK, Form, Unread
    <3> QED BY <3>1, <3>2
  <2>3. CASE i # id
    <3>1. forms'[id] = forms[id]
      BY <1>0, <1>8, <2>3 DEF LoadStorage, TypeOK
    <3> QED BY <1>1, <2>1, <3>1 DEF Unread
  <2> QED BY <2>2, <2>3
<1>9. CASE /\ UNCHANGED <<stack, forms>> /\ (exited => exited')
           /\ stored' = stored \/ \E t \in Types : Expire(t)
  <2>1. FormMounted(id) /\ Unread(id)
    BY <1>9 DEF FormMounted, Unread
  <2> QED BY <1>1, <1>9, <2>1
<1>10. CASE \E t \in Types : Expire(t)
  <2>1. UNCHANGED <<stack, forms, exited>>
    BY <1>10 DEF Expire, routeVars, pageVars
  <2> QED BY <1>9, <1>10, <2>1
<1>11. CASE \/ ShowAlert \/ Stay \/ CompleteTransition \/ Exit \/ ShowImages \/ HideImages
            \/ (\E i \in Ids : FetchActivity(i)) \/ UNCHANGED vars
  <2>1. CASE Exit
    <3>1. UNCHANGED <<stack, forms, stored>> /\ exited' = TRUE
      BY <2>1 DEF Exit, pageVars
    <3> QED BY <1>9, <3>1
  <2>2. CASE ~Exit
    <3>1. UNCHANGED <<stack, forms, stored, exited>>
      BY <1>11, <2>2
      DEF ShowAlert, Stay, CompleteTransition, ShowImages, HideImages, FetchActivity,
          vars, routeVars, pageVars
    <3> QED BY <1>9, <3>1
  <2> QED BY <2>1, <2>2
<1> QED
  BY <1>2, <1>3, <1>4, <1>5, <1>6, <1>7, <1>8, <1>10, <1>11 DEF Next, HeaderPop, SystemBack

(* What a step may store over the text of a draft. *)
SeenStep == overlap' \/ \A t \in Types : stored[t] \in Texts /\ stored'[t] = Empty => DraftSeen(t)

LEMMA DraftSeenStep == SeenInv /\ [Next]_vars => [SeenStep]_vars
<1> SUFFICES ASSUME SeenInv, [Next]_vars, ~overlap',
                    NEW t \in Types, stored[t] \in Texts, stored'[t] = Empty
             PROVE  DraftSeen(t)
  BY DEF SeenStep
<1>0. TypeOK /\ Sorted /\ ~overlap /\ GuardInv /\ stored[t] # Empty /\ stored[t] # NoDraft
  BY OverlapStays, TextsAssumption DEF SeenInv, RootInv, DraftInv, GuardInv, SwipeInv, TypeInv
<1>1. ASSUME Guarded, stored' = Saved(forms[Top.id]), ~exited PROVE DraftSeen(t)
  <2>1. Top.id \in Ids /\ FormMounted(Top.id) /\ forms[Top.id] \in Form
    BY <1>0, <1>1, BelowTop, FormOnTop
  <2>2. forms[Top.id].type = t
    BY <1>0, <1>1, <2>1 DEF Saved, TypeOK, Form
  <2>3. ~Unread(Top.id)
    BY <1>0, <1>1, <2>1, <2>2 DEF SeenInv, NoneBehind
  <2> QED BY <2>1, <2>2, <2>3 DEF DraftSeen, Unread
<1>2. CASE HeaderPop \/ SystemBack
  <2>1. LeaveAtOnce /\ ~exited
    BY <1>0, <1>2
    DEF HeaderPop, SystemBack, Back, Touchable, Unguarded, PassGuard, AskLeave
  <2> QED BY <1>1, <2>1 DEF LeaveAtOnce
<1>3. CASE Leave
  <2>1. prompts # <<>> /\ ~exited
    BY <1>3 DEF Leave, SeenInv, RootInv, DraftInv, GuardInv, SwipeInv, TypeInv, ModalInv
  <2>2. Guarded /\ TopPrompt.id = Top.id
    BY <1>0, <2>1 DEF GuardInv, PendingInv, TopPrompt
  <2> QED BY <1>1, <1>3, <2>1, <2>2 DEF Leave
<1>4. ~\E s \in Types : Expire(s)
  BY <1>0, TextsAssumption DEF Expire, TypeOK
<1>5. stored' # stored
  BY <1>0
<1> QED
  BY <1>2, <1>3, <1>4, <1>5
  DEF Next, vars, Stay, ShowAlert, TapLink, OpenForm, OpenActivity, CompleteTransition, Exit,
      InputChange, Submit, LoadStorage, Submitted, NotSubmitted, FetchActivity, ShowImages,
      HideImages

(* No draft is lost unseen: a stored text is only replaced by nothing when *)
(* its form had shown it, or was left before the storage answered.         *)
THEOREM SeenFirst == Spec => DraftSeenFirst
<1>1. Init => SeenInv
  <2> SUFFICES ASSUME Init PROVE SeenInv
    OBVIOUS
  <2>1. PICK t \in Types : forms = [i \in Ids |-> NewForm(t)]
    BY DEF Init
  <2>2. \A id \in Ids : ~Unread(id)
    BY <2>1 DEF Unread, NewForm
  <2>3. RootInv
    BY DraftInit DEF RootInv, RootLeft, Init
  <2> QED BY <2>2, <2>3 DEF SeenInv, NoneBehind
<1>2. SeenInv /\ [Next]_vars => SeenInv'
  BY RootStep, NoneBehindStep DEF SeenInv
<1>3. DraftSeenFirst <=> [][SeenStep]_vars
  BY DEF DraftSeenFirst, SeenStep
<1> QED BY <1>1, <1>2, <1>3, DraftSeenStep, PTL DEF Spec
=============================================================================
