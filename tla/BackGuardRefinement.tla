------------------------- MODULE BackGuardRefinement -------------------------
(* BackGuard implements DraftPromise, for every choice of its constants:   *)
(* router, back guard, alert and form together keep the form's promise.    *)
EXTENDS BackGuardProofs

(* What is promised about the form with this id. *)
Promised(id) ==
    [type |-> forms[id].type, text |-> forms[id].text, loaded |-> forms[id].loaded,
     asked |-> prompts # <<>>]

(* The form of the promise is the one on the stack, and it is not Closed.  *)
FormFact ==
    TypeOK /\ Sorted =>
        /\ \A id : FormMounted(id) =>
             /\ id \in Ids /\ PromisedForm = Promised(id) /\ PromisedForm # NoDraft
             /\ forms[id] \in Form
        /\ (\A id : ~FormMounted(id)) => PromisedForm = NoDraft

LEMMA FormNow == FormFact
<1> SUFFICES ASSUME TypeOK, Sorted
             PROVE  /\ \A id : FormMounted(id) =>
                         /\ id \in Ids /\ PromisedForm = Promised(id) /\ PromisedForm # NoDraft
                         /\ forms[id] \in Form
                    /\ (\A id : ~FormMounted(id)) => PromisedForm = NoDraft
  BY DEF FormFact
<1>1. /\ DOMAIN stack = 1..Len(stack) /\ Len(stack) \in Nat
      /\ \A k \in 1..Len(stack) : stack[k] \in Route
  BY RoutePages DEF TypeOK
<1>2. \A k \in 1..Len(stack) : stack[k].page = "HeadlineForm" =>
        stack[k].id \in Ids /\ stack[k] = [page |-> "HeadlineForm", id |-> stack[k].id]
  BY <1>1 DEF Route, Stateful
<1>3. (\A id : ~FormMounted(id)) => PromisedForm = NoDraft
  BY <1>1, <1>2 DEF PromisedForm, OnStack, FormMounted
<1>4. ASSUME NEW id, FormMounted(id)
      PROVE  /\ id \in Ids /\ PromisedForm = Promised(id) /\ PromisedForm # NoDraft
             /\ forms[id] \in Form
  <2> DEFINE at == CHOOSE i \in DOMAIN stack : stack[i].page = "HeadlineForm"
  <2>1. PICK k \in 1..Len(stack) : stack[k] = [page |-> "HeadlineForm", id |-> id]
    BY <1>1, <1>4 DEF FormMounted
  <2>2. at \in 1..Len(stack) /\ stack[at].page = "HeadlineForm" /\ OnStack("HeadlineForm")
    BY <1>1, <2>1 DEF OnStack
  <2>3. PromisedForm = Promised(stack[at].id)
    BY <2>2 DEF PromisedForm, Promised
  <2> HIDE DEF at
  <2>4. Rank("HeadlineForm") \in 1..8
    BY RankType DEF Pages
  <2>5. ~(at < k) /\ ~(k < at)
    BY <2>1, <2>2, <2>4 DEF Sorted
  <2>6. at = k
    BY <1>1, <2>2, <2>5
  <2>7. id \in Ids /\ PromisedForm = Promised(id)
    BY <1>2, <2>1, <2>3, <2>6
  <2>8. forms[id] \in Form
    BY <2>7 DEF TypeOK
  <2>9. Promised(id) \in [type : Types, text : Texts \cup {Empty}, loaded : BOOLEAN, asked : BOOLEAN]
    BY <2>8 DEF Promised, Form
  <2> QED BY <2>7, <2>8, <2>9, ClosedAssumption
<1> QED BY <1>3, <1>4

LEMMA FormNext == FormFact'
BY FormNow, PTL

(* The promise is not touched by a step that leaves the form where it is,  *)
(* its text, and whether an alert is pending.                              *)
LEMMA FormKept ==
    ASSUME TypeOK, Sorted, TypeOK', Sorted',
           \A id : FormMounted(id) <=> FormMounted(id)',
           \A id \in Ids : FormMounted(id) =>
               /\ forms'[id].type = forms[id].type /\ forms'[id].text = forms[id].text
               /\ forms'[id].loaded = forms[id].loaded,
           (prompts' = <<>>) <=> (prompts = <<>>)
    PROVE  PromisedForm' = PromisedForm
<1>1. CASE \A id : ~FormMounted(id)
  BY <1>1, FormNow, FormNext DEF FormFact
<1>2. ASSUME NEW id, FormMounted(id) PROVE PromisedForm' = PromisedForm
  <2>1. id \in Ids /\ PromisedForm = Promised(id) /\ PromisedForm' = Promised(id)'
    BY <1>2, FormNow, FormNext DEF FormFact
  <2> QED BY <1>2, <2>1 DEF Promised
<1> QED BY <1>1, <1>2

-----------------------------------------------------------------------------
(* Every step keeps the promise as long as nothing overlapped, one lemma   *)
(* for each group of actions.                                              *)
Simulated == Promise!Kept \/ UNCHANGED <<PromisedForm, stored>>

(* Only asked changes when an alert comes up or is answered. *)
LEMMA AskedField ==
    ASSUME NEW p, NEW t, NEW x, NEW l, NEW a, NEW b,
           p = [type |-> t, text |-> x, loaded |-> l, asked |-> a]
    PROVE  [p EXCEPT !.asked = b] = [type |-> t, text |-> x, loaded |-> l, asked |-> b]
OBVIOUS

LEMMA PromisedAsked ==
    ASSUME NEW id, forms' = forms
    PROVE  /\ prompts' # <<>> => Promised(id)' = [Promised(id) EXCEPT !.asked = TRUE]
           /\ prompts' = <<>> => Promised(id)' = [Promised(id) EXCEPT !.asked = FALSE]
<1>1. ASSUME NEW b PROVE [Promised(id) EXCEPT !.asked = b] =
                         [type |-> forms[id].type, text |-> forms[id].text,
                          loaded |-> forms[id].loaded, asked |-> b]
  <2>1. PICK p, t, x, l, a :
          /\ p = Promised(id) /\ p = [type |-> t, text |-> x, loaded |-> l, asked |-> a]
          /\ t = forms[id].type /\ x = forms[id].text /\ l = forms[id].loaded
    BY Zenon DEF Promised
  <2> QED BY <2>1, AskedField
<1>2. prompts' # <<>> => Promised(id)' = [type |-> forms[id].type, text |-> forms[id].text,
                                          loaded |-> forms[id].loaded, asked |-> TRUE]
  BY DEF Promised
<1>3. prompts' = <<>> => Promised(id)' = [type |-> forms[id].type, text |-> forms[id].text,
                                          loaded |-> forms[id].loaded, asked |-> FALSE]
  BY DEF Promised
<1> QED BY <1>1, <1>2, <1>3, Zenon

LEMMA BackKeeps ==
    ASSUME RootInv, TypeOK', Sorted', NEW type, Back(type), ~overlap'
    PROVE  Simulated
<1>0. TypeOK /\ Sorted /\ prompts \in Seq([id : Ids, index : Nat])
  BY DEF RootInv, DraftInv, GuardInv, SwipeInv, TypeInv, TypeOK
<1>1. ~overlap /\ prompts = <<>> /\ goBack = 0 /\ oStateIndex = 0 /\ forms' = forms
  BY <1>0 DEF Back, pageVars, RootInv, DraftInv, GuardInv, TypeOK
<1>2. Len(stack) \in Nat \ {0} /\ DOMAIN stack = 1..Len(stack)
  BY <1>0, RoutePages
<1>3. CASE Unguarded(type)
  <2>1. ~Guarded /\ CutTo(Len(stack) - 1) /\ stored' = stored /\ prompts' = prompts
    BY <1>3 DEF Unguarded, DefaultBack, guardVars
  <2>2. /\ stack' \in Seq(Route) /\ Len(stack') <= Len(stack)
        /\ \A i \in 1..Len(stack') : stack'[i] = stack[i]
    <3> DEFINE n == Len(stack) - 1
    <3>1. n \in Nat /\ n <= Len(stack) /\ CutTo(n)
      BY <1>2, <2>1
    <3> HIDE DEF n
    <3>2. stack \in Seq(Route) /\ Len(stack) >= 1 /\ transitioning \in BOOLEAN
      BY <1>0 DEF TypeOK
    <3> QED BY <3>1, <3>2, CutToType
  <2>3. \A id : FormMounted(id)' => FormMounted(id)
    BY <1>2, <2>2 DEF FormMounted
  <2>4. \A id : FormMounted(id) <=> FormMounted(id)'
    BY <1>0, <2>1, <2>3, CutSparesForm
  <2>5. PromisedForm' = PromisedForm
    BY <1>0, <1>1, <2>1, <2>4, FormKept
  <2> QED BY <2>1, <2>5 DEF Simulated
<1>4. CASE PassGuard(type)
  BY <1>1, <1>4 DEF PassGuard
<1>5. ASSUME Guarded
      PROVE  \E id \in Ids :
               /\ id = Top.id /\ FormMounted(id) /\ PromisedForm = Promised(id)
               /\ PromisedForm # NoDraft /\ forms[id] \in Form
  BY <1>0, <1>5, BelowTop, FormNow DEF FormFact
<1>6. CASE AskLeave(type)
  <2>1. PICK id \in Ids :
               /\ id = Top.id /\ FormMounted(id) /\ PromisedForm = Promised(id)
               /\ PromisedForm # NoDraft /\ forms[id] \in Form
    BY <1>5, <1>6 DEF AskLeave
  <2>2. stack' = stack
    <3>1. CASE Intercepts
      BY <1>6, <3>1 DEF AskLeave, routeVars
    <3>2. CASE ~Intercepts
      <4>0. Len(stack) = 1
        BY <1>0, <1>1, <3>2, RoutePages DEF Intercepts, StateIndex
      <4>1. ~(Len(stack) - 1 >= 1)
        BY <4>0
      <4>2. CutTo(Len(stack) - 1)
        BY <1>6, <3>2 DEF AskLeave, DefaultBack
      <4> QED BY <4>1, <4>2, Zenon DEF CutTo
    <3> QED BY <3>1, <3>2
  <2>3. PromisedForm' = Promised(id)'
    <3>1. FormMounted(id)'
      BY <2>1, <2>2 DEF FormMounted
    <3> QED BY <3>1, FormNext DEF FormFact
  <2>4. prompts' = Append(prompts, [id |-> Top.id, index |-> StateIndex]) /\ stored' = stored
    BY <1>6 DEF AskLeave
  <2>5. prompts' # <<>>
    BY <1>0, <1>1, <2>4
  <2>6. PromisedForm' = [PromisedForm EXCEPT !.asked = TRUE]
    BY <1>1, <2>1, <2>3, <2>5, PromisedAsked, Zenon
  <2>7. NeedsPrompt(forms[id]) /\ PromisedForm.text = forms[id].text /\ PromisedForm.asked = FALSE
        /\ PromisedForm.loaded = forms[id].loaded
    BY <1>1, <1>6, <2>1 DEF AskLeave, Promised
  <2>8. Promise!Ask
    BY <2>1, <2>4, <2>6, <2>7 DEF Promise!Ask, Promise!Unaccounted, NeedsPrompt
  <2> QED BY <2>8 DEF Simulated, Promise!Kept
<1>7. CASE LeaveAtOnce
  <2>1. PICK id \in Ids :
               /\ id = Top.id /\ FormMounted(id) /\ PromisedForm = Promised(id)
               /\ PromisedForm # NoDraft /\ forms[id] \in Form
    BY <1>5, <1>7 DEF LeaveAtOnce
  <2>2. /\ stored' = [stored EXCEPT ![PromisedForm.type] = PromisedForm.text]
        /\ prompts' = prompts /\ ~Promise!Unaccounted
    BY <1>7, <2>1 DEF LeaveAtOnce, Saved, Promised, NeedsPrompt, Promise!Unaccounted
  <2>3. CASE StateIndex = 0
    <3>1. stack' = stack
      BY <1>7, <2>3 DEF LeaveAtOnce
    <3>2. PromisedForm' = PromisedForm
      BY <1>0, <1>1, <2>2, <3>1, FormKept DEF FormMounted
    <3>3. Promise!Keep
      BY <2>1, <2>2, <3>2 DEF Promise!Keep, Promise!Saves
    <3> QED BY <3>3 DEF Simulated, Promise!Kept
  <2>4. CASE StateIndex # 0
    <3>1. Guarded /\ CutTo(Below(Top.id)) /\ Len(stack) # 1
      BY <1>7, <2>4 DEF LeaveAtOnce, Resume, KeyedBack, StateIndex
    <3>2. CutTo(Len(stack) - 1)
      BY <1>0, <3>1, BelowTop
    <3>3. PromisedForm' = NoDraft
      BY <1>0, <3>1, <3>2, FormCut, FormNext DEF FormFact
    <3>4. Promise!Close
      BY <2>1, <2>2, <3>3 DEF Promise!Close, Promise!Saves
    <3> QED BY <3>4 DEF Simulated, Promise!Kept
  <2> QED BY <2>3, <2>4
<1> QED BY <1>3, <1>4, <1>6, <1>7 DEF Back

LEMMA AnswerKeeps ==
    ASSUME RootInv, TypeOK', Sorted', Leave \/ Stay, ~overlap'
    PROVE  Simulated
<1>0. TypeOK /\ Sorted /\ prompts \in Seq([id : Ids, index : Nat])
  BY DEF RootInv, DraftInv, GuardInv, SwipeInv, TypeInv, TypeOK
<1>1. ~overlap /\ ~exited /\ prompts # <<>> /\ forms' = forms
  BY DEF Leave, Stay, pageVars, RootInv, DraftInv, GuardInv, SwipeInv, TypeInv, ModalInv
<1>2. Len(prompts) = 1 /\ Guarded /\ TopPrompt.id = Top.id /\ Len(stack) # 1
  BY <1>1 DEF RootInv, RootLeft, DraftInv, GuardInv, PendingInv, TopPrompt
<1>3. PICK id \in Ids :
        /\ id = Top.id /\ FormMounted(id) /\ PromisedForm = Promised(id)
        /\ PromisedForm # NoDraft /\ forms[id] \in Form
  BY <1>0, <1>2, BelowTop, FormNow DEF FormFact
<1>4. PromisedForm.asked = TRUE
  BY <1>1, <1>3 DEF Promised
<1>5. CASE Leave
  <2>1. CutTo(Below(Top.id)) /\ stored' = Saved(forms[Top.id])
    BY <1>2, <1>5 DEF Leave, Resume, KeyedBack
  <2>2. CutTo(Len(stack) - 1)
    BY <1>0, <1>2, <2>1, BelowTop
  <2>3. PromisedForm' = NoDraft
    BY <1>0, <1>2, <2>2, FormCut, FormNext DEF FormFact
  <2>4. stored' = [stored EXCEPT ![PromisedForm.type] = PromisedForm.text]
    BY <1>3, <2>1 DEF Saved, Promised
  <2>5. Promise!Close
    BY <1>3, <1>4, <2>3, <2>4 DEF Promise!Close, Promise!Saves
  <2> QED BY <2>5 DEF Simulated, Promise!Kept
<1>6. CASE Stay
  <2>1. stack' = stack /\ stored' = stored /\ prompts' = SubSeq(prompts, 1, 0)
    BY <1>2, <1>6 DEF Stay, routeVars, DropPrompt
  <2>2. prompts' = <<>>
    BY <1>0, <2>1, SubSeqEmpty
  <2>3. PromisedForm' = Promised(id)'
    <3>1. FormMounted(id)'
      BY <1>3, <2>1 DEF FormMounted
    <3> QED BY <3>1, FormNext DEF FormFact
  <2>4. PromisedForm' = [PromisedForm EXCEPT !.asked = FALSE]
    BY <1>1, <1>3, <2>2, <2>3, PromisedAsked, Zenon
  <2>5. Promise!Stay
    BY <1>3, <1>4, <2>1, <2>4 DEF Promise!Stay
  <2> QED BY <2>5 DEF Simulated, Promise!Kept
<1> QED BY <1>5, <1>6

LEMMA NavigationKeeps ==
    ASSUME RootInv, TypeOK', Sorted', ~overlap',
           (\E p \in Pages : TapLink(p)) \/ OpenActivity \/ \E id \in Ids : Submitted(id)
    PROVE  Simulated
<1>0. TypeOK /\ Sorted
  BY DEF RootInv, DraftInv, GuardInv, SwipeInv, TypeInv
<1>1. \E page, id : page # "HeadlineForm" /\ Navigate(page, id)
  BY DEF TapLink, OpenActivity, Submitted, Stateful
<1>2. \A f : FormMounted(f) <=> FormMounted(f)'
  BY <1>0, <1>1, NavigationUp, NoNewForm
<1>3. prompts' = prompts /\ stored' = stored
  BY DEF TapLink, OpenActivity, Submitted, guardVars
<1>4. \A f \in Ids : FormMounted(f) =>
         /\ forms'[f].type = forms[f].type /\ forms'[f].text = forms[f].text
         /\ forms'[f].loaded = forms[f].loaded
  <2>1. CASE forms' = forms
    BY <2>1
  <2>2. ASSUME NEW id \in Ids, Submitted(id)
        PROVE  \A f \in Ids : /\ forms'[f].type = forms[f].type /\ forms'[f].text = forms[f].text
                              /\ forms'[f].loaded = forms[f].loaded
    BY <1>0, <2>2 DEF Submitted, TypeOK, Form
  <2> QED BY <2>1, <2>2 DEF TapLink, OpenActivity, pageVars
<1>5. PromisedForm' = PromisedForm
  BY <1>0, <1>2, <1>3, <1>4, FormKept
<1> QED BY <1>3, <1>5 DEF Simulated

LEMMA OpenKeeps ==
    ASSUME RootInv, TypeOK', Sorted', ~overlap', NEW t \in Types, OpenForm(t)
    PROVE  Simulated
<1>0. TypeOK /\ Sorted /\ prompts = <<>>
  BY DEF RootInv, DraftInv, GuardInv, SwipeInv, TypeInv, OpenForm, Navigate, TypeOK
<1>1. Len(stack) \in Nat \ {0} /\ DOMAIN stack = 1..Len(stack)
  BY <1>0, RoutePages
<1>2. Top.page = "HeadlineSelect"
  BY DEF OpenForm, Links
<1>3. ~OnStack("HeadlineForm")
  <2> SUFFICES ASSUME NEW k \in 1..Len(stack), stack[k].page = "HeadlineForm" PROVE FALSE
    BY <1>1 DEF OnStack
  <2>1. k # Len(stack)
    BY <1>2 DEF Top
  <2>2. k < Len(stack) /\ Len(stack) \in 1..Len(stack)
    <3>1. Len(stack) \in Nat /\ k \in Nat /\ 1 <= k /\ k <= Len(stack)
      BY <1>1
    <3> QED BY <2>1, <3>1
  <2>3. Rank(stack[k].page) < Rank(stack[Len(stack)].page)
    BY <1>0, <2>2 DEF Sorted
  <2>4. Rank("HeadlineForm") = 3 /\ Rank("HeadlineSelect") = 2
    BY DEF Rank
  <2> QED BY <1>2, <2>3, <2>4 DEF Top
<1>4. PromisedForm = NoDraft
  <2>1. \A id : ~FormMounted(id)
    BY <1>1, <1>3 DEF OnStack, FormMounted
  <2> QED BY <1>0, <2>1, FormNow DEF FormFact
<1>5. PICK n \in Ids : n = visits + 1
  BY <1>0, BoundsAssumption DEF OpenForm, TypeOK, Ids
<1>6. FormMounted(n)'
  <2>1. stack' = Append(stack, [page |-> "HeadlineForm", id |-> n])
    BY <1>3, <1>5 DEF OpenForm, Navigate
  <2>2. /\ Len(stack) + 1 \in DOMAIN stack'
        /\ stack'[Len(stack) + 1] = [page |-> "HeadlineForm", id |-> n]
    BY <1>0, <1>1, <2>1 DEF TypeOK
  <2> QED BY <2>2 DEF FormMounted
<1>7. forms'[n] = NewForm(t) /\ prompts' = <<>> /\ stored' = stored
  BY <1>0, <1>5 DEF OpenForm, TypeOK, guardVars
<1>8. PromisedForm' = Promise!Opened(t)
  <2>1. PromisedForm' = Promised(n)'
    BY <1>6, FormNext DEF FormFact
  <2>2. /\ forms'[n].type = t /\ forms'[n].text = Empty /\ forms'[n].loaded = FALSE
        /\ (prompts' # <<>>) = FALSE
    BY <1>7 DEF NewForm
  <2>3. Promised(n)' = Promise!Opened(t)
    BY <2>2, Zenon DEF Promised, Promise!Opened
  <2> QED BY <2>1, <2>3
<1>9. Promise!Open(t)
  BY <1>4, <1>7, <1>8 DEF Promise!Open
<1> QED BY <1>9 DEF Simulated, Promise!Kept

(* The text of the form is the one of the promise. *)
PromisedForms == [type : Types, text : Texts \cup {Empty}, loaded : BOOLEAN, asked : BOOLEAN]

LEMMA TextField ==
    ASSUME NEW r \in PromisedForms, NEW s \in PromisedForms, s.type = r.type, s.asked = r.asked
    PROVE  /\ s.loaded = r.loaded => s = [r EXCEPT !.text = s.text]
           /\ s.loaded = TRUE => s = [r EXCEPT !.text = s.text, !.loaded = TRUE]
BY DEF PromisedForms

LEMMA PromisedText ==
    ASSUME NEW id \in Ids, NEW v, TypeOK, TypeOK', prompts' = prompts,
           forms'[id].type = forms[id].type, forms'[id].text = v
    PROVE  /\ forms'[id].loaded = forms[id].loaded =>
                Promised(id)' = [Promised(id) EXCEPT !.text = v]
           /\ forms'[id].loaded = TRUE =>
                Promised(id)' = [Promised(id) EXCEPT !.text = v, !.loaded = TRUE]
<1>1. forms[id] \in Form /\ forms'[id] \in Form
  BY DEF TypeOK
<1>2. Promised(id) \in PromisedForms /\ Promised(id)' \in PromisedForms
  BY <1>1 DEF Promised, PromisedForms, Form
<1>3. PICK r \in PromisedForms, s \in PromisedForms : r = Promised(id) /\ s = Promised(id)'
  BY <1>2
<1>4. /\ s.type = r.type /\ s.asked = r.asked /\ s.text = v
      /\ r.loaded = forms[id].loaded /\ s.loaded = forms'[id].loaded
  BY <1>3 DEF Promised
<1>5. /\ s.loaded = r.loaded => s = [r EXCEPT !.text = s.text]
      /\ s.loaded = TRUE => s = [r EXCEPT !.text = s.text, !.loaded = TRUE]
  BY <1>4, TextField, Zenon
<1>6. /\ forms'[id].loaded = forms[id].loaded => s = [r EXCEPT !.text = v]
      /\ forms'[id].loaded = TRUE => s = [r EXCEPT !.text = v, !.loaded = TRUE]
  BY <1>4, <1>5, Zenon
<1> QED BY <1>3, <1>6, Zenon

LEMMA FormKeeps ==
    ASSUME RootInv, TypeOK', Sorted', ~overlap',
           \/ \E v \in Texts \cup {Empty} : InputChange(v)
           \/ Submit
           \/ \E id \in Ids : LoadStorage(id) \/ NotSubmitted(id)
    PROVE  Simulated
<1>0. TypeOK /\ Sorted
  BY DEF RootInv, DraftInv, GuardInv, SwipeInv, TypeInv
<1>1. stack' = stack /\ prompts' = prompts /\ stored' = stored
  BY DEF InputChange, Submit, LoadStorage, NotSubmitted, routeVars, guardVars
<1>2. \A id : FormMounted(id) <=> FormMounted(id)'
  BY <1>1 DEF FormMounted
<1>3. CASE Submit \/ \E id \in Ids : NotSubmitted(id)
  <2>1. \A f \in Ids : /\ forms'[f].type = forms[f].type /\ forms'[f].text = forms[f].text
                       /\ forms'[f].loaded = forms[f].loaded
    <3>1. ASSUME NEW id \in Ids, NEW b \in BOOLEAN, forms' = [forms EXCEPT ![id].submitting = b]
          PROVE  \A f \in Ids : /\ forms'[f].type = forms[f].type /\ forms'[f].text = forms[f].text
                               /\ forms'[f].loaded = forms[f].loaded
      BY <1>0, <3>1 DEF TypeOK, Form
    <3> QED BY <1>0, <1>3, <3>1, FormOnTop DEF Submit, NotSubmitted
  <2>2. PromisedForm' = PromisedForm
    BY <1>0, <1>1, <1>2, <2>1, FormKept
  <2> QED BY <1>1, <2>2 DEF Simulated
<1>4. ASSUME NEW v \in Texts \cup {Empty}, InputChange(v) PROVE Simulated
  <2>1. Guarded
    BY <1>4 DEF InputChange
  <2>2. PICK id \in Ids :
          /\ id = Top.id /\ FormMounted(id) /\ PromisedForm = Promised(id)
          /\ PromisedForm # NoDraft /\ forms[id] \in Form
    BY <1>0, <2>1, BelowTop, FormNow DEF FormFact
  <2>3. forms' = [forms EXCEPT ![id].text = v]
    BY <1>4, <2>2 DEF InputChange
  <2>4. /\ forms'[id].type = forms[id].type /\ forms'[id].text = v
        /\ forms'[id].loaded = forms[id].loaded
    BY <1>0, <2>2, <2>3 DEF TypeOK, Form
  <2>5. PromisedForm' = Promised(id)'
    BY <1>2, <2>2, FormNext DEF FormFact
  <2>6. PromisedForm' = [PromisedForm EXCEPT !.text = v]
    BY <1>1, <2>2, <2>4, <2>5, <1>0, PromisedText, Zenon
  <2>7. Promise!Edit(v)
    BY <1>1, <2>2, <2>6 DEF Promise!Edit
  <2> QED BY <2>7 DEF Simulated, Promise!Kept
<1>5. ASSUME NEW id \in Ids, LoadStorage(id) PROVE Simulated
  <2>1. FormMounted(id) /\ PromisedForm = Promised(id) /\ PromisedForm # NoDraft /\ forms[id] \in Form
    BY <1>0, <1>5, FormNow DEF FormFact, LoadStorage
  <2>2. CASE stored[forms[id].type] = NoDraft
    <3>1. \A f \in Ids : /\ forms'[f].type = forms[f].type /\ forms'[f].text = forms[f].text
                         /\ forms'[f].loaded = forms[f].loaded
      BY <1>0, <1>5, <2>2 DEF LoadStorage, TypeOK, Form
    <3>2. PromisedForm' = PromisedForm
      BY <1>0, <1>1, <1>2, <3>1, FormKept
    <3> QED BY <1>1, <3>2 DEF Simulated
  <2>3. CASE stored[forms[id].type] # NoDraft
    <3>1. /\ forms'[id].type = forms[id].type /\ forms'[id].text = stored[forms[id].type]
          /\ forms'[id].loaded = TRUE
      BY <1>0, <1>5, <2>1, <2>3 DEF LoadStorage, TypeOK, Form
    <3>2. PromisedForm' = Promised(id)'
      BY <1>2, <2>1, FormNext DEF FormFact
    <3>3. PromisedForm.type = forms[id].type
      BY <2>1 DEF Promised
    <3>4. PICK v : v = stored[forms[id].type]
      OBVIOUS
    <3>5. PromisedForm' = [PromisedForm EXCEPT !.text = v, !.loaded = TRUE]
      BY <1>1, <2>1, <3>1, <3>2, <3>4, <1>0, PromisedText, Zenon
    <3>6. Promise!Load
      BY <1>1, <2>1, <2>3, <3>3, <3>4, <3>5, Zenon DEF Promise!Load
    <3> QED BY <3>6 DEF Simulated, Promise!Kept
  <2> QED BY <2>2, <2>3
<1> QED BY <1>3, <1>4, <1>5

-----------------------------------------------------------------------------
LEMMA PromiseInit == Init => RootInv /\ Promise!Init
<1> SUFFICES ASSUME Init PROVE RootInv /\ Promise!Init
  OBVIOUS
<1>1. RootInv /\ TypeOK /\ Sorted
  BY DraftInit DEF RootInv, RootLeft, Init, Opened, DraftInv, GuardInv, SwipeInv, TypeInv
<1>2. PICK p \in Roots : stack = <<[page |-> p, id |-> IF p \in Stateful THEN 1 ELSE 0]>>
  BY DEF Init, Opened
<1>3. PICK t \in Types : forms = [i \in Ids |-> NewForm(t)]
  BY DEF Init, Opened
<1>4. prompts = <<>> /\ overlap = FALSE /\ stored \in [Types -> Drafts]
  BY DEF Init, Opened
<1>5. PromisedForm = NoDraft \/ PromisedForm = Promise!Opened(t)
  <2>1. CASE p = "HeadlineForm"
    <3>1. stack = <<[page |-> "HeadlineForm", id |-> 1]>> /\ 1 \in Ids
      BY <1>2, <2>1, BoundsAssumption DEF Stateful, Ids
    <3>2. FormMounted(1)
      BY <3>1 DEF FormMounted
    <3>3. forms[1] = NewForm(t)
      BY <1>3, <3>1
    <3>4. Promised(1) = Promise!Opened(t)
      <4>1. /\ forms[1].type = t /\ forms[1].text = Empty /\ forms[1].loaded = FALSE
            /\ (prompts # <<>>) = FALSE
        BY <1>4, <3>3 DEF NewForm
      <4> QED BY <4>1, Zenon DEF Promised, Promise!Opened
    <3> QED BY <1>1, <3>2, <3>4, FormNow DEF FormFact
  <2>2. CASE p # "HeadlineForm"
    <3>1. \A id : ~FormMounted(id)
      BY <1>2, <2>2 DEF FormMounted
    <3> QED BY <1>1, <3>1, FormNow DEF FormFact
  <2> QED BY <2>1, <2>2
<1> QED BY <1>1, <1>4, <1>5 DEF Promise!Init, Drafts

LEMMA PromiseSimulation ==
    RootInv /\ [Next]_vars => [Promise!Next]_<<PromisedForm, stored, overlap>>
<1> SUFFICES ASSUME RootInv, [Next]_vars, ~overlap'
             PROVE  ~overlap /\ overlap' = overlap /\ Simulated
  BY DEF Promise!Next, Simulated
<1>1. /\ TypeOK /\ Sorted /\ ~overlap /\ overlap' = overlap
      /\ TypeOK' /\ Sorted'
  BY OverlapStays, RootStep DEF RootInv, DraftInv, GuardInv, SwipeInv, TypeInv, TypeOK
<1>2. CASE HeaderPop \/ SystemBack
  BY <1>1, <1>2, BackKeeps DEF HeaderPop, SystemBack
<1>3. CASE Leave \/ Stay
  BY <1>1, <1>3, AnswerKeeps
<1>4. CASE (\E p \in Pages : TapLink(p)) \/ OpenActivity \/ \E id \in Ids : Submitted(id)
  BY <1>1, <1>4, NavigationKeeps
<1>5. CASE \E t \in Types : OpenForm(t)
  BY <1>1, <1>5, OpenKeeps
<1>6. CASE \/ \E v \in Texts \cup {Empty} : InputChange(v)
           \/ Submit
           \/ \E id \in Ids : LoadStorage(id) \/ NotSubmitted(id)
  BY <1>1, <1>6, FormKeeps
<1>7. ASSUME UNCHANGED <<stack, forms, prompts>> PROVE PromisedForm' = PromisedForm
  BY <1>7 DEF PromisedForm, OnStack
<1>8. CASE UNCHANGED <<stack, forms, prompts, stored>>
  BY <1>1, <1>7, <1>8 DEF Simulated
<1>9. ASSUME NEW t \in Types, Expire(t) PROVE Simulated
  <2>1. Promise!Expire(t)
    BY <1>7, <1>9 DEF Expire, Promise!Expire, routeVars, guardVars, pageVars
  <2> QED BY <2>1 DEF Simulated, Promise!Kept
<1> QED
  BY <1>1, <1>2, <1>3, <1>4, <1>5, <1>6, <1>8, <1>9
  DEF Next, vars, routeVars, guardVars, pageVars, ShowAlert, Exit, CompleteTransition,
      FetchActivity, ShowImages, HideImages

(* Router, back guard, alert and form together implement the promise of    *)
(* the form: every step is a step of it or leaves it as it is.             *)
THEOREM Implements == Spec => PromiseKept
<1>1. RootInv /\ [Next]_vars => [Promise!Next]_Promise!pvars
  BY PromiseSimulation DEF Promise!pvars
<1> QED BY <1>1, PromiseInit, RootStep, PTL DEF Spec, PromiseKept, Promise!Spec
=============================================================================
