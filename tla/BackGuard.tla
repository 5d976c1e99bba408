------------------------------ MODULE BackGuard ------------------------------
(***************************************************************************)
(* The page stack of the app and the two things hooked onto its router in  *)
(* AppNavigators.js: the back guard (params.backFn, module variables       *)
(* goBack and oStateIndex) and the switching of the host application's own *)
(* swipe-back gesture (SwipBackModule).                                    *)
(*                                                                         *)
(* The one page that sets a backFn is the application form HeadlineForm:   *)
(* its backFn saves the draft, after an alert when there is unsaved text   *)
(* and no draft was loaded.  Alerts, answers of the server and ends of     *)
(* transitions arrive in any order with the user's taps.                   *)
(***************************************************************************)
EXTENDS Naturals, Sequences

CONSTANTS
    Roots,       \* pages the host application may open the app at
    Types,       \* types of applicant, each with its own draft
    Texts,       \* contents of the form's text inputs, the empty one aside
    Empty,       \* all text inputs empty
    NoDraft,     \* no draft in storage
    MaxVisits,   \* bound: form and activity pages opened in one behaviour
    MaxPrompts   \* bound: alerts of backFn waiting for an answer

Pages == {"HeadlineIndex", "HeadlineSelect", "HeadlineForm", "HeadlineSubmitted",
          "WebPage", "ActivitysSignUpManagement", "ActivityDetail", "ActivityJoiners"}

(* The pages whose state is modelled get a fresh identity when pushed. *)
Stateful == {"HeadlineForm", "ActivityDetail"}

ASSUME RootsAssumption  == Roots \subseteq Pages
ASSUME TextsAssumption  == Empty \notin Texts /\ NoDraft \notin Texts /\ NoDraft # Empty
ASSUME BoundsAssumption == MaxVisits \in Nat \ {0} /\ MaxPrompts \in Nat
ASSUME ClosedAssumption ==  \* NoDraft also stands for the form that is not open
    NoDraft \notin [type : Types, text : Texts \cup {Empty}, loaded : BOOLEAN, asked : BOOLEAN]

VARIABLES
    stack,          \* routes, the root first; every one is [page, id]
    transitioning,  \* state.isTransitioning
    swipe,          \* the host's swipe-back gesture is enabled
    exited,         \* the app was left for the host application
    goBack,         \* module variable: the id whose goBack it holds, 0 for false
    oStateIndex,    \* module variable: 0 stands for false, as 0 == false there
    prompts,        \* alerts of backFn not answered yet, the last one on top
    modal,          \* an alert covers the screen
    overlap,        \* history: a back or a page came while an alert was pending
    visits,         \* number of form and activity pages opened: the last id used
    forms,          \* state of the form mounted with each id
    stored,         \* AppStorage: the draft of each type
    activity,       \* the activity page mounted with each id: what it shows
    viewer          \* the image browser covers the top page

guardVars == <<goBack, oStateIndex, prompts>>
routeVars == <<stack, transitioning, swipe, exited>>
pageVars  == <<visits, forms, activity>>
vars == <<routeVars, guardVars, modal, overlap, pageVars, stored, viewer>>

Ids    == 1..MaxVisits
Drafts == Texts \cup {Empty, NoDraft}
Route  == [page : Stateful, id : Ids] \cup [page : Pages \ Stateful, id : {0}]
Form   == [type : Types, text : Texts \cup {Empty}, loading : BOOLEAN,
           loaded : BOOLEAN, submitting : BOOLEAN]

TypeOK ==
    /\ stack \in Seq(Route) /\ Len(stack) >= 1
    /\ transitioning \in BOOLEAN /\ swipe \in BOOLEAN /\ exited \in BOOLEAN
    /\ goBack \in 0..MaxVisits /\ oStateIndex \in Nat
    /\ prompts \in Seq([id : Ids, index : Nat])
    /\ modal \in BOOLEAN /\ overlap \in BOOLEAN /\ viewer \in BOOLEAN
    /\ visits \in 0..MaxVisits
    /\ forms \in [Ids -> Form]
    /\ stored \in [Types -> Drafts]
    /\ activity \in [Ids -> {"none", "loading", "shown", "failed"}]

-----------------------------------------------------------------------------
(* The pages a tap on the page itself navigates to. *)
Links(page) ==
    CASE page = "HeadlineIndex"             -> {"HeadlineSelect"}
      [] page = "HeadlineSelect"            -> {"HeadlineForm"}
      [] page = "HeadlineForm"              -> {"WebPage"}
      [] page = "ActivitysSignUpManagement" -> {"ActivityDetail"}
      [] page = "ActivityDetail"            -> {"ActivityJoiners"}
      [] OTHER                              -> {}

Top        == stack[Len(stack)]
StateIndex == Len(stack) - 1
Mounted(id) == \E i \in DOMAIN stack : stack[i].id = id
OnStack(page) == \E i \in DOMAIN stack : stack[i].page = page
FormMounted(id) == \E i \in DOMAIN stack : stack[i] = [page |-> "HeadlineForm", id |-> id]
Guarded    == Top.page = "HeadlineForm"

(* Nothing of the app reacts to a touch when it is gone or under an alert. *)
Touchable == ~exited /\ ~modal

NewForm(t) == [type |-> t, text |-> Empty, loading |-> TRUE,
               loaded |-> FALSE, submitting |-> FALSE]

(* The start page Index replaces itself, as it mounts, by the page the host *)
(* application names; a REPLACE enables the host's gesture.                 *)
Opened(p) ==
    /\ stack = <<[page |-> p, id |-> IF p \in Stateful THEN 1 ELSE 0]>>
    /\ transitioning = FALSE /\ swipe = TRUE /\ exited = FALSE
    /\ visits = IF p \in Stateful THEN 1 ELSE 0
    /\ activity = [i \in Ids |-> IF i = 1 /\ p = "ActivityDetail" THEN "loading" ELSE "none"]

Init ==
    /\ \E p \in Roots : Opened(p)
    /\ goBack = 0 /\ oStateIndex = 0 /\ prompts = <<>>
    /\ modal = FALSE /\ overlap = FALSE /\ viewer = FALSE
    /\ \E t \in Types : forms = [i \in Ids |-> NewForm(t)]
    /\ stored \in [Types -> Drafts]  \* what earlier starts of the app left

-----------------------------------------------------------------------------
(* The part of getStateForAction that follows the back guard: what it does *)
(* to the host's gesture, decided on the state before the action.          *)
SwipBackAnywhere(type, stopBack) ==  \* mutated: the length of the stack is not looked at
    IF ~stopBack
      THEN IF type = "POP"
             THEN swipe
             ELSE type \in {"REPLACE", "COMPLETE_TRANSITION", "SET_PARAMS"}
      ELSE FALSE
SwipBackUnstopped(type, stopBack) ==  \* mutated: stopBack is not looked at
    IF Len(stack) = 1
      THEN IF type = "POP"
             THEN swipe
             ELSE type \in {"REPLACE", "COMPLETE_TRANSITION", "SET_PARAMS"}
      ELSE swipe
SwipBackLocked(type, stopBack) ==  \* mutated: COMPLETE_TRANSITION is left out
    IF Len(stack) = 1 /\ ~stopBack
      THEN IF type = "POP" THEN swipe ELSE type \in {"REPLACE", "SET_PARAMS"}
      ELSE swipe /\ ~stopBack
SwipBack(type, stopBack) ==
    IF Len(stack) = 1 /\ ~stopBack
      THEN IF type = "POP"
             THEN swipe
             ELSE type \in {"REPLACE", "COMPLETE_TRANSITION", "SET_PARAMS"}
      ELSE swipe /\ ~stopBack

(* The default router cuts the stack down to its first n routes. *)
CutToNothing(n) ==  \* mutated: the root is taken off too
    stack' = SubSeq(stack, 1, n) /\ transitioning' = TRUE
CutTo(n) ==
    IF n >= 1
      THEN stack' = SubSeq(stack, 1, n) /\ transitioning' = TRUE
      ELSE UNCHANGED <<stack, transitioning>>

(* The number of routes below the one with this id, 0 when it is gone. *)
Below(id) ==
    IF Mounted(id) THEN (CHOOSE i \in DOMAIN stack : stack[i].id = id) - 1 ELSE 0

(* A back request of the user that is not interrupted: at the root a POP   *)
(* calls SwipBackModule.exit() and a BACK is left to the host, which       *)
(* closes the page.                                                        *)
DefaultBack(type) ==
    /\ CutTo(Len(stack) - 1)
    /\ swipe' = SwipBack(type, FALSE)
    /\ exited' = (Len(stack) = 1)

(* The BACK with the form's key that backFn's result dispatches. *)
KeyedBack(id) ==
    /\ CutTo(Below(id))
    /\ swipe' = SwipBack("BACK", FALSE)
    /\ UNCHANGED exited

(* What follows the await in _backFn: goBack and oStateIndex are set, and  *)
(* goBack() dispatches at once, which takes them back to false only if the *)
(* page then on top has a backFn.                                          *)
ResumeWithoutReset(id, index) ==  \* mutated: the guard does not take them back
    /\ goBack' = id /\ oStateIndex' = index
    /\ KeyedBack(id)
Resume(id, index) ==
    /\ IF Guarded
         THEN goBack' = 0 /\ oStateIndex' = 0
         ELSE goBack' = id /\ oStateIndex' = index
    /\ KeyedBack(id)

NeedsPromptSwapped(f) == f.text # Empty /\ f.loaded  \* mutated: asks about the loaded draft
NeedsPrompt(f) == f.text # Empty /\ ~f.loaded
SavedAsOne(f) == [stored EXCEPT ![CHOOSE t \in Types : TRUE] = f.text]  \* mutated: one key for all types
Saved(f) == [stored EXCEPT ![f.type] = f.text]
InterceptsNothing == FALSE  \* mutated: the back goes on while backFn is pending
Intercepts == StateIndex # oStateIndex

-----------------------------------------------------------------------------
(* A POP or BACK dispatched by the user, by what the guard makes of it. *)
Unguarded(type) ==
    /\ ~Guarded
    /\ DefaultBack(type)
    /\ UNCHANGED <<guardVars, stored>>

(* goBack still holds a function: it is dropped and backFn is not called. *)
PassGuard(type) ==
    /\ Guarded /\ goBack # 0
    /\ goBack' = 0 /\ oStateIndex' = 0
    /\ DefaultBack(type)
    /\ UNCHANGED <<prompts, stored>>

AskLeave(type) ==
    /\ Guarded /\ goBack = 0 /\ NeedsPrompt(forms[Top.id])
    /\ Len(prompts) < MaxPrompts
    /\ prompts' = Append(prompts, [id |-> Top.id, index |-> StateIndex])
    /\ IF Intercepts
         THEN UNCHANGED <<routeVars, oStateIndex>>
         ELSE DefaultBack(type) /\ oStateIndex' = 0
    /\ UNCHANGED <<goBack, stored>>

(* backFn saves and resolves by itself: its continuation runs before the   *)
(* next event.  At the root nothing is intercepted, so the app is left and *)
(* the continuation finds the form still on top.                           *)
LeaveAtOnce ==
    /\ Guarded /\ goBack = 0 /\ ~NeedsPrompt(forms[Top.id])
    /\ stored' = Saved(forms[Top.id])
    /\ IF StateIndex = 0
         THEN /\ exited' = TRUE
              /\ swipe' = SwipBack("BACK", FALSE)
              /\ goBack' = 0 /\ oStateIndex' = 0
              /\ UNCHANGED <<stack, transitioning>>
         ELSE Intercepts /\ Resume(Top.id, StateIndex)
    /\ UNCHANGED prompts

Back(type) ==
    /\ Touchable
    /\ Unguarded(type) \/ PassGuard(type) \/ AskLeave(type) \/ LeaveAtOnce
    /\ overlap' = (overlap \/ prompts # <<>>)
    /\ viewer' = FALSE
    /\ UNCHANGED <<modal, pageVars>>

(* The arrow in the header; HeadlineSubmitted has none, and the image      *)
(* browser covers the one of the activity page.                            *)
HeaderPop == Top.page # "HeadlineSubmitted" /\ ~viewer /\ Back("POP")

(* Android's back button, and the swipe between two pages of the app. *)
SystemBack == Back("BACK")

(* The native alert comes up after backFn has asked for it. *)
ShowAlert ==
    /\ ~exited /\ prompts # <<>> /\ ~modal
    /\ modal' = TRUE
    /\ UNCHANGED <<routeVars, guardVars, overlap, pageVars, stored, viewer>>

TopPrompt == prompts[Len(prompts)]
DropPrompt ==
    /\ prompts' = SubSeq(prompts, 1, Len(prompts) - 1)
    /\ modal' = (Len(prompts) > 1)

(* The alert's button that leaves the page: save, then resolve. *)
Leave ==
    /\ ~exited /\ modal
    /\ DropPrompt
    /\ stored' = Saved(forms[TopPrompt.id])
    /\ Resume(TopPrompt.id, TopPrompt.index)
    /\ UNCHANGED <<overlap, pageVars, viewer>>

(* The alert is dismissed: the promise of backFn never settles. *)
Stay ==
    /\ ~exited /\ modal
    /\ DropPrompt
    /\ UNCHANGED <<routeVars, goBack, oStateIndex, overlap, pageVars, stored, viewer>>

-----------------------------------------------------------------------------
(* NAVIGATE: the page is pushed, or, when it is on the stack already, the  *)
(* stack is cut down to it.  A form sets its backFn as it mounts.          *)
Navigate(page, id) ==
    /\ IF OnStack(page)
         THEN LET at == CHOOSE i \in DOMAIN stack : stack[i].page = page
              IN  /\ stack' = SubSeq(stack, 1, at)
                  /\ transitioning' = (at # Len(stack) \/ transitioning)
         ELSE stack' = Append(stack, [page |-> page, id |-> id]) /\ transitioning' = TRUE
    /\ swipe' = SwipBack("NAVIGATE", FALSE)
    /\ overlap' = (overlap \/ prompts # <<>>)

TapLink(page) ==
    /\ Touchable /\ ~viewer /\ page \in Links(Top.page) /\ page \notin Stateful
    /\ Navigate(page, 0)
    /\ UNCHANGED <<exited, guardVars, modal, pageVars, stored, viewer>>

OpenForm(t) ==
    /\ Touchable /\ "HeadlineForm" \in Links(Top.page) /\ visits < MaxVisits
    /\ Navigate("HeadlineForm", visits + 1)
    /\ visits' = visits + 1
    /\ forms' = [forms EXCEPT ![visits + 1] = NewForm(t)]
    /\ UNCHANGED <<exited, guardVars, modal, activity, stored, viewer>>

OpenActivity ==
    /\ Touchable /\ "ActivityDetail" \in Links(Top.page) /\ visits < MaxVisits
    /\ Navigate("ActivityDetail", visits + 1)
    /\ visits' = visits + 1
    /\ activity' = [activity EXCEPT ![visits + 1] = "loading"]
    /\ UNCHANGED <<exited, guardVars, modal, forms, stored, viewer>>

(* The transition between two pages ends; the pages popped unmount. *)
CompleteTransition ==
    /\ ~exited /\ transitioning
    /\ transitioning' = FALSE
    /\ swipe' = SwipBack("COMPLETE_TRANSITION", FALSE)
    /\ UNCHANGED <<stack, exited, guardVars, modal, overlap, pageVars, stored, viewer>>

(* The host's gesture, or the button of HeadlineSubmitted, ends the app. *)
Exit ==
    /\ Touchable /\ (swipe \/ Top.page = "HeadlineSubmitted")
    /\ exited' = TRUE
    /\ UNCHANGED <<stack, transitioning, swipe, guardVars, modal, overlap,
                   pageVars, stored, viewer>>

-----------------------------------------------------------------------------
(* The form. *)
InputChange(v) ==
    /\ Touchable /\ Guarded /\ forms[Top.id].text # v
    /\ forms' = [forms EXCEPT ![Top.id].text = v]
    /\ UNCHANGED <<routeVars, guardVars, modal, overlap, visits, activity, stored, viewer>>

(* The draft read from storage replaces the text of the form, if there is  *)
(* one and the form is still there.                                        *)
LoadStorageUnmarked(id) ==  \* mutated: loadStorageSuccess is not set
    LET f == forms[id] IN
    /\ ~exited /\ FormMounted(id) /\ f.loading
    /\ forms' = [forms EXCEPT ![id] =
           IF stored[f.type] = NoDraft
             THEN [f EXCEPT !.loading = FALSE]
             ELSE [f EXCEPT !.loading = FALSE, !.text = stored[f.type]]]
    /\ UNCHANGED <<routeVars, guardVars, modal, overlap, visits, activity, stored, viewer>>
LoadStorage(id) ==
    LET f == forms[id] IN
    /\ ~exited /\ FormMounted(id) /\ f.loading
    /\ forms' = [forms EXCEPT ![id] =
           IF stored[f.type] = NoDraft
             THEN [f EXCEPT !.loading = FALSE]
             ELSE [f EXCEPT !.loading = FALSE, !.loaded = TRUE, !.text = stored[f.type]]]
    /\ UNCHANGED <<routeVars, guardVars, modal, overlap, visits, activity, stored, viewer>>

(* A draft is kept for 24 hours. *)
Expire(t) ==
    /\ stored[t] # NoDraft
    /\ stored' = [stored EXCEPT ![t] = NoDraft]
    /\ UNCHANGED <<routeVars, guardVars, modal, overlap, pageVars, viewer>>

Submit ==
    /\ Touchable /\ Guarded /\ forms[Top.id].text # Empty /\ ~forms[Top.id].submitting
    /\ forms' = [forms EXCEPT ![Top.id].submitting = TRUE]
    /\ UNCHANGED <<routeVars, guardVars, modal, overlap, visits, activity, stored, viewer>>

(* The answer to the application, whatever page is on top by now. *)
Submitted(id) ==
    /\ ~exited /\ forms[id].submitting
    /\ forms' = [forms EXCEPT ![id].submitting = FALSE]
    /\ Navigate("HeadlineSubmitted", 0)
    /\ UNCHANGED <<exited, guardVars, modal, visits, activity, stored, viewer>>

NotSubmitted(id) ==
    /\ ~exited /\ forms[id].submitting
    /\ forms' = [forms EXCEPT ![id].submitting = FALSE]
    /\ UNCHANGED <<routeVars, guardVars, modal, overlap, visits, activity, stored, viewer>>

-----------------------------------------------------------------------------
(* The activity page: its data arrive, which sets a param of its route, and *)
(* its pictures can then be browsed.                                        *)
FetchActivity(id) ==
    /\ ~exited /\ activity[id] = "loading"
    /\ \/ activity' = [activity EXCEPT ![id] = "shown"] /\ swipe' = SwipBack("SET_PARAMS", FALSE)
       \/ activity' = [activity EXCEPT ![id] = "failed"] /\ UNCHANGED swipe
    /\ UNCHANGED <<stack, transitioning, exited, guardVars, modal, overlap,
                   visits, forms, stored, viewer>>

ShowImages ==
    /\ Touchable /\ ~viewer /\ Top.page = "ActivityDetail" /\ activity[Top.id] = "shown"
    /\ ~transitioning
    /\ viewer' = TRUE
    /\ swipe' = SwipBack("SET_PARAMS", TRUE)
    /\ UNCHANGED <<stack, transitioning, exited, guardVars, modal, overlap, pageVars, stored>>

HideImages ==
    /\ Touchable /\ viewer
    /\ viewer' = FALSE
    /\ swipe' = SwipBack("SET_PARAMS", FALSE)
    /\ UNCHANGED <<stack, transitioning, exited, guardVars, modal, overlap, pageVars, stored>>

-----------------------------------------------------------------------------
Next ==
    \/ HeaderPop \/ SystemBack
    \/ ShowAlert \/ Leave \/ Stay
    \/ \E p \in Pages : TapLink(p)
    \/ \E t \in Types : OpenForm(t) \/ Expire(t)
    \/ OpenActivity \/ CompleteTransition \/ Exit
    \/ \E v \in Texts \cup {Empty} : InputChange(v)
    \/ Submit
    \/ \E id \in Ids : LoadStorage(id) \/ Submitted(id) \/ NotSubmitted(id) \/ FetchActivity(id)
    \/ ShowImages \/ HideImages

(* A transition is a timed animation: it ends.  Nothing else is assumed:   *)
(* the user may do nothing and the server may never answer.                *)
Spec == Init /\ [][Next]_vars /\ WF_vars(CompleteTransition)

-----------------------------------------------------------------------------
(* The host's swipe gesture leaves the whole app, so it must be off while  *)
(* there is a page to go back to: SwipBackModule follows every push and    *)
(* pop although it is told before the router has moved.                    *)
SwipeOnlyAtRoot == swipe => Len(stack) = 1

(* Nor may that gesture leave the app under a picture being browsed:       *)
(* ImageBrowser's stopBack must win over everything that enables it.       *)
ViewerBlocksSwipe == viewer => ~swipe

(* goBack and oStateIndex are only ever left set, so that the next form    *)
(* would be left without its backFn, when a back request or a page came    *)
(* while an alert was pending.                                             *)
StaleOnlyAfterOverlap == ~overlap => goBack = 0 /\ oStateIndex = 0

(* While backFn's alert is unanswered the form stays the page on top and   *)
(* the app stays open, provided the form is not the app's first page.      *)
PendingKeepsPage ==
    prompts # <<>> /\ ~overlap /\ stack[1].page # "HeadlineForm" => Guarded /\ ~exited

(* What the comment on the router says without that proviso: a backFn      *)
(* whose promise is not resolved interrupts the going back.                *)
PendingInterrupts == prompts # <<>> /\ ~overlap => Guarded /\ ~exited

(* What is in a form as it is taken off the stack is what is stored then,  *)
(* as long as nothing came while an alert was pending.                     *)
Leaves(id) == FormMounted(id) /\ ~FormMounted(id)'
KeepsDraft ==
    \A id \in Ids : Leaves(id) => stored'[forms[id].type] = forms[id].text
DraftKept == [][overlap' \/ KeepsDraft]_vars

(* What the alert of the form says without that proviso: leaving saves the *)
(* text that was filled in.                                                *)
KeepsText ==
    \A id \in Ids : Leaves(id) /\ forms[id].text # Empty
                      => stored'[forms[id].type] = forms[id].text
TextAlwaysKept == [][KeepsText]_vars

(* A draft is not lost unseen: the text stored is only replaced by nothing *)
(* when the form it belongs to has shown it.  The exception is a form that *)
(* is left before the storage answers, which is saved empty over its draft.*)
DraftSeen(t) ==
    \E id \in Ids : /\ FormMounted(id) /\ forms[id].type = t
                    /\ forms[id].loaded \/ forms[id].loading
DraftSeenFirst ==
    [][overlap' \/ \A t \in Types : stored[t] \in Texts /\ stored'[t] = Empty => DraftSeen(t)]_vars

(* Back on the app's first page, with no picture open, the host's gesture  *)
(* comes back: an iOS user is not locked in.                               *)
SwipeReturns ==
    (Len(stack) = 1 /\ ~exited /\ ~overlap)
        ~> (swipe \/ viewer \/ Len(stack) > 1 \/ exited \/ overlap)

(* The promise about the text of the form, kept by router and form together. *)
PromisedForm ==
    IF OnStack("HeadlineForm")
      THEN LET at == CHOOSE i \in DOMAIN stack : stack[i].page = "HeadlineForm"
               f  == forms[stack[at].id]
           IN  [type |-> f.type, text |-> f.text, loaded |-> f.loaded, asked |-> prompts # <<>>]
      ELSE NoDraft
Promise == INSTANCE DraftPromise WITH
    Closed <- NoDraft, form <- PromisedForm, draft <- stored, tangled <- overlap
PromiseKept == Promise!Spec
=============================================================================
