---------------------------- MODULE AccountFlow ----------------------------
(***************************************************************************)
(* The account pages: VerifyPhone, which leads to BindPhone, and BindPhone, *)
(* SetPassword and ResetPassword, whose success closes the app.  All four  *)
(* send one request, take no second tap while submitting and go on when it *)
(* succeeds; none of them withdraws a request when its page is left.       *)
(*                                                                         *)
(* The page the host opened has id 1; the BindPhone pages that VerifyPhone *)
(* opens have the ids after it.  A request is either answered as done, or  *)
(* not: refused with a message, lost, an error without a message, or a     *)
(* verification without the token a new number needs, which all do no more *)
(* than end the submission.                                                *)
(***************************************************************************)
EXTENDS Naturals, Sequences

CONSTANTS
    MaxPages,     \* bound: pages opened in one behaviour
    MaxApplied    \* bound: changes of the account the server makes

ASSUME BoundsAssumption == MaxPages \in Nat \ {0} /\ MaxApplied \in Nat

VARIABLES
    root,        \* never changes: what the host opened
    stack,       \* ids of the pages, the root first
    opened,      \* the last id used
    submitting,  \* state.submitting of each page
    requests,    \* requests of each page that are not answered
    applied,     \* history: changes of the account the server made
    left,        \* "no", or who left the app: "user" or "code"
    unheard,     \* history: the answer to a change was lost
    abandoned    \* history: a page was left with its request in flight

vars == <<root, stack, opened, submitting, requests, applied, left, unheard, abandoned>>

Ids   == 1..MaxPages
Roots == {"VerifyPhone", "BindPhone", "SetPassword", "ResetPassword"}

TypeOK ==
    /\ root \in Roots /\ opened \in Ids
    /\ stack \in Seq(Ids) /\ Len(stack) \in {1, 2}
    /\ submitting \in [Ids -> BOOLEAN] /\ requests \in [Ids -> 0..1]
    /\ applied \in 0..MaxApplied
    /\ left \in {"no", "user", "code"}
    /\ unheard \in BOOLEAN /\ abandoned \in BOOLEAN

Top      == stack[Len(stack)]
Page(id) == IF id = 1 THEN root ELSE "BindPhone"

Init ==
    /\ root \in Roots
    /\ stack = <<1>> /\ opened = 1
    /\ submitting = [id \in Ids |-> FALSE] /\ requests = [id \in Ids |-> 0]
    /\ applied = 0 /\ left = "no"
    /\ unheard = FALSE /\ abandoned = FALSE

-----------------------------------------------------------------------------
(* The button of the page on top, its inputs filled in. *)
SubmitAgain(id) ==  \* mutated: submitting is not looked at
    /\ left = "no" /\ id = Top /\ requests[id] < 2
    /\ submitting' = [submitting EXCEPT ![id] = TRUE]
    /\ requests' = [requests EXCEPT ![id] = @ + 1]
    /\ UNCHANGED <<root, stack, opened, applied, left, unheard, abandoned>>
SubmitUnmarked(id) ==  \* mutated: submitting is not set
    /\ left = "no" /\ id = Top /\ ~submitting[id] /\ requests[id] < 2
    /\ requests' = [requests EXCEPT ![id] = @ + 1]
    /\ UNCHANGED <<root, stack, opened, submitting, applied, left, unheard, abandoned>>
Submit(id) ==
    /\ left = "no" /\ id = Top /\ ~submitting[id]
    /\ submitting' = [submitting EXCEPT ![id] = TRUE]
    /\ requests' = [requests EXCEPT ![id] = @ + 1]
    /\ UNCHANGED <<root, stack, opened, applied, left, unheard, abandoned>>

(* The code of the phone number is right: BindPhone is opened. *)
Verified(id) ==
    /\ Page(id) = "VerifyPhone" /\ opened < MaxPages
    /\ opened' = opened + 1
    /\ stack' = Append(stack, opened + 1)
    /\ UNCHANGED <<applied, left, unheard>>

(* The account is changed; when the page hears of it, it closes the app. *)
Applied(id) ==
    /\ Page(id) # "VerifyPhone" /\ applied < MaxApplied
    /\ applied' = applied + 1
    /\ \/ left' = "code" /\ UNCHANGED unheard
       \/ unheard' = TRUE /\ UNCHANGED left
    /\ UNCHANGED <<stack, opened>>

NotDoneLeaves(id) ==  \* mutated: undefined passes for a success
    /\ left' = "code"
    /\ UNCHANGED <<stack, opened, applied, unheard>>
NotDone(id) == UNCHANGED <<stack, opened, applied, left, unheard>>

AnswerKeepsSubmitting(id) ==  \* mutated: only a success resets submitting
    /\ requests[id] > 0
    /\ requests' = [requests EXCEPT ![id] = @ - 1]
    /\ \/ Verified(id) /\ submitting' = [submitting EXCEPT ![id] = FALSE]
       \/ Applied(id) /\ submitting' = [submitting EXCEPT ![id] = FALSE]
       \/ NotDone(id) /\ UNCHANGED submitting
    /\ UNCHANGED <<root, abandoned>>
Answer(id) ==
    /\ requests[id] > 0
    /\ requests' = [requests EXCEPT ![id] = @ - 1]
    /\ submitting' = [submitting EXCEPT ![id] = FALSE]
    /\ Verified(id) \/ Applied(id) \/ NotDone(id)
    /\ UNCHANGED <<root, abandoned>>

(* The user goes back; at the root that leaves the app. *)
BackAlways ==  \* mutated: the root is taken off the stack too
    /\ left = "no"
    /\ stack' = SubSeq(stack, 1, Len(stack) - 1)
    /\ left' = IF Len(stack) = 1 THEN "user" ELSE left
    /\ abandoned' = (abandoned \/ requests[Top] > 0)
    /\ UNCHANGED <<root, opened, submitting, requests, applied, unheard>>
Back ==
    /\ left = "no"
    /\ IF Len(stack) = 1
         THEN left' = "user" /\ UNCHANGED stack
         ELSE stack' = <<1>> /\ UNCHANGED left
    /\ abandoned' = (abandoned \/ requests[Top] > 0)
    /\ UNCHANGED <<root, opened, submitting, requests, applied, unheard>>

Next == Back \/ \E id \in Ids : Submit(id) \/ Answer(id)

(* The operating system ends every request, with an answer or an error. *)
Spec == Init /\ [][Next]_vars /\ \A id \in Ids : WF_vars(Answer(id))

-----------------------------------------------------------------------------
(* The answer to VerifyPhone finds VerifyPhone on top, so its navigate     *)
(* opens a fresh BindPhone with the new token and never falls on an old    *)
(* one, whatever was opened, left and sent in between.                     *)
VerifierOnTop ==
    root = "VerifyPhone" /\ requests[1] > 0 => Top = 1

(* The account is changed a second time only when the first change was not *)
(* heard of, or its page was left before the answer came.                  *)
ChangedOnce == applied > 1 => unheard \/ abandoned

(* The pages close the app only upon a change the server has made.         *)
ClosesWhenDone == left = "code" => applied > 0

(* The button of a page comes back, or the app is left.                    *)
ButtonReturns == \A id \in Ids : submitting[id] ~> (~submitting[id] \/ left # "no")

=============================================================================
