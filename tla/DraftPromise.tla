---------------------------- MODULE DraftPromise ----------------------------
(***************************************************************************)
(* What the application form promises about the text typed into it: the    *)
(* page is only closed with its text saved as the draft of its type, and   *)
(* when there is text that no draft accounts for, only after the user was  *)
(* asked.  The promise is off from the moment a back request or another    *)
(* page comes while the user is being asked (tangled).                     *)
(***************************************************************************)
CONSTANTS Types, Texts, Empty, NoDraft, Closed

VARIABLES form,    \* Closed, or the type, text, ... of the page
          draft,   \* the draft kept for each type
          tangled

pvars == <<form, draft, tangled>>

Opened(t) == [type |-> t, text |-> Empty, loaded |-> FALSE, asked |-> FALSE]

Init ==
    /\ form = Closed \/ \E t \in Types : form = Opened(t)
    /\ draft \in [Types -> Texts \cup {Empty, NoDraft}]
    /\ tangled = FALSE

Saves == draft' = [draft EXCEPT ![form.type] = form.text]

Open(t) == form = Closed /\ form' = Opened(t) /\ UNCHANGED draft

Edit(v) == form # Closed /\ form' = [form EXCEPT !.text = v] /\ UNCHANGED draft

Load ==
    /\ form # Closed /\ draft[form.type] # NoDraft
    /\ form' = [form EXCEPT !.text = draft[form.type], !.loaded = TRUE]
    /\ UNCHANGED draft

Unaccounted == form.text # Empty /\ ~form.loaded

Ask ==
    /\ form # Closed /\ ~form.asked /\ Unaccounted
    /\ form' = [form EXCEPT !.asked = TRUE]
    /\ UNCHANGED draft

Stay ==
    /\ form # Closed /\ form.asked
    /\ form' = [form EXCEPT !.asked = FALSE]
    /\ UNCHANGED draft

Close == form # Closed /\ (form.asked \/ ~Unaccounted) /\ form' = Closed /\ Saves

(* The app is left with the form as its first page: saved, never closed. *)
Keep == form # Closed /\ ~Unaccounted /\ UNCHANGED form /\ Saves

Expire(t) == draft' = [draft EXCEPT ![t] = NoDraft] /\ UNCHANGED form

Kept ==
    \/ \E t \in Types : Open(t) \/ Expire(t)
    \/ \E v \in Texts \cup {Empty} : Edit(v)
    \/ Load \/ Ask \/ Stay \/ Close \/ Keep

Next == tangled' \/ (~tangled /\ ~tangled' /\ Kept)

Spec == Init /\ [][Next]_pvars
=============================================================================
