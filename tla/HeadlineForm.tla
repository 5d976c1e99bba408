---------------------------- MODULE HeadlineForm ----------------------------
(***************************************************************************)
(* The application form (views/HeadlineForm.js) while it is on the stack:  *)
(* its pictures, uploaded one by one through MakeCancelAble(UploadImage),  *)
(* the picker of the area with its own requests, and the submission with   *)
(* the page it leads to.  Whether its text may be left is in BackGuard.    *)
(*                                                                         *)
(* A picture is known by the number of its pick, which is also the id the  *)
(* server gives it.  An upload is cancelled by the next pick for the same  *)
(* key, so its handle is cancelled exactly when it is no longer current.   *)
(***************************************************************************)
EXTENDS Naturals

CONSTANTS
    Keys,          \* the pictures of the form: avatar, idCardImage
    MaxPicks,      \* bound: pictures picked
    MaxFetches,    \* bound: requests for the areas that open the picker
    MaxAccepted    \* bound: applications the server accepts

ASSUME BoundsAssumption ==
    MaxPicks \in Nat /\ MaxFetches \in Nat /\ MaxAccepted \in Nat

Groups == {"personal", "organization"}   \* the text inputs, by who must fill them
Texts  == {"", "uploading", "canceled", "failed"}
Picks  == 0..MaxPicks                    \* 0: no picture
Image  == [value : Picks, url : Picks, uploading : BOOLEAN, uploadText : Texts]

VARIABLES
    type,        \* params.type: whose application it is
    filled,      \* the groups of inputs that are valid
    agreement,   \* form.agreement
    area,        \* form.area is chosen
    image,       \* form.avatar and form.idCardImage
    picking,     \* the key whose picture is being picked, over every page
    current,     \* this[key]: the pick whose upload is not cancelled
    uploads,     \* uploads in flight
    picks,       \* number of pictures picked
    areas,       \* state.areasLabel is not empty
    initial,     \* the request of componentDidMount is in flight
    fetches,     \* requests in flight that open the picker when answered
    inited,      \* Picker.init was called
    showModal,   \* the picker is open
    areaFailed,  \* history: a request sent for a tap has failed since the last tap
    submitting,  \* state.submitting
    applying,    \* number of applications in flight
    page,        \* the page on top
    accepted,    \* applications the server accepted
    returned,    \* history: the user went back from the success page
    unheard,     \* history: an accepted application whose answer was lost
    silent       \* history: an error came without a message

formVars   == <<type, filled, agreement>>
imageVars  == <<image, picking, current, uploads, picks>>
areaVars   == <<area, areas, initial, fetches, inited, showModal, areaFailed>>
submitVars == <<submitting, applying, page, accepted, returned, unheard, silent>>
vars == <<formVars, imageVars, areaVars, submitVars>>

TypeOK ==
    /\ type \in Groups /\ filled \subseteq Groups /\ agreement \in BOOLEAN
    /\ image \in [Keys -> Image] /\ current \in [Keys -> Picks]
    /\ uploads \subseteq Keys \X Picks /\ picks \in Picks /\ picking \subseteq Keys
    /\ area \in BOOLEAN /\ areas \in BOOLEAN /\ initial \in BOOLEAN /\ inited \in BOOLEAN
    /\ showModal \in BOOLEAN /\ areaFailed \in BOOLEAN /\ fetches \in 0..MaxFetches
    /\ submitting \in BOOLEAN /\ returned \in BOOLEAN /\ unheard \in BOOLEAN /\ silent \in BOOLEAN
    /\ applying \in Nat /\ page \in {"form", "submitted"}
    /\ accepted \in 0..MaxAccepted

NoImage == [value |-> 0, url |-> 0, uploading |-> FALSE, uploadText |-> ""]

Init ==
    /\ type \in Groups /\ filled = {} /\ agreement = TRUE
    /\ image = [k \in Keys |-> NoImage] /\ current = [k \in Keys |-> 0]
    /\ uploads = {} /\ picks = 0 /\ picking = {}
    /\ area = FALSE /\ areas = FALSE /\ initial = TRUE /\ fetches = 0
    /\ inited = FALSE /\ showModal = FALSE /\ areaFailed = FALSE
    /\ submitting = FALSE /\ applying = 0 /\ page = "form" /\ accepted = 0
    /\ returned = FALSE /\ unheard = FALSE /\ silent = FALSE

Touchable == page = "form" /\ ~showModal /\ picking = {}

-----------------------------------------------------------------------------
(* Text inputs and the check box. *)
InputChange(g) ==
    /\ Touchable
    /\ filled' = IF g \in filled THEN filled \ {g} ELSE filled \cup {g}
    /\ UNCHANGED <<type, agreement, imageVars, areaVars, submitVars>>

ChangeAgreement ==
    /\ Touchable
    /\ agreement' = ~agreement
    /\ UNCHANGED <<type, filled, imageVars, areaVars, submitVars>>

-----------------------------------------------------------------------------
(* The sheet and the host's picker cover whatever page an answer opens.     *)
ShowActionSheet(key) ==
    /\ Touchable /\ picks < MaxPicks
    /\ picking' = {key}
    /\ UNCHANGED <<formVars, image, current, uploads, picks, areaVars, submitVars>>

PickFailed ==
    /\ picking # {} /\ picking' = {}
    /\ UNCHANGED <<formVars, image, current, uploads, picks, areaVars, submitVars>>

(* A picture is picked or taken: the upload before it is cancelled, the new *)
(* one starts and the picture is shown under the text of the upload.        *)
UploadPic(key) ==
    /\ key \in picking /\ picking' = {}
    /\ picks < MaxPicks /\ picks' = picks + 1
    /\ current' = [current EXCEPT ![key] = picks + 1]
    /\ uploads' = uploads \cup {<<key, picks + 1>>}
    /\ image' = [image EXCEPT ![key] =
           [@ EXCEPT !.url = picks + 1, !.uploading = TRUE, !.uploadText = "uploading"]]
    /\ UNCHANGED <<formVars, areaVars, submitVars>>

(* An upload ends.  A cancelled one rejects however it ended. *)
CanceledStores(key, p) ==  \* mutated: the cancelled picture is stored
    /\ p # current[key]
    /\ image' = [image EXCEPT ![key] = [@ EXCEPT !.value = p, !.uploadText = "canceled"]]
Canceled(key, p) ==
    /\ p # current[key]
    /\ image' = [image EXCEPT ![key].uploadText = "canceled"]

UploadedUncancelled(key, p) ==  \* mutated: the upload before was not cancelled
    image' = [image EXCEPT ![key] = [@ EXCEPT !.value = p, !.uploading = FALSE]]
Uploaded(key, p) ==
    /\ p = current[key]
    /\ image' = [image EXCEPT ![key] = [@ EXCEPT !.value = p, !.uploading = FALSE]]

UploadFailedReason(key, p) ==  \* mutated: the text is the reason of the rejection
    /\ p = current[key]
    /\ image' = [image EXCEPT ![key].uploadText = "timeout"]
UploadFailed(key, p) ==
    /\ p = current[key]
    /\ image' = [image EXCEPT ![key].uploadText = "failed"]

(* The server answers with an error: no branch takes it. *)
UploadRefused(key, p) ==
    /\ p = current[key]
    /\ UNCHANGED image

UploadEnds(key, p) ==
    /\ <<key, p>> \in uploads
    /\ uploads' = uploads \ {<<key, p>>}
    /\ Canceled(key, p) \/ Uploaded(key, p) \/ UploadFailed(key, p) \/ UploadRefused(key, p)
    /\ UNCHANGED <<formVars, picking, current, picks, areaVars, submitVars>>

-----------------------------------------------------------------------------
(* initAreaPicker: with areas the picker opens, without them another       *)
(* request goes out that calls initAreaPicker again.                       *)
InitAreaPickerAtOnce(others) ==  \* mutated: the areas are not looked at
    inited' = TRUE /\ showModal' = TRUE /\ fetches' = others
InitAreaPicker(others) ==
    IF areas
      THEN inited' = TRUE /\ showModal' = TRUE /\ fetches' = others
      ELSE others < MaxFetches /\ fetches' = others + 1 /\ UNCHANGED <<inited, showModal>>

ShowAreaPicker ==
    /\ Touchable
    /\ InitAreaPicker(fetches)
    /\ areaFailed' = FALSE
    /\ UNCHANGED <<formVars, imageVars, submitVars, area, areas, initial>>

(* fetchArea is answered: the callback runs before the areas are stored. *)
AreasArriveUncalled ==  \* mutated: the callback is not called
    /\ \/ initial /\ initial' = FALSE /\ UNCHANGED fetches
       \/ fetches > 0 /\ fetches' = fetches - 1 /\ UNCHANGED initial
    /\ areas' = TRUE
    /\ UNCHANGED <<formVars, imageVars, submitVars, area, areaFailed, inited, showModal>>
AreasArrive ==
    /\ \/ initial /\ initial' = FALSE /\ UNCHANGED <<fetches, inited, showModal>>
       \/ fetches > 0 /\ InitAreaPicker(fetches - 1) /\ UNCHANGED initial
    /\ areas' = TRUE
    /\ UNCHANGED <<formVars, imageVars, submitVars, area, areaFailed>>

(* An error, no answer, or an answer without areas.                        *)
AreasFail ==
    /\ \/ initial /\ initial' = FALSE /\ UNCHANGED <<fetches, areaFailed>>
       \/ fetches > 0 /\ fetches' = fetches - 1 /\ areaFailed' = TRUE /\ UNCHANGED initial
    /\ UNCHANGED <<formVars, imageVars, submitVars, area, areas, inited, showModal>>

FetchAreaEnds == AreasArrive \/ AreasFail

PickerConfirm ==
    /\ showModal /\ picking = {}
    /\ area' = TRUE /\ showModal' = FALSE
    /\ UNCHANGED <<formVars, imageVars, submitVars, areas, initial, fetches, inited, areaFailed>>

PickerCancel ==
    /\ showModal /\ picking = {}
    /\ showModal' = FALSE
    /\ UNCHANGED <<formVars, imageVars, submitVars, area, areas, initial, fetches, inited, areaFailed>>

-----------------------------------------------------------------------------
(* Type 1, an application of a person, needs no data of an organization. *)
Valid ==
    /\ {"personal", type} \subseteq filled /\ agreement /\ area
    /\ \A k \in Keys : image[k].value # 0

GoNextTwice ==  \* mutated: submitting is not looked at
    /\ Touchable /\ Valid /\ applying < 2
    /\ submitting' = TRUE
    /\ applying' = applying + 1
    /\ UNCHANGED <<formVars, imageVars, areaVars, page, accepted, returned, unheard, silent>>
GoNext ==
    /\ Touchable /\ Valid /\ ~submitting
    /\ submitting' = TRUE
    /\ applying' = applying + 1
    /\ UNCHANGED <<formVars, imageVars, areaVars, page, accepted, returned, unheard, silent>>

(* The server accepts the application, and the answer arrives or is lost.  *)
Accepted ==
    /\ accepted < MaxAccepted /\ accepted' = accepted + 1
    /\ \/ page' = "submitted" /\ UNCHANGED unheard
       \/ unheard' = TRUE /\ UNCHANGED page
    /\ UNCHANGED silent

(* Refused with a message, or never reached: res is undefined, and reading *)
(* res.error throws after submitting was reset.                            *)
UndefinedPasses ==  \* mutated: undefined passes for a success
    page' = "submitted" /\ UNCHANGED <<accepted, unheard, silent>>
Undefined == UNCHANGED <<page, accepted, unheard, silent>>

(* Refused without a message: the answer passes for a success. *)
SilentError ==
    /\ silent' = TRUE /\ page' = "submitted"
    /\ UNCHANGED <<accepted, unheard>>

ReceiveAnswer ==
    /\ applying > 0 /\ applying' = applying - 1 /\ submitting' = FALSE
    /\ Accepted \/ Undefined \/ SilentError
    /\ UNCHANGED <<formVars, imageVars, areaVars, returned>>

(* The system's back button takes HeadlineSubmitted off the form. *)
BackToForm ==
    /\ page = "submitted" /\ ~showModal /\ picking = {}
    /\ page' = "form" /\ returned' = TRUE
    /\ UNCHANGED <<formVars, imageVars, areaVars, submitting, applying, accepted, unheard, silent>>

-----------------------------------------------------------------------------
Next ==
    \/ \E g \in Groups : InputChange(g)
    \/ ChangeAgreement
    \/ \E k \in Keys :
         ShowActionSheet(k) \/ UploadPic(k) \/ \E p \in Picks : UploadEnds(k, p)
    \/ PickFailed
    \/ ShowAreaPicker \/ FetchAreaEnds \/ PickerConfirm \/ PickerCancel
    \/ GoNext \/ ReceiveAnswer \/ BackToForm

(* Requests for the areas end, with an answer or an error. *)
Spec == Init /\ [][Next]_vars /\ WF_vars(FetchAreaEnds)

-----------------------------------------------------------------------------
(* A picture shown without the upload's overlay is the one that would be   *)
(* submitted, however the uploads before it ended.                         *)
ShownIsSubmitted == \A k \in Keys : ~image[k].uploading => image[k].value = image[k].url

(* An upload that was replaced never puts its picture back, nor does a     *)
(* slow one: the id of a picture only moves on to later picks.             *)
NewestPictureWins == [][\A k \in Keys : image[k].value <= image[k].value']_vars

(* The picker is opened only once it has the areas to show.                *)
PickerReady == showModal => inited /\ areas

(* A tap on the area that has to fetch the areas first opens the picker,   *)
(* or a request sent for a tap fails after it.                             *)
AreaTapAnswered == fetches > 0 ~> (showModal \/ areaFailed)

(* The server has two applications of one visit only when the user came    *)
(* back from the success page or never heard of the first one.             *)
AppliesOnce == accepted > 1 => returned \/ unheard

(* The success page stands for an accepted application, unless an error    *)
(* came without a message ...                                              *)
SuccessExplained == page = "submitted" => accepted > 0 \/ silent
(* ... which the page itself says without that proviso.                    *)
SuccessMeansAccepted == page = "submitted" => accepted > 0
=============================================================================
