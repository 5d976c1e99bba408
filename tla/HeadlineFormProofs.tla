------------------------- MODULE HeadlineFormProofs -------------------------
(* Proofs about HeadlineForm, for every set of pictures and every bound. *)
EXTENDS HeadlineForm, TLAPS

FormTypeOK   == type \in Groups /\ filled \subseteq Groups /\ agreement \in BOOLEAN
ImageTypeOK  ==
    /\ image \in [Keys -> Image] /\ current \in [Keys -> Picks]
    /\ uploads \subseteq Keys \X Picks /\ picks \in Picks /\ picking \subseteq Keys
AreaTypeOK   ==
    /\ area \in BOOLEAN /\ areas \in BOOLEAN /\ initial \in BOOLEAN /\ inited \in BOOLEAN
    /\ showModal \in BOOLEAN /\ areaFailed \in BOOLEAN /\ fetches \in 0..MaxFetches
SubmitTypeOK ==
    /\ submitting \in BOOLEAN /\ returned \in BOOLEAN /\ unheard \in BOOLEAN
    /\ silent \in BOOLEAN /\ applying \in Nat /\ page \in {"form", "submitted"}
    /\ accepted \in 0..MaxAccepted

(* The picture shown is always the last one picked, and the id that would  *)
(* be submitted is never of a later pick.                                  *)
ImageInv ==
    /\ ImageTypeOK
    /\ \A k \in Keys :
         /\ current[k] <= picks /\ image[k].value <= current[k]
         /\ image[k].url = current[k]
         /\ ~image[k].uploading => image[k].value = image[k].url

AreaInv == AreaTypeOK /\ PickerReady

(* One application is under way exactly while submitting; once the server  *)
(* has accepted one that was heard of, the success page keeps the button   *)
(* out of reach until the user goes back.                                  *)
SubmitInv ==
    /\ SubmitTypeOK
    /\ applying = IF submitting THEN 1 ELSE 0
    /\ accepted > 0 /\ ~returned /\ ~unheard => page = "submitted" /\ applying = 0
    /\ AppliesOnce /\ SuccessExplained

Inv == FormTypeOK /\ ImageInv /\ AreaInv /\ SubmitInv
-----------------------------------------------------------------------------
LEMMA InitInv == Init => Inv
<1> SUFFICES ASSUME Init PROVE Inv
  OBVIOUS
<1>1. FormTypeOK
  BY DEF Init, FormTypeOK
<1>2. ImageInv
  <2>1. NoImage \in Image /\ NoImage.value = 0 /\ NoImage.url = 0
    BY BoundsAssumption DEF NoImage, Image, Picks, Texts
  <2>2. 0 \in Picks /\ picks = 0 /\ picking = {} /\ uploads = {} /\ current = [k \in Keys |-> 0]
    BY BoundsAssumption DEF Init, Picks
  <2>3. image = [k \in Keys |-> NoImage]
    BY DEF Init
  <2>4. ImageTypeOK
    BY <2>1, <2>2, <2>3 DEF ImageTypeOK
  <2> QED BY <2>1, <2>2, <2>3, <2>4 DEF ImageInv
<1>3. AreaInv
  <2>1. fetches \in 0..MaxFetches
    BY BoundsAssumption DEF Init
  <2> QED BY <2>1 DEF Init, AreaInv, AreaTypeOK, PickerReady
<1>4. SubmitInv
  <2>1. accepted \in 0..MaxAccepted /\ accepted = 0 /\ applying = 0 /\ applying \in Nat
    BY BoundsAssumption DEF Init
  <2>2. /\ submitting = FALSE /\ returned = FALSE /\ unheard = FALSE /\ silent = FALSE
        /\ page = "form"
    BY DEF Init
  <2>3. SubmitTypeOK
    BY <2>1, <2>2 DEF SubmitTypeOK
  <2> QED BY <2>1, <2>2, <2>3 DEF SubmitInv, AppliesOnce, SuccessExplained
<1> QED BY <1>1, <1>2, <1>3, <1>4 DEF Inv

-----------------------------------------------------------------------------
(* What a change of the record of one picture leaves alone. *)
LEMMA ImageChange ==
    ASSUME image \in [Keys -> Image], NEW key \in Keys, NEW r \in Image,
           image' = [image EXCEPT ![key] = r]
    PROVE  /\ image' \in [Keys -> Image] /\ image'[key] = r
           /\ \A k \in Keys : k # key => image'[k] = image[k]
OBVIOUS

LEMMA UploadPicInv == ASSUME ImageInv, NEW key \in Keys, UploadPic(key)
                      PROVE  ImageInv' /\ \A k \in Keys : image[k].value <= image[k].value'
<1> DEFINE r == [image[key] EXCEPT !.url = picks + 1, !.uploading = TRUE,
                                   !.uploadText = "uploading"]
<1>1. /\ ImageTypeOK /\ picks + 1 \in Picks /\ picks \in Nat
      /\ picks' = picks + 1 /\ current' = [current EXCEPT ![key] = picks + 1]
      /\ uploads' = uploads \cup {<<key, picks + 1>>} /\ picking' = {}
  BY BoundsAssumption DEF ImageInv, ImageTypeOK, UploadPic, Picks
<1>2. /\ r \in Image /\ r.value = image[key].value /\ r.url = picks + 1 /\ r.uploading
  BY <1>1 DEF ImageTypeOK, Image, Texts
<1>3. image' = [image EXCEPT ![key] = r]
  BY DEF UploadPic
<1> HIDE DEF r
<1>4. /\ image' \in [Keys -> Image] /\ image'[key] = r
      /\ \A k \in Keys : k # key => image'[k] = image[k]
  BY <1>1, <1>2, <1>3, ImageChange DEF ImageTypeOK
<1>5. ImageTypeOK'
  <2>1. current' \in [Keys -> Picks]
    BY <1>1 DEF ImageTypeOK
  <2>2. uploads' \subseteq Keys \X Picks
    BY <1>1 DEF ImageTypeOK
  <2> QED BY <1>1, <1>4, <2>1, <2>2 DEF ImageTypeOK
<1>6. ASSUME NEW k \in Keys
      PROVE  /\ current'[k] <= picks' /\ image'[k].value <= current'[k]
             /\ image'[k].url = current'[k]
             /\ ~image'[k].uploading => image'[k].value = image'[k].url
             /\ image[k].value <= image'[k].value
  <2>1. /\ current[k] \in Nat /\ image[k].value \in Nat
        /\ current[k] <= picks /\ image[k].value <= current[k]
        /\ image[k].url = current[k]
        /\ ~image[k].uploading => image[k].value = image[k].url
    BY <1>1 DEF ImageInv, ImageTypeOK, Image, Picks
  <2>2. CASE k = key
    <3>1. current'[k] = picks + 1
      BY <1>1, <2>2 DEF ImageTypeOK
    <3> QED BY <1>1, <1>2, <1>4, <2>1, <2>2, <3>1
  <2>3. CASE k # key
    <3>1. current'[k] = current[k] /\ image'[k] = image[k]
      BY <1>1, <1>4, <2>3 DEF ImageTypeOK
    <3> QED BY <1>1, <2>1, <3>1
  <2> QED BY <2>2, <2>3
<1> QED BY <1>5, <1>6 DEF ImageInv

LEMMA UploadEndsInv == ASSUME ImageInv, NEW key \in Keys, NEW p \in Picks, UploadEnds(key, p)
                       PROVE  ImageInv' /\ \A k \in Keys : image[k].value <= image[k].value'
<1>1. /\ ImageTypeOK /\ picks' = picks /\ picking' = picking /\ current' = current
      /\ uploads' = uploads \ {<<key, p>>}
  BY DEF ImageInv, UploadEnds
<1>2. ASSUME NEW r \in Image, image' = [image EXCEPT ![key] = r],
             r.url = image[key].url,
             \/ r.value = image[key].value /\ r.uploading = image[key].uploading
             \/ r.value = current[key]
      PROVE  ImageInv' /\ \A k \in Keys : image[k].value <= image[k].value'
  <2>1. /\ image' \in [Keys -> Image] /\ image'[key] = r
        /\ \A k \in Keys : k # key => image'[k] = image[k]
    BY <1>1, <1>2, ImageChange DEF ImageTypeOK
  <2>2. ImageTypeOK'
    BY <1>1, <2>1 DEF ImageTypeOK
  <2>3. ASSUME NEW k \in Keys
        PROVE  /\ current'[k] <= picks' /\ image'[k].value <= current'[k]
               /\ image'[k].url = current'[k]
               /\ ~image'[k].uploading => image'[k].value = image'[k].url
               /\ image[k].value <= image'[k].value
    <3>1. /\ current[k] \in Nat /\ image[k].value \in Nat
          /\ current[k] <= picks /\ image[k].value <= current[k]
          /\ image[k].url = current[k]
          /\ ~image[k].uploading => image[k].value = image[k].url
      BY <1>1 DEF ImageInv, ImageTypeOK, Image, Picks
    <3> QED BY <1>1, <1>2, <2>1, <3>1
  <2> QED BY <2>2, <2>3 DEF ImageInv
<1>3. ASSUME NEW t \in Texts, image' = [image EXCEPT ![key].uploadText = t]
      PROVE  ImageInv' /\ \A k \in Keys : image[k].value <= image[k].value'
  <2>1. PICK r : r = [image[key] EXCEPT !.uploadText = t]
    OBVIOUS
  <2>2. /\ r \in Image /\ r.url = image[key].url
        /\ r.value = image[key].value /\ r.uploading = image[key].uploading
    BY <1>1, <2>1 DEF ImageTypeOK, Image
  <2>3. image' = [image EXCEPT ![key] = r]
    BY <1>3, <2>1
  <2> QED BY <1>2, <2>2, <2>3
<1>4. CASE Canceled(key, p)
  BY <1>3, <1>4 DEF Canceled, Texts
<1>5. CASE UploadFailed(key, p)
  BY <1>3, <1>5 DEF UploadFailed, Texts
<1>6. CASE Uploaded(key, p)
  <2>1. PICK r : r = [image[key] EXCEPT !.value = p, !.uploading = FALSE]
    OBVIOUS
  <2>2. r \in Image /\ r.url = image[key].url /\ r.value = current[key]
    BY <1>1, <1>6, <2>1 DEF Uploaded, ImageTypeOK, Image
  <2>3. image' = [image EXCEPT ![key] = r]
    BY <1>6, <2>1 DEF Uploaded
  <2> QED BY <1>2, <2>2, <2>3
<1>7. CASE UploadRefused(key, p)
  BY <1>1, <1>7 DEF UploadRefused, ImageInv, ImageTypeOK, Image, Picks
<1> QED BY <1>4, <1>5, <1>6, <1>7 DEF UploadEnds

LEMMA PickingInv == ASSUME ImageInv, PickFailed \/ \E k \in Keys : ShowActionSheet(k)
                    PROVE  ImageInv' /\ UNCHANGED image
BY DEF ImageInv, ImageTypeOK, PickFailed, ShowActionSheet

-----------------------------------------------------------------------------
LEMMA AreaStep ==
    ASSUME AreaInv,
           ShowAreaPicker \/ FetchAreaEnds \/ PickerConfirm \/ PickerCancel
    PROVE  AreaInv'
<1>1. /\ AreaTypeOK /\ (showModal => inited /\ areas)
      /\ fetches \in Nat /\ MaxFetches \in Nat
  BY BoundsAssumption DEF AreaInv, PickerReady, AreaTypeOK
<1>2. ASSUME NEW others \in Nat, others <= fetches, InitAreaPicker(others)
      PROVE  /\ fetches' \in 0..MaxFetches
             /\ inited' \in BOOLEAN /\ showModal' \in BOOLEAN
             /\ showModal' => inited' /\ areas
  <2>1. CASE areas
    <3>1. inited' = TRUE /\ showModal' = TRUE /\ fetches' = others
      BY <1>2, <2>1 DEF InitAreaPicker
    <3> QED BY <1>1, <1>2, <2>1, <3>1 DEF AreaTypeOK
  <2>2. CASE ~areas
    <3>1. /\ others < MaxFetches /\ fetches' = others + 1
          /\ inited' = inited /\ showModal' = showModal
      BY <1>2, <2>2 DEF InitAreaPicker
    <3>2. fetches' \in 0..MaxFetches
      BY <1>1, <1>2, <3>1
    <3> QED BY <1>1, <3>1, <3>2 DEF AreaTypeOK
  <2> QED BY <2>1, <2>2
<1>3. CASE ShowAreaPicker
  <2>1. areaFailed' = FALSE /\ UNCHANGED <<area, areas, initial>>
    BY <1>3 DEF ShowAreaPicker
  <2>2. InitAreaPicker(fetches)
    BY <1>3 DEF ShowAreaPicker
  <2>3. /\ fetches' \in 0..MaxFetches /\ inited' \in BOOLEAN /\ showModal' \in BOOLEAN
        /\ showModal' => inited' /\ areas
    BY <1>1, <1>2, <2>2
  <2> QED BY <1>1, <2>1, <2>3 DEF AreaInv, AreaTypeOK, PickerReady
<1>4. CASE AreasArrive
  <2>1. CASE fetches > 0 /\ InitAreaPicker(fetches - 1)
    <3>1. /\ fetches' \in 0..MaxFetches /\ inited' \in BOOLEAN /\ showModal' \in BOOLEAN
          /\ showModal' => inited' /\ areas
      BY <1>1, <1>2, <2>1
    <3> QED BY <1>1, <1>4, <3>1 DEF AreasArrive, AreaInv, AreaTypeOK, PickerReady
  <2>2. CASE initial' = FALSE /\ UNCHANGED <<fetches, inited, showModal>>
    BY <1>1, <1>4, <2>2 DEF AreasArrive, AreaInv, AreaTypeOK, PickerReady
  <2> QED BY <1>4, <2>1, <2>2 DEF AreasArrive
<1>5. CASE AreasFail
  <2>1. fetches' \in 0..MaxFetches /\ initial' \in BOOLEAN
    <3>1. CASE initial' = FALSE /\ fetches' = fetches
      BY <1>1, <3>1 DEF AreaTypeOK
    <3>2. CASE fetches > 0 /\ fetches' = fetches - 1 /\ initial' = initial
      <4>1. fetches' \in 0..MaxFetches
        BY <1>1, <3>2 DEF AreaTypeOK
      <4> QED BY <1>1, <3>2, <4>1 DEF AreaTypeOK
    <3> QED BY <1>5, <3>1, <3>2 DEF AreasFail
  <2>2. areaFailed' \in BOOLEAN /\ UNCHANGED <<area, areas, inited, showModal>>
    BY <1>1, <1>5 DEF AreasFail, AreaTypeOK
  <2> QED BY <1>1, <2>1, <2>2 DEF AreaInv, AreaTypeOK, PickerReady
<1>6. CASE PickerConfirm \/ PickerCancel
  BY <1>1, <1>6 DEF PickerConfirm, PickerCancel, AreaInv, AreaTypeOK, PickerReady
<1> QED BY <1>3, <1>4, <1>5, <1>6 DEF FetchAreaEnds

-----------------------------------------------------------------------------
LEMMA SubmitStep ==
    ASSUME SubmitInv, GoNext \/ ReceiveAnswer \/ BackToForm
    PROVE  SubmitInv'
<1>1. /\ SubmitTypeOK /\ applying \in Nat /\ accepted \in Nat /\ MaxAccepted \in Nat
      /\ applying = IF submitting THEN 1 ELSE 0
      /\ accepted > 0 /\ ~returned /\ ~unheard => page = "submitted" /\ applying = 0
      /\ accepted > 1 => returned \/ unheard
      /\ page = "submitted" => accepted > 0 \/ silent
  BY BoundsAssumption DEF SubmitInv, SubmitTypeOK, AppliesOnce, SuccessExplained
<1>2. CASE GoNext
  BY <1>1, <1>2
  DEF GoNext, Touchable, SubmitInv, SubmitTypeOK, AppliesOnce, SuccessExplained
<1>3. CASE ReceiveAnswer
  <2>1. /\ applying = 1 /\ applying' = 0 /\ submitting' = FALSE
        /\ returned' = returned
    BY <1>1, <1>3 DEF ReceiveAnswer
  <2>2. CASE Accepted
    <3>1. /\ accepted' \in 0..MaxAccepted /\ accepted' = accepted + 1
          /\ silent' = silent
      BY <1>1, <2>2 DEF Accepted
    <3>2. CASE page' = "submitted" /\ unheard' = unheard
      <4>1. SubmitTypeOK'
        BY <1>1, <2>1, <3>1, <3>2 DEF SubmitTypeOK
      <4>2. accepted > 0 => returned \/ unheard
        BY <1>1, <2>1
      <4> QED BY <1>1, <2>1, <3>1, <3>2, <4>1, <4>2 DEF SubmitInv, AppliesOnce, SuccessExplained
    <3>3. CASE unheard' = TRUE /\ page' = page
      <4>1. SubmitTypeOK'
        BY <1>1, <2>1, <3>1, <3>3 DEF SubmitTypeOK
      <4> QED BY <1>1, <2>1, <3>1, <3>3, <4>1 DEF SubmitInv, AppliesOnce, SuccessExplained
    <3> QED BY <2>2, <3>2, <3>3 DEF Accepted
  <2>3. CASE Undefined
    BY <1>1, <2>1, <2>3 DEF Undefined, SubmitInv, SubmitTypeOK, AppliesOnce, SuccessExplained
  <2>4. CASE SilentError
    BY <1>1, <2>1, <2>4 DEF SilentError, SubmitInv, SubmitTypeOK, AppliesOnce, SuccessExplained
  <2> QED BY <1>3, <2>2, <2>3, <2>4 DEF ReceiveAnswer
<1>4. CASE BackToForm
  BY <1>1, <1>4 DEF BackToForm, SubmitInv, SubmitTypeOK, AppliesOnce, SuccessExplained
<1> QED BY <1>2, <1>3, <1>4

-----------------------------------------------------------------------------
(* What no step of the other parts changes. *)
LEMMA Frames ==
    /\ UNCHANGED formVars => (FormTypeOK => FormTypeOK')
    /\ UNCHANGED imageVars => (ImageInv => ImageInv')
    /\ UNCHANGED areaVars => (AreaInv => AreaInv')
    /\ UNCHANGED submitVars => (SubmitInv => SubmitInv')
<1>1. UNCHANGED formVars => (FormTypeOK => FormTypeOK')
  BY DEF formVars, FormTypeOK
<1>2. UNCHANGED imageVars => (ImageInv => ImageInv')
  BY DEF imageVars, ImageInv, ImageTypeOK
<1>3. UNCHANGED areaVars => (AreaInv => AreaInv')
  BY DEF areaVars, AreaInv, AreaTypeOK, PickerReady
<1>4. UNCHANGED submitVars => (SubmitInv => SubmitInv')
  BY DEF submitVars, SubmitInv, SubmitTypeOK, AppliesOnce, SuccessExplained
<1> QED BY <1>1, <1>2, <1>3, <1>4

(* A step keeps the invariant, and no id of a picture goes back.           *)
LEMMA NextInv ==
    Inv /\ [Next]_vars => Inv' /\ \A k \in Keys : image[k].value <= image[k].value'
<1> SUFFICES ASSUME Inv, [Next]_vars
             PROVE  Inv' /\ \A k \in Keys : image[k].value <= image[k].value'
  OBVIOUS
<1>1. FormTypeOK /\ ImageInv /\ AreaInv /\ SubmitInv
  BY DEF Inv
<1>2. \A k \in Keys : image[k].value <= image[k].value
  BY <1>1 DEF ImageInv, ImageTypeOK, Image, Picks
<1>3. CASE (\E g \in Groups : InputChange(g)) \/ ChangeAgreement
  <2>1. FormTypeOK' /\ UNCHANGED <<imageVars, areaVars, submitVars>>
    BY <1>1, <1>3 DEF InputChange, ChangeAgreement, FormTypeOK
  <2>2. image' = image
    BY <2>1 DEF imageVars
  <2> QED BY <1>1, <1>2, <2>1, <2>2, Frames DEF Inv
<1>4. CASE \E k \in Keys : UploadPic(k) \/ \E p \in Picks : UploadEnds(k, p)
  <2>1. ImageInv' /\ \A k \in Keys : image[k].value <= image[k].value'
    BY <1>1, <1>4, UploadPicInv, UploadEndsInv
  <2>2. UNCHANGED <<formVars, areaVars, submitVars>>
    BY <1>4 DEF UploadPic, UploadEnds
  <2> QED BY <1>1, <2>1, <2>2, Frames DEF Inv
<1>5. CASE ShowAreaPicker \/ FetchAreaEnds \/ PickerConfirm \/ PickerCancel
  <2>1. AreaInv'
    BY <1>1, <1>5, AreaStep
  <2>2. UNCHANGED <<formVars, imageVars, submitVars>>
    BY <1>5 DEF ShowAreaPicker, FetchAreaEnds, AreasArrive, AreasFail, PickerConfirm, PickerCancel
  <2>3. image' = image
    BY <2>2 DEF imageVars
  <2> QED BY <1>1, <1>2, <2>1, <2>2, <2>3, Frames DEF Inv
<1>6. CASE GoNext \/ ReceiveAnswer \/ BackToForm
  <2>1. SubmitInv'
    BY <1>1, <1>6, SubmitStep
  <2>2. UNCHANGED <<formVars, imageVars, areaVars>>
    BY <1>6 DEF GoNext, ReceiveAnswer, BackToForm
  <2>3. image' = image
    BY <2>2 DEF imageVars
  <2> QED BY <1>1, <1>2, <2>1, <2>2, <2>3, Frames DEF Inv
<1>7. CASE PickFailed \/ \E k \in Keys : ShowActionSheet(k)
  <2>1. ImageInv' /\ UNCHANGED image
    BY <1>1, <1>7, PickingInv
  <2>2. UNCHANGED <<formVars, areaVars, submitVars>>
    BY <1>7 DEF PickFailed, ShowActionSheet
  <2> QED BY <1>1, <1>2, <2>1, <2>2, Frames DEF Inv
<1>8. CASE UNCHANGED vars
  <2>1. UNCHANGED <<formVars, imageVars, areaVars, submitVars>> /\ image' = image
    BY <1>8 DEF vars, imageVars
  <2> QED BY <1>1, <1>2, <2>1, Frames DEF Inv
<1> QED BY <1>3, <1>4, <1>5, <1>6, <1>7, <1>8 DEF Next

LEMMA FormAlways == Init /\ [][Next]_vars => []Inv
<1>1. Inv /\ [Next]_vars => Inv'
  BY NextInv
<1> QED BY <1>1, InitInv, PTL

LEMMA Invariance == Spec => []Inv
BY FormAlways, PTL DEF Spec

-----------------------------------------------------------------------------
(* Inputs, pictures, picker and submission keep their types. *)
THEOREM TypeCorrect == Spec => []TypeOK
<1>1. Inv => TypeOK
  BY DEF Inv, FormTypeOK, ImageInv, ImageTypeOK, AreaInv, AreaTypeOK, SubmitInv, SubmitTypeOK, TypeOK
<1> QED BY <1>1, Invariance, PTL

(* A picture shown without the overlay of its upload is the one submitted. *)
THEOREM ShownSubmitted == Spec => []ShownIsSubmitted
<1>1. Inv => ShownIsSubmitted
  BY DEF Inv, ImageInv, ShownIsSubmitted
<1> QED BY <1>1, Invariance, PTL

(* However the uploads end, the id of a picture only moves on to later     *)
(* picks.                                                                  *)
THEOREM NewestWins == Spec => NewestPictureWins
<1>1. Inv /\ [Next]_vars => [\A k \in Keys : image[k].value <= image[k].value']_vars
  BY NextInv
<1> QED BY <1>1, Invariance, PTL DEF Spec, NewestPictureWins

(* The picker is opened only once it has the areas to show. *)
THEOREM PickerHasAreas == Spec => []PickerReady
<1>1. Inv => PickerReady
  BY DEF Inv, AreaInv
<1> QED BY <1>1, Invariance, PTL

(* The server has two applications of one visit only when the user came    *)
(* back from the success page or never heard of the first one.             *)
THEOREM OneApplication == Spec => []AppliesOnce
<1>1. Inv => AppliesOnce
  BY DEF Inv, SubmitInv
<1> QED BY <1>1, Invariance, PTL

(* The success page stands for an accepted application or for an error     *)
(* that came without a message.                                            *)
THEOREM SuccessBacked == Spec => []SuccessExplained
<1>1. Inv => SuccessExplained
  BY DEF Inv, SubmitInv
<1> QED BY <1>1, Invariance, PTL

-----------------------------------------------------------------------------
(* The weak fairness of FetchAreaEnds, with its condition written out as   *)
(* what lets it happen: a request for the areas does not stay out for ever. *)
FairFetches == []<>~(initial \/ fetches > 0) \/ []<><<FetchAreaEnds>>_vars

(* While a tap waits for the picker each end of a request opens it, fails, *)
(* or is the end of the first request or the first one to bring the areas; *)
(* the last two happen once each.                                          *)
LEMMA TapStep ==
    ASSUME Inv, fetches > 0, ~showModal, ~areaFailed, [Next]_vars
    PROVE  /\ fetches' > 0 \/ showModal' \/ areaFailed'
           /\ (~initial => ~initial') /\ (areas => areas')
           /\ <<FetchAreaEnds>>_vars =>
                showModal' \/ areaFailed' \/ (initial /\ ~initial') \/ (~areas /\ areas')
<1>0. fetches \in Nat /\ MaxFetches \in Nat
  BY BoundsAssumption DEF Inv, AreaInv, AreaTypeOK
<1> DEFINE Waits == /\ fetches' > 0 \/ showModal' \/ areaFailed'
                    /\ (~initial => ~initial') /\ (areas => areas')
<1>1. AreasArrive => Waits /\ (showModal' \/ (initial /\ ~initial') \/ (~areas /\ areas'))
  BY <1>0 DEF AreasArrive, InitAreaPicker
<1>2. AreasFail => Waits /\ (areaFailed' \/ (initial /\ ~initial'))
  BY DEF AreasFail
<1>3. ShowAreaPicker => Waits
  BY <1>0 DEF ShowAreaPicker, InitAreaPicker
<1>4. UNCHANGED <<areas, initial, fetches>> => Waits
  OBVIOUS
<1>5. Waits
  BY <1>1, <1>2, <1>3, <1>4
  DEF Next, vars, areaVars, FetchAreaEnds, InputChange, ChangeAgreement, ShowActionSheet, PickFailed,
      UploadPic, UploadEnds, PickerConfirm, PickerCancel, GoNext, ReceiveAnswer, BackToForm
<1> QED BY <1>1, <1>2, <1>5 DEF FetchAreaEnds

(* As requests for the areas end, a tap on the area that had to fetch them *)
(* opens the picker, or a request sent for a tap fails.                    *)
THEOREM TapAnswered == Init /\ [][Next]_vars /\ FairFetches => AreaTapAnswered
<1> DEFINE Tapped == fetches > 0
           Answered == showModal \/ areaFailed
           Out == initial \/ fetches > 0
<1>1. Inv /\ Tapped /\ ~Answered /\ [Next]_vars => Tapped' \/ Answered'
  BY TapStep
<1>2. Inv /\ Tapped /\ ~Answered /\ [Next]_vars => (~initial => ~initial') /\ (areas => areas')
  BY TapStep
<1>3. Inv /\ Tapped /\ ~Answered /\ [Next]_vars /\ <<FetchAreaEnds>>_vars
        => Answered' \/ (initial /\ ~initial') \/ (~areas /\ areas')
  BY TapStep
<1>4. Tapped => Out
  OBVIOUS
<1>5. FairFetches <=> ([]<>~Out \/ []<><<FetchAreaEnds>>_vars)
  BY DEF FairFetches
<1>6. AreaTapAnswered <=> (Tapped ~> Answered)
  BY DEF AreaTapAnswered
<1> HIDE DEF Tapped, Answered, Out
<1> QED BY <1>1, <1>2, <1>3, <1>4, <1>5, <1>6, FormAlways, PTL
=============================================================================
