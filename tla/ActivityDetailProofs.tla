------------------------ MODULE ActivityDetailProofs ------------------------
(* Proofs about ActivityDetail, for every number of pages, of permissions  *)
(* asked for and of saves, and for every set of heights.  ActivityDetail   *)
(* takes no step ActivityPage or ImageBrowser would not take, so what is   *)
(* proved of either holds of it.                                           *)
EXTENDS ActivityDetail, ActivityPageProofs

-----------------------------------------------------------------------------
(* Every step is one of ActivityPage's, or leaves its variables alone. *)
LEMMA PageStep == [DetailNext]_detailVars => [Next]_vars
<1> SUFFICES ASSUME [DetailNext]_detailVars PROVE [Next]_vars
  OBVIOUS
<1>1. CASE NavigateTop
  BY <1>1 DEF NavigateTop, Next
<1>2. CASE Background
  BY <1>2 DEF Background, Next
<1>3. CASE Leave
  BY <1>3 DEF Leave, Next
<1>4. CASE ViewImages \/ Browse \/ Choose
  BY <1>4 DEF ViewImages, Browse, Choose
<1>5. ASSUME NEW id \in Ids, DataArrive(id) PROVE Next
  BY <1>5 DEF DataArrive, Next
<1>6. ASSUME NEW id \in Ids,
             \/ IntroBoxLayout(id) \/ Animate(id)
             \/ Publish(id) \/ Permitted(id) \/ NotPermitted(id)
      PROVE  UNCHANGED vars
  BY <1>6 DEF IntroBoxLayout, Animate, Publish, Permitted, NotPermitted
<1>7. CASE UNCHANGED detailVars
  BY <1>7 DEF detailVars
<1> QED BY <1>1, <1>2, <1>3, <1>4, <1>5, <1>6, <1>7 DEF DetailNext

(* Every step is one of ImageBrowser's, or leaves its variables alone. *)
LEMMA BrowserStep == [DetailNext]_detailVars => [Browser!Next]_(Browser!vars)
<1> SUFFICES ASSUME [DetailNext]_detailVars PROVE [Browser!Next]_(Browser!vars)
  OBVIOUS
<1>0. browserVars = Browser!vars
  BY DEF browserVars, Browser!vars
<1>1. CASE NavigateTop
  BY <1>0, <1>1 DEF NavigateTop, browserVars, Browser!vars
<1>2. CASE Background
  BY <1>2 DEF Background, browserVars, Browser!vars
<1>3. CASE Leave
  BY <1>3 DEF Leave, Browser!Next
<1>4. CASE ViewImages \/ Browse
  BY <1>4 DEF ViewImages, Browse, Browser!Next
<1>5. CASE Choose
  BY <1>5 DEF Choose, browserVars, Browser!vars
<1>6. ASSUME NEW id \in Ids,
             \/ DataArrive(id) \/ IntroBoxLayout(id) \/ Animate(id)
             \/ Publish(id) \/ Permitted(id) \/ NotPermitted(id)
      PROVE  UNCHANGED Browser!vars
  BY <1>6 DEF DataArrive, IntroBoxLayout, Animate, Publish, Permitted, NotPermitted,
              browserVars, Browser!vars
<1>7. CASE UNCHANGED detailVars
  BY <1>7 DEF detailVars, browserVars, Browser!vars
<1> QED BY <1>1, <1>2, <1>3, <1>4, <1>5, <1>6, <1>7 DEF DetailNext

(* The activity page is a composition of the two: it implements each of    *)
(* them, with nothing renamed.                                             *)
THEOREM ImplementsPage == DetailSpec => Spec
<1>1. DetailInit => Init
  BY DEF DetailInit
<1> QED BY <1>1, PageStep, PTL DEF DetailSpec, Spec

THEOREM ImplementsBrowser == DetailSpec => Browser!Spec
<1>1. DetailInit => Browser!Init
  BY DEF DetailInit
<1> QED BY <1>1, BrowserStep, PTL DEF DetailSpec, Browser!Spec
-----------------------------------------------------------------------------
(* What the toasts rest on: only Android caches, the album has exactly     *)
(* what is said to be saved, and a saved picture's file is on its way out. *)
SaveInv ==
    /\ Browser!TypeOK
    /\ ~android => cached = {} /\ \A n \in Browser!Saves : saves[n] # "downloading"
    /\ \A n \in Browser!Saves :
         /\ n \in album <=> saves[n] = "saved"
         /\ saves[n] = "saved" /\ n \in cached => n \in unlinking

LEMMA InitSave == Browser!Init => SaveInv
BY DEF Browser!Init, SaveInv, Browser!TypeOK, Browser!Stages

LEMMA SaveStep ==
    ASSUME SaveInv, NEW n \in Browser!Saves,
           \/ Browser!Save(n) \/ Browser!Downloaded(n) \/ Browser!Written(n)
           \/ Browser!Fails(n) \/ Browser!Unlinked(n)
    PROVE  SaveInv'
<1>1. /\ saves \in [Browser!Saves -> Browser!Stages]
      /\ {"downloading", "writing", "saved", "failed"} \subseteq Browser!Stages
      /\ android \in BOOLEAN /\ show \in BOOLEAN /\ actionSheet \in BOOLEAN
      /\ cached \subseteq Browser!Saves /\ unlinking \subseteq Browser!Saves
      /\ album \subseteq Browser!Saves
  BY DEF SaveInv, Browser!TypeOK, Browser!Stages, Browser!Ended
<1>2. CASE Browser!Save(n)
  <2>1. /\ saves[n] = "none" /\ actionSheet' = FALSE
        /\ saves' = [saves EXCEPT ![n] = IF android THEN "downloading" ELSE "writing"]
        /\ UNCHANGED <<android, show, cached, unlinking, album>>
    BY <1>2 DEF Browser!Save
  <2>2. Browser!TypeOK'
    BY <1>1, <2>1 DEF Browser!TypeOK
  <2> QED BY <1>1, <2>1, <2>2 DEF SaveInv
<1>3. CASE Browser!Downloaded(n)
  <2>1. /\ saves[n] = "downloading" /\ cached' = cached \cup {n}
        /\ saves' = [saves EXCEPT ![n] = "writing"]
        /\ UNCHANGED <<android, show, actionSheet, unlinking, album>>
    BY <1>3 DEF Browser!Downloaded
  <2>2. Browser!TypeOK'
    BY <1>1, <2>1 DEF Browser!TypeOK
  <2> QED BY <1>1, <2>1, <2>2 DEF SaveInv
<1>4. CASE Browser!Written(n)
  <2>1. /\ saves[n] = "writing" /\ album' = album \cup {n}
        /\ saves' = [saves EXCEPT ![n] = "saved"]
        /\ unlinking' = IF android THEN unlinking \cup {n} ELSE unlinking
        /\ UNCHANGED <<android, show, actionSheet, cached>>
    BY <1>4 DEF Browser!Written
  <2>2. Browser!TypeOK'
    BY <1>1, <2>1 DEF Browser!TypeOK
  <2> QED BY <1>1, <2>1, <2>2 DEF SaveInv
<1>5. CASE Browser!Fails(n)
  <2>1. /\ saves[n] \in {"downloading", "writing"}
        /\ saves' = [saves EXCEPT ![n] = "failed"]
        /\ UNCHANGED <<android, show, actionSheet, cached, unlinking, album>>
    BY <1>5 DEF Browser!Fails
  <2>2. Browser!TypeOK'
    BY <1>1, <2>1 DEF Browser!TypeOK
  <2> QED BY <1>1, <2>1, <2>2 DEF SaveInv
<1>6. CASE Browser!Unlinked(n)
  <2>1. /\ unlinking' = unlinking \ {n} /\ cached' = cached \ {n}
        /\ UNCHANGED <<android, show, actionSheet, saves, album>>
    BY <1>6 DEF Browser!Unlinked
  <2>2. Browser!TypeOK'
    BY <1>1, <2>1 DEF Browser!TypeOK
  <2> QED BY <1>1, <2>1, <2>2 DEF SaveInv
<1> QED BY <1>2, <1>3, <1>4, <1>5, <1>6

LEMMA SaveInvariance == Browser!Spec => []SaveInv
<1>1. ASSUME SaveInv, [Browser!Next]_(Browser!vars) PROVE SaveInv'
  <2>1. CASE \/ Browser!Show \/ Browser!Hide \/ Browser!ShowActionSheet
             \/ Browser!Cancel \/ Browser!Unmount \/ UNCHANGED Browser!vars
    <3>1. UNCHANGED <<android, saves, cached, unlinking, album>>
      BY <2>1 DEF Browser!Show, Browser!Hide, Browser!ShowActionSheet, Browser!Cancel,
                  Browser!Unmount, Browser!vars
    <3>2. show' \in BOOLEAN /\ actionSheet' \in BOOLEAN
      BY <1>1, <2>1
      DEF SaveInv, Browser!TypeOK, Browser!Show, Browser!Hide, Browser!ShowActionSheet,
          Browser!Cancel, Browser!Unmount, Browser!vars
    <3> QED BY <1>1, <3>1, <3>2 DEF SaveInv, Browser!TypeOK
  <2> QED BY <1>1, <2>1, SaveStep DEF Browser!Next, Browser!Touch, Browser!Settle
<1> QED BY <1>1, InitSave, PTL DEF Browser!Spec

(* The toast after a save is right: a picture said to be saved is in the   *)
(* album, one said not to be is not.                                       *)
THEOREM ToastTrue == DetailSpec => []SaveToastIsTrue
<1>1. SaveInv => SaveToastIsTrue
  BY DEF SaveInv, SaveToastIsTrue, Browser!ToastIsTrue
<1> QED BY <1>1, ImplementsBrowser, SaveInvariance, PTL

-----------------------------------------------------------------------------
(* How an introduction that was laid out is folded.  The heights between   *)
(* the two limits are left out: their button spoils them.                  *)
Folded(id) ==
    /\ initialHeight[id] = height[id] + (IF height[id] > MaxHeight THEN ButtonHeight ELSE Padding)
    /\ height[id] > MaxHeight
         => animationHeight[id] = IF id \in opened THEN initialHeight[id] ELSE MaxHeight
    /\ height[id] + Padding <= MaxHeight => animationHeight[id] = height[id] + Padding

(* Only a page that shows its data has been laid out, so the data, which   *)
(* come once, never change the height of an introduction after that.       *)
IntroInv ==
    /\ height \in [Ids -> Nat] /\ initialHeight \in [Ids -> Nat]
    /\ animationHeight \in [Ids -> Nat] /\ opened \subseteq Ids
    /\ \A id \in Ids :
         /\ initialHeight[id] > 0 => pages[id].shown /\ Folded(id)
         /\ id \in opened => initialHeight[id] > 0

(* A permission is only waited for by a page that was opened; while it is  *)
(* mounted it shows an activity that is online.                            *)
SheetInv ==
    /\ online \subseteq Ids /\ granted \subseteq Ids
    /\ asked \in [Ids -> 0..MaxTaps] /\ sheet \in {0} \cup Ids
    /\ \A id \in Ids :
         /\ asked[id] > 0 => id <= visits
         /\ asked[id] > 0 /\ id \in Mounted => pages[id].shown /\ id \in online
    /\ SheetAllowed

DetailInv == BarInv /\ IntroInv /\ SheetInv

(* What a step of ActivityPage means for the parts added to it. *)
LEMMA ShownStays == ASSUME BarInv, [Next]_vars
                    PROVE  \A id \in Ids : pages[id].shown => pages'[id].shown
<1>0. TypeOK
  BY DEF BarInv, IdInv
<1>1. ASSUME NEW id \in Ids, NEW style \in Styles, NEW p \in Page,
             SetBarStyle(id, style, p), pages[id].shown => p.shown
      PROVE  \A j \in Ids : pages[j].shown => pages'[j].shown
  BY <1>0, <1>1, SetBarStyleEffect
<1>2. ASSUME NEW id \in Ids, FetchActivity(id)
      PROVE  \A j \in Ids : pages[j].shown => pages'[j].shown
  <2>1. PICK p : p = [pages[id] EXCEPT !.shown = TRUE]
    OBVIOUS
  <2>2. p \in Page /\ p.shown /\ SetBarStyle(id, "light", p)
    BY <1>0, <1>2, <2>1 DEF FetchActivity, TypeOK, Page
  <2> QED BY <1>1, <2>2 DEF Styles
<1>3. ASSUME NEW id \in Ids, NEW onPicture \in BOOLEAN, HandleScroll(id, onPicture)
      PROVE  \A j \in Ids : pages[j].shown => pages'[j].shown
  <2>1. PICK p : p = [pages[id] EXCEPT !.opaque = ~onPicture]
    OBVIOUS
  <2>2. PICK style \in Styles : style = IF onPicture THEN "light" ELSE "dark"
    BY DEF Styles
  <2>3. p \in Page /\ p.shown = pages[id].shown
    BY <1>0, <2>1 DEF TypeOK, Page
  <2>4. SetBarStyle(id, style, p)
    BY <1>3, <2>1, <2>2 DEF HandleScroll
  <2> QED BY <1>1, <2>3, <2>4
<1>4. CASE OpenJoiners
  <2>1. detail \in Ids /\ pages[detail] \in Page /\ SetBarStyle(detail, "dark", pages[detail])
    BY <1>0, <1>4 DEF OpenJoiners, TypeOK
  <2> QED BY <1>1, <2>1 DEF Styles
<1>5. CASE Unmount
  <2>1. leaving \in Ids /\ pages[leaving] \in Page /\ SetBarStyle(leaving, "dark", pages[leaving])
    BY <1>0, <1>5 DEF Unmount, TypeOK
  <2> QED BY <1>1, <2>1 DEF Styles
<1>6. CASE \/ Open \/ BackFromJoiners \/ Back \/ UNCHANGED vars
          \/ \E id \in Ids : FetchFailed(id)
  BY <1>6 DEF Open, BackFromJoiners, Back, FetchFailed, vars
<1> QED BY <1>2, <1>3, <1>4, <1>5, <1>6 DEF Next

LEMMA MountedStays ==
    ASSUME BarInv, [Next]_vars, ~Unmount
    PROVE  /\ visits' \in Nat /\ visits \in Nat /\ visits <= visits'
           /\ Mounted \subseteq Mounted'
           /\ \A id \in Mounted' : id \in Mounted \/ id > visits
<1>1. visits \in Nat /\ detail \in {0} \cup Ids /\ leaving \in {0} \cup Ids
  BY DEF BarInv, IdInv, TypeOK, Ids
<1>2. CASE Open
  BY <1>1, <1>2 DEF Open, Mounted
<1>3. CASE Back
  BY <1>1, <1>3 DEF Back, Mounted, BarInv, IdInv
<1>4. CASE \/ OpenJoiners \/ BackFromJoiners \/ UNCHANGED vars
           \/ \E id \in Ids : FetchActivity(id) \/ FetchFailed(id)
           \/ \E id \in Ids, onPicture \in BOOLEAN : HandleScroll(id, onPicture)
  <2>1. UNCHANGED <<visits, detail, leaving>>
    BY <1>4 DEF OpenJoiners, BackFromJoiners, FetchActivity, FetchFailed, HandleScroll, vars
  <2> QED BY <1>1, <2>1 DEF Mounted
<1> QED BY <1>2, <1>3, <1>4 DEF Next

LEMMA IntroFrame ==
    ASSUME IntroInv, UNCHANGED introVars,
           \A id \in Ids : pages[id].shown => pages'[id].shown
    PROVE  IntroInv'
BY DEF introVars, IntroInv, Folded

LEMMA SheetFrame ==
    ASSUME SheetInv, UNCHANGED publishVars, BarInv, [Next]_vars, ~Unmount
    PROVE  SheetInv'
<1>1. UNCHANGED <<online, asked, granted, sheet>>
  BY DEF publishVars
<1>2. /\ \A id \in Ids : pages[id].shown => pages'[id].shown
      /\ visits' \in Nat /\ visits \in Nat /\ visits <= visits'
      /\ Mounted \subseteq Mounted'
      /\ \A id \in Mounted' : id \in Mounted \/ id > visits
  BY ShownStays, MountedStays
<1>3. ASSUME NEW id \in Ids
      PROVE  /\ asked'[id] > 0 => id <= visits'
             /\ asked'[id] > 0 /\ id \in Mounted' => pages'[id].shown /\ id \in online'
  <2>1. id \in Nat /\ asked[id] \in Nat
    BY DEF Ids, SheetInv
  <2>2. asked[id] > 0 => id <= visits
    BY DEF SheetInv
  <2>3. asked[id] > 0 /\ id \in Mounted => pages[id].shown /\ id \in online
    BY DEF SheetInv
  <2> QED BY <1>1, <1>2, <2>1, <2>2, <2>3
<1>4. SheetAllowed'
  <2>1. sheet # 0 => sheet \in Ids /\ sheet \in Mounted /\ pages[sheet].shown
    BY DEF SheetInv, SheetAllowed
  <2> QED BY <1>1, <1>2, <2>1 DEF SheetInv, SheetAllowed
<1> QED BY <1>1, <1>3, <1>4 DEF SheetInv

-----------------------------------------------------------------------------
LEMMA InitDetail == DetailInit => DetailInv
<1> SUFFICES ASSUME DetailInit PROVE DetailInv
  OBVIOUS
<1>1. BarInv
  BY InitBar DEF DetailInit
<1>2. IntroInv
  BY DEF DetailInit, IntroInv
<1>3. SheetInv
  <2>1. 0 \in 0..MaxTaps
    BY DetailAssumption
  <2> QED BY <2>1 DEF DetailInit, SheetInv, SheetAllowed
<1> QED BY <1>1, <1>2, <1>3 DEF DetailInv

LEMMA LayoutIntro ==
    ASSUME DetailInv, NEW id \in Ids, IntroBoxLayout(id)
    PROVE  IntroInv'
<1>1. /\ pages' = pages /\ height' = height /\ opened' = opened
      /\ pages[id].shown /\ initialHeight[id] = 0 /\ height[id] \in Nat /\ height[id] > 0
      /\ id \notin opened
  BY DEF DetailInv, IntroInv, IntroBoxLayout, vars
<1>2. PICK i, a \in Nat :
        /\ i = height[id] + (IF height[id] > MaxHeight THEN ButtonHeight ELSE Padding)
        /\ a = IF height[id] > MaxHeight THEN MaxHeight ELSE height[id] + Padding
        /\ i > 0
  BY <1>1 DEF MaxHeight, ButtonHeight, Padding
<1>3. /\ initialHeight' = [initialHeight EXCEPT ![id] = i]
      /\ animationHeight' = [animationHeight EXCEPT ![id] = a]
  BY <1>2 DEF IntroBoxLayout, FoldFirst
<1>4. /\ initialHeight' \in [Ids -> Nat] /\ initialHeight'[id] = i
      /\ animationHeight' \in [Ids -> Nat] /\ animationHeight'[id] = a
      /\ \A j \in Ids : j # id => /\ initialHeight'[j] = initialHeight[j]
                                 /\ animationHeight'[j] = animationHeight[j]
  BY <1>2, <1>3 DEF DetailInv, IntroInv
<1>5. Folded(id)'
  BY <1>1, <1>2, <1>4 DEF Folded, MaxHeight, Padding
<1>6. \A j \in Ids : j # id /\ Folded(j) => Folded(j)'
  BY <1>1, <1>4 DEF Folded
<1> QED BY <1>1, <1>2, <1>4, <1>5, <1>6 DEF DetailInv, IntroInv

LEMMA AnimateIntro ==
    ASSUME DetailInv, NEW id \in Ids, Animate(id)
    PROVE  IntroInv'
<1>1. /\ pages' = pages /\ height' = height /\ initialHeight' = initialHeight
      /\ height[id] \in Nat /\ initialHeight[id] \in Nat /\ animationHeight[id] \in Nat
      /\ initialHeight[id] > MaxHeight /\ initialHeight[id] > 0 /\ Folded(id)
  BY DEF DetailInv, IntroInv, Animate, HasButton, vars, MaxHeight
<1>2. PICK a \in Nat : /\ animationHeight' = [animationHeight EXCEPT ![id] = a]
                       /\ \/ a = initialHeight[id] /\ opened' = opened \cup {id}
                          \/ a = MaxHeight /\ opened' = opened \ {id}
  BY <1>1 DEF Animate, MaxHeight
<1>3. /\ animationHeight' \in [Ids -> Nat] /\ animationHeight'[id] = a
      /\ \A j \in Ids : j # id => /\ animationHeight'[j] = animationHeight[j]
                                 /\ (j \in opened' <=> j \in opened)
      /\ opened' \subseteq Ids
  BY <1>2 DEF DetailInv, IntroInv
<1>4. ~(height[id] + Padding <= MaxHeight)
  BY <1>1 DEF Folded, Padding, MaxHeight
<1>5. Folded(id)'
  BY <1>1, <1>2, <1>3, <1>4 DEF Folded
<1>6. \A j \in Ids : j # id /\ Folded(j) => Folded(j)'
  BY <1>1, <1>3 DEF Folded
<1> QED BY <1>1, <1>3, <1>5, <1>6 DEF DetailInv, IntroInv

LEMMA DataArriveDetail ==
    ASSUME DetailInv, NEW id \in Ids, DataArrive(id)
    PROVE  IntroInv' /\ SheetInv'
<1>1. /\ BarInv /\ FetchActivity(id) /\ Next /\ initialHeight[id] = 0 /\ id \notin opened
      /\ UNCHANGED <<initialHeight, animationHeight, opened, asked, granted, sheet>>
      /\ Mounted' = Mounted /\ visits' = visits
  <2>1. BarInv /\ FetchActivity(id) /\ Next
    BY DEF DetailInv, DataArrive, Next
  <2>2. ~pages[id].shown
    BY <2>1 DEF BarInv, FetchActivity
  <2>3. initialHeight[id] = 0 /\ id \notin opened
    BY <2>2 DEF DetailInv, IntroInv
  <2>4. UNCHANGED <<initialHeight, animationHeight, opened, asked, granted, sheet>>
    BY DEF DataArrive
  <2>5. Mounted' = Mounted /\ visits' = visits
    BY <2>1 DEF FetchActivity, Mounted
  <2> QED BY <2>1, <2>3, <2>4, <2>5
<1>2. \A j \in Ids : pages[j].shown => pages'[j].shown
  BY <1>1, ShownStays
<1>3. /\ height' \in [Ids -> Nat] /\ \A j \in Ids : j # id => height'[j] = height[j]
      /\ online \subseteq online' /\ online' \subseteq Ids
  BY DetailAssumption DEF DataArrive, DetailInv, IntroInv, SheetInv
<1>4. IntroInv'
  BY <1>1, <1>2, <1>3 DEF DetailInv, IntroInv, Folded
<1>5. SheetInv'
  BY <1>1, <1>2, <1>3 DEF DetailInv, SheetInv, SheetAllowed
<1> QED BY <1>4, <1>5

LEMMA LeaveDetail == ASSUME DetailInv, Leave PROVE IntroInv' /\ SheetInv'
<1>1. /\ BarInv /\ Unmount /\ Next /\ leaving \in Ids /\ detail = 0
      /\ UNCHANGED <<asked, granted, visits, detail>> /\ sheet' = 0 /\ leaving' = 0
  BY DEF DetailInv, BarInv, IdInv, TypeOK, Leave, Unmount, Next
<1>2. \A j \in Ids : pages[j].shown => pages'[j].shown
  BY <1>1, ShownStays
<1>3. /\ height' = [height EXCEPT ![leaving] = 0]
      /\ initialHeight' = [initialHeight EXCEPT ![leaving] = 0]
      /\ animationHeight' = [animationHeight EXCEPT ![leaving] = 0]
      /\ opened' = opened \ {leaving} /\ online' = online \ {leaving}
  BY DEF Leave
<1>4. IntroInv'
  BY <1>1, <1>2, <1>3 DEF DetailInv, IntroInv, Folded
<1>5. Mounted' = {}
  BY <1>1 DEF Mounted
<1> QED BY <1>1, <1>3, <1>4, <1>5 DEF DetailInv, SheetInv, SheetAllowed

LEMMA PublishSheet ==
    ASSUME DetailInv, NEW id \in Ids, Publish(id) \/ Permitted(id) \/ NotPermitted(id)
    PROVE  SheetInv'
<1>1. /\ SheetInv /\ UNCHANGED <<pages, visits, detail, leaving, online>> /\ Mounted' = Mounted
      /\ MaxTaps \in Nat /\ asked[id] \in 0..MaxTaps /\ id \in Nat
  BY DetailAssumption
  DEF DetailInv, SheetInv, Publish, Permitted, NotPermitted, vars, Mounted, Ids
<1>2. CASE Publish(id)
  <2>1. /\ asked' = [asked EXCEPT ![id] = @ + 1] /\ asked[id] + 1 \in 0..MaxTaps
        /\ UNCHANGED <<granted, sheet>>
        /\ id \in online /\ pages[id].shown /\ id <= visits
    BY <1>1, <1>2 DEF Publish, Touchable, DetailInv, BarInv, IdInv
  <2>2. asked' \in [Ids -> 0..MaxTaps] /\ \A j \in Ids : j # id => asked'[j] = asked[j]
    BY <1>1, <2>1 DEF SheetInv
  <2> QED BY <1>1, <2>1, <2>2 DEF SheetInv, SheetAllowed
<1>3. CASE Permitted(id) \/ NotPermitted(id)
  <2>1. /\ asked' = [asked EXCEPT ![id] = @ - 1] /\ asked[id] > 0
        /\ asked[id] - 1 \in 0..MaxTaps
    BY <1>1, <1>3 DEF Permitted, NotPermitted
  <2>2. /\ asked' \in [Ids -> 0..MaxTaps]
        /\ \A j \in Ids : asked'[j] > 0 => asked[j] > 0
    BY <1>1, <2>1 DEF SheetInv
  <2>3. /\ granted \subseteq granted' /\ granted' \subseteq Ids
        /\ \/ sheet' = sheet
           \/ sheet' = id /\ id \in Mounted /\ id \in granted'
    BY <1>1, <1>3 DEF Permitted, NotPermitted, SheetInv
  <2> QED BY <1>1, <2>1, <2>2, <2>3 DEF SheetInv, SheetAllowed
<1> QED BY <1>2, <1>3

LEMMA ChooseSheet == ASSUME DetailInv, Choose PROVE SheetInv'
<1>1. /\ UNCHANGED <<pages, visits, detail, leaving, online, asked, granted>>
      /\ Mounted' = Mounted /\ sheet' = 0
  BY DEF Choose, vars, Mounted
<1> QED BY <1>1 DEF DetailInv, SheetInv, SheetAllowed

(* One step per action, with what it can disturb. *)
LEMMA DetailStep == DetailInv /\ [DetailNext]_detailVars => DetailInv'
<1> SUFFICES ASSUME DetailInv, [DetailNext]_detailVars PROVE DetailInv'
  OBVIOUS
<1>1. BarInv /\ IntroInv /\ SheetInv /\ [Next]_vars
  BY PageStep DEF DetailInv
<1>2. BarInv'
  BY <1>1, OpenBar, OpenJoinersBar, BackFromJoinersBar, BackBar, UnmountBar, FetchActivityBar,
     FetchFailedBar, HandleScrollBar, StutterBar DEF Next
<1>3. \A id \in Ids : pages[id].shown => pages'[id].shown
  BY <1>1, ShownStays
<1>4. CASE NavigateTop \/ Background
  <2>1. UNCHANGED <<introVars, publishVars>>
    BY <1>4 DEF NavigateTop, Background
  <2>2. ~Unmount
    <3>1. CASE Open \/ OpenJoiners \/ BackFromJoiners \/ Back
      BY <1>1, <3>1 DEF Open, OpenJoiners, BackFromJoiners, Back, Unmount, BarInv, IdInv, TypeOK, Ids
    <3>2. CASE \E id \in Ids : FetchFailed(id) \/ \E onPicture \in BOOLEAN : HandleScroll(id, onPicture)
      BY <3>2 DEF FetchFailed, HandleScroll, Unmount
    <3> QED BY <1>4, <3>1, <3>2 DEF NavigateTop, Background
  <2> QED BY <1>1, <1>2, <1>3, <2>1, <2>2, IntroFrame, SheetFrame DEF DetailInv
<1>5. CASE Leave
  BY <1>2, <1>5, LeaveDetail DEF DetailInv
<1>6. CASE ViewImages \/ Browse \/ UNCHANGED detailVars
  <2>1. UNCHANGED <<vars, introVars, publishVars>>
    BY <1>6 DEF ViewImages, Browse, detailVars
  <2>2. ~Unmount
    BY <2>1 DEF Unmount, vars
  <2> QED BY <1>1, <1>2, <1>3, <2>1, <2>2, IntroFrame, SheetFrame DEF DetailInv
<1>7. CASE Choose
  <2>1. UNCHANGED introVars
    BY <1>7 DEF Choose
  <2> QED BY <1>1, <1>2, <1>3, <1>7, <2>1, ChooseSheet, IntroFrame DEF DetailInv
<1>8. ASSUME NEW id \in Ids, DataArrive(id) PROVE DetailInv'
  BY <1>2, <1>8, DataArriveDetail DEF DetailInv
<1>9. ASSUME NEW id \in Ids, IntroBoxLayout(id) \/ Animate(id) PROVE DetailInv'
  <2>1. UNCHANGED <<vars, publishVars>>
    BY <1>9 DEF IntroBoxLayout, Animate
  <2>2. ~Unmount
    BY <2>1 DEF Unmount, vars
  <2>3. IntroInv'
    BY <1>9, LayoutIntro, AnimateIntro
  <2> QED BY <1>1, <1>2, <2>1, <2>2, <2>3, SheetFrame DEF DetailInv
<1>10. ASSUME NEW id \in Ids, Publish(id) \/ Permitted(id) \/ NotPermitted(id)
       PROVE  DetailInv'
  <2>1. UNCHANGED introVars
    BY <1>10 DEF Publish, Permitted, NotPermitted
  <2> QED BY <1>1, <1>2, <1>3, <1>10, <2>1, PublishSheet, IntroFrame DEF DetailInv
<1> QED BY <1>4, <1>5, <1>6, <1>7, <1>8, <1>9, <1>10 DEF DetailNext

LEMMA DetailInvariance == DetailSpec => []DetailInv
BY InitDetail, DetailStep, PTL DEF DetailSpec

-----------------------------------------------------------------------------
(* The page, its introduction, its permissions and its pictures keep their *)
(* types.                                                                  *)
THEOREM DetailTypeCorrect == DetailSpec => []DetailTypeOK
<1>1. DetailInv /\ SaveInv => DetailTypeOK
  BY DEF DetailInv, BarInv, IdInv, IntroInv, SheetInv, SaveInv, DetailTypeOK
<1> QED BY <1>1, DetailInvariance, ImplementsBrowser, SaveInvariance, PTL

(* No introduction is cut off without a folded button on it, but for the   *)
(* heights introBoxLayout and the button's condition disagree about.       *)
THEOREM CutOffExplained == DetailSpec => []CutExplained
<1>1. ASSUME IntroInv, NEW id \in Ids, initialHeight[id] > 0, Visible(id) < height[id]
      PROVE  \/ HasButton(id) /\ id \notin opened
             \/ height[id] \in (MaxHeight - Padding + 1)..MaxHeight
  <2>1. Folded(id) /\ height[id] \in Nat /\ animationHeight[id] \in Nat
    BY <1>1 DEF IntroInv
  <2> QED
    BY <1>1, <2>1 DEF Folded, Visible, HasButton, MaxHeight, ButtonHeight, Padding
<1>2. DetailInv => CutExplained
  BY <1>1 DEF DetailInv, CutExplained
<1> QED BY <1>2, DetailInvariance, PTL

(* However late the host's permission comes, the sheet is up only for a    *)
(* page that is still there, with its data and an activity online.         *)
THEOREM SheetIsAllowed == DetailSpec => []SheetAllowed
<1>1. DetailInv => SheetAllowed
  BY DEF DetailInv, SheetInv
<1> QED BY <1>1, DetailInvariance, PTL

(* The bar is right on this page too, with everything that lies over it.   *)
THEOREM DetailBar == DetailSpec => [](CacheIsTrue /\ DarkElsewhere /\ BarFitsHeader)
BY ImplementsPage, CacheTrue, BarDark, BarRight, PTL

-----------------------------------------------------------------------------
(* With no introduction between the two limits (660 and 700), the button   *)
(* that says view more always shows more: those heights are all that is    *)
(* wrong with it.                                                          *)
Between == (MaxHeight - Padding + 1)..MaxHeight

HeightInv == DetailInv /\ \A id \in Ids : height[id] \in Heights \cup {0}

LEMMA HeightStep == HeightInv /\ [DetailNext]_detailVars => HeightInv'
<1> SUFFICES ASSUME HeightInv, [DetailNext]_detailVars
             PROVE  \A id \in Ids : height'[id] \in Heights \cup {0}
  BY DetailStep DEF HeightInv
<1>1. height \in [Ids -> Nat] /\ \A id \in Ids : height[id] \in Heights \cup {0}
  BY DEF HeightInv, DetailInv, IntroInv
<1>2. CASE Leave \/ \E id \in Ids : DataArrive(id)
  BY <1>1, <1>2 DEF Leave, DataArrive
<1>3. CASE UNCHANGED height
  BY <1>1, <1>3
<1> QED
  BY <1>2, <1>3
  DEF DetailNext, detailVars, introVars, NavigateTop, Background, ViewImages, Browse, Choose,
      IntroBoxLayout, Animate, Publish, Permitted, NotPermitted

LEMMA AnimateMore ==
    ASSUME HeightInv, Heights \cap Between = {}, NEW id \in Ids, Animate(id), id \notin opened
    PROVE  Visible(id)' > Visible(id)
<1>1. /\ HasButton(id) /\ HasButton(id)' /\ Folded(id) /\ height[id] \in Nat
      /\ initialHeight[id] \in Nat /\ initialHeight' = initialHeight
  BY DEF HeightInv, DetailInv, IntroInv, Animate, HasButton, MaxHeight
<1>2. height[id] \in Heights \cup {0} /\ height[id] \notin Between
  BY DEF HeightInv, Between, MaxHeight, Padding
<1>3. height[id] > MaxHeight
  BY <1>1, <1>2 DEF HasButton, Folded, Between, MaxHeight, Padding
<1>4. initialHeight[id] = height[id] + ButtonHeight /\ animationHeight[id] = MaxHeight
  BY <1>1, <1>3 DEF Folded
<1>5. animationHeight'[id] = initialHeight[id]
  BY <1>3, <1>4 DEF Animate, HeightInv, DetailInv, IntroInv, MaxHeight, ButtonHeight
<1> QED BY <1>1, <1>3, <1>4, <1>5 DEF Visible, MaxHeight, ButtonHeight

LEMMA MoreStep ==
    ASSUME HeightInv, [DetailNext]_detailVars, Heights \cap Between = {},
           NEW id \in Ids, animationHeight[id]' # animationHeight[id], id \in Mounted',
           HasButton(id), id \notin opened
    PROVE  Visible(id)' > Visible(id)
<1>1. animationHeight \in [Ids -> Nat] /\ initialHeight[id] # 0
  BY DEF HeightInv, DetailInv, IntroInv, HasButton, MaxHeight
<1>2. ~Leave
  <2>1. Leave => leaving \in Ids /\ detail = 0 /\ detail' = 0 /\ leaving' = 0
    BY DEF Leave, Unmount, HeightInv, DetailInv, BarInv, IdInv, TypeOK
  <2> QED BY <2>1 DEF Mounted
<1>3. ASSUME NEW i \in Ids, IntroBoxLayout(i) PROVE FALSE
  <2>1. i # id
    BY <1>1, <1>3 DEF IntroBoxLayout
  <2> QED BY <1>1, <1>3, <2>1 DEF IntroBoxLayout, FoldFirst
<1>4. ASSUME NEW i \in Ids, Animate(i) PROVE Animate(id)
  <2>1. i = id
    BY <1>1, <1>4 DEF Animate
  <2> QED BY <1>4, <2>1
<1>5. ~UNCHANGED animationHeight
  OBVIOUS
<1> QED
  BY <1>2, <1>3, <1>4, <1>5, AnimateMore
  DEF DetailNext, detailVars, introVars, NavigateTop, Background, ViewImages, Browse, Choose,
      DataArrive, Publish, Permitted, NotPermitted

(* Where no introduction is above 660 up to 700 high, pressing the button  *)
(* never shows less: the heights between the two limits of introBoxLayout  *)
(* are the only ones for which view more does the contrary.                *)
THEOREM MoreIsMore ==
    ASSUME Heights \cap Between = {}
    PROVE  DetailSpec => MoreShowsMore
<1>1. DetailInit => HeightInv
  BY InitDetail DEF DetailInit, HeightInv
<1>2. ASSUME HeightInv, [DetailNext]_detailVars
      PROVE  [\A id \in Ids :
                animationHeight[id]' # animationHeight[id] /\ id \in Mounted' /\ HasButton(id) /\ id \notin opened
                  => Visible(id)' > Visible(id)]_detailVars
  BY <1>2, MoreStep
<1> QED BY <1>1, <1>2, HeightStep, PTL DEF DetailSpec, MoreShowsMore

(* On iOS no temporary file is left behind, as CacheCleaned says; and on   *)
(* Android the file of a save that succeeded is being deleted.             *)
OnlyFailuresLeft ==
    /\ ~android => Browser!CacheCleaned
    /\ \A n \in cached : saves[n] = "saved" => n \in unlinking

(* The temporary files left behind are those of failed saves on Android,   *)
(* the exact extent of what saveImageAlbum does not clean up.              *)
THEOREM LeftBehind == DetailSpec => []OnlyFailuresLeft
<1>1. SaveInv => OnlyFailuresLeft
  BY DEF SaveInv, OnlyFailuresLeft, Browser!CacheCleaned, Browser!TypeOK
<1> QED BY <1>1, ImplementsBrowser, SaveInvariance, PTL
=============================================================================
