------------------------- MODULE ActivityPageProofs -------------------------
(* Proofs about ActivityPage, for every number of pages opened. *)
EXTENDS ActivityPage, TLAPS

(* No id is used before its page is opened, ActivityJoiners covers an      *)
(* activity page, and there is never one on the stack beside one leaving.  *)
IdInv ==
    /\ TypeOK
    /\ joiners => detail # 0
    /\ detail = 0 \/ leaving = 0
    /\ detail <= visits /\ leaving <= visits
    /\ \A id \in Ids : id > visits => pages[id] = NewPage /\ id \notin fetching

(* What the style of the bar follows from while no answer came too late:   *)
(* a page that shows its data has set the bar, and the cache of a mounted  *)
(* page is the bar; a page that shows none yet has left the bar dark.      *)
BarInv ==
    /\ IdInv
    /\ ~late =>
         /\ Mounted = {} \/ joiners => bar = "dark"
         /\ \A id \in Mounted :
              IF pages[id].shown
                THEN pages[id].lastBarStyle = bar
                ELSE pages[id].lastBarStyle = "none" /\ bar = "dark"
    /\ ~late /\ ~returned /\ detail # 0 /\ ~joiners /\ pages[detail].shown
         => bar = IF pages[detail].opaque THEN "dark" ELSE "light"
    /\ \A id \in Ids : ~pages[id].shown => ~pages[id].opaque
    /\ \A id \in fetching : ~pages[id].shown
    /\ joiners => pages[detail].shown
-----------------------------------------------------------------------------
(* A call of setBarStyle changes the page it is made by, and no other. *)
LEMMA SetBarStyleEffect ==
    ASSUME TypeOK, NEW id \in Ids, NEW style \in Styles, NEW p \in Page,
           SetBarStyle(id, style, p)
    PROVE  /\ bar' \in Styles /\ pages' \in [Ids -> Page]
           /\ bar' = IF p.lastBarStyle = style THEN bar ELSE style
           /\ pages'[id].shown = p.shown /\ pages'[id].opaque = p.opaque
           /\ pages'[id].lastBarStyle = style
           /\ \A j \in Ids : j # id => pages'[j] = pages[j]
<1>1. [p EXCEPT !.lastBarStyle = style] \in Page
  BY DEF Page
<1>2. pages' = [pages EXCEPT ![id] = [p EXCEPT !.lastBarStyle = style]]
  BY DEF SetBarStyle
<1>3. pages'[id] = [p EXCEPT !.lastBarStyle = style]
  BY <1>2 DEF TypeOK
<1>4. bar' = IF p.lastBarStyle = style THEN bar ELSE style
  BY DEF SetBarStyle
<1> QED BY <1>1, <1>2, <1>3, <1>4 DEF TypeOK, Page

(* When the cache of the caller is unset or true, the bar has the style    *)
(* asked for after the call.                                               *)
LEMMA SetBarStyleSets ==
    ASSUME TypeOK, NEW id \in Ids, NEW style \in Styles, NEW p \in Page,
           SetBarStyle(id, style, p), p.lastBarStyle \in {"none", bar}
    PROVE  bar' = style
BY SetBarStyleEffect DEF Styles

LEMMA InitBar == Init => BarInv
<1> SUFFICES ASSUME Init PROVE BarInv
  OBVIOUS
<1>1. TypeOK
  BY BoundsAssumption DEF Init, TypeOK, NewPage, Page, Styles, Ids
<1>2. Mounted = {}
  BY DEF Init, Mounted
<1> QED BY <1>1, <1>2 DEF Init, BarInv, IdInv, NewPage

-----------------------------------------------------------------------------
(* Every action keeps BarInv. *)
LEMMA OpenBar == ASSUME BarInv, Open PROVE BarInv'
<1>1. visits \in Nat /\ visits + 1 \in Ids
  BY BoundsAssumption DEF BarInv, IdInv, TypeOK, Open, Ids
<1>2. pages[visits + 1] = NewPage
  BY <1>1 DEF BarInv, IdInv
<1>3. ~joiners /\ (~late => bar = "dark")
  BY DEF BarInv, IdInv, Open, Mounted
<1>4. Ids \subseteq Nat
  BY DEF Ids
<1>5. IdInv'
  <2>1. TypeOK'
    BY <1>1 DEF BarInv, IdInv, TypeOK, Open
  <2>2. /\ joiners' => detail' # 0
        /\ detail' = 0 \/ leaving' = 0
        /\ detail' <= visits' /\ leaving' <= visits'
    BY <1>1, <1>3 DEF Open
  <2>3. \A id \in Ids : id > visits' => id > visits /\ id # visits + 1
    BY <1>1, <1>4 DEF Open
  <2>4. pages' = pages /\ fetching' = fetching \cup {visits + 1}
    BY DEF Open
  <2>5. \A id \in Ids : id > visits => pages[id] = NewPage /\ id \notin fetching
    BY DEF BarInv, IdInv
  <2>6. \A id \in Ids : id > visits' => pages'[id] = NewPage /\ id \notin fetching'
    BY <2>3, <2>4, <2>5
  <2> QED BY <2>1, <2>2, <2>6 DEF IdInv
<1>6. Mounted' = {visits + 1}
  BY <1>1 DEF Open, Mounted, Ids
<1>7. \A id \in fetching' : ~pages'[id].shown
  BY <1>2 DEF BarInv, Open, NewPage
<1> QED BY <1>1, <1>2, <1>3, <1>5, <1>6, <1>7 DEF BarInv, Open, NewPage

LEMMA FetchActivityBar ==
    ASSUME BarInv, NEW id \in Ids, FetchActivity(id)
    PROVE  BarInv'
<1>1. pages[id] \in Page /\ id \in fetching /\ ~pages[id].shown /\ ~pages[id].opaque
  BY DEF BarInv, IdInv, TypeOK, FetchActivity
<1> DEFINE p == [pages[id] EXCEPT !.shown = TRUE]
<1>2. p \in Page /\ p.shown /\ ~p.opaque /\ p.lastBarStyle = pages[id].lastBarStyle
  BY <1>1 DEF Page
<1>3. SetBarStyle(id, "light", p) /\ "light" \in Styles /\ TypeOK
  BY DEF FetchActivity, Styles, BarInv, IdInv
<1> HIDE DEF p
<1>4. /\ bar' \in Styles /\ pages' \in [Ids -> Page]
      /\ pages'[id].shown /\ ~pages'[id].opaque /\ pages'[id].lastBarStyle = "light"
      /\ \A j \in Ids : j # id => pages'[j] = pages[j]
  BY <1>2, <1>3, SetBarStyleEffect
<1>5. Mounted' = Mounted /\ Mounted \subseteq Ids
  BY DEF FetchActivity, Mounted, BarInv, IdInv, TypeOK
<1>6. IdInv'
  BY <1>4 DEF FetchActivity, BarInv, IdInv, TypeOK
<1>7. ASSUME ~late'
      PROVE  Mounted = {id} /\ ~late /\ bar' = "light" /\ ~joiners
  <2>1. Mounted = {id} /\ ~late
    BY <1>7 DEF FetchActivity, Mounted, BarInv, IdInv
  <2>2. p.lastBarStyle = "none" /\ bar = "dark"
    BY <1>1, <1>2, <2>1 DEF BarInv
  <2>3. bar' = "light"
    BY <1>2, <1>3, <2>2, SetBarStyleSets
  <2>4. ~joiners
    BY <1>1, <2>1 DEF Mounted, BarInv, IdInv
  <2> QED BY <2>1, <2>3, <2>4
<1>8. detail' = detail /\ joiners' = joiners /\ fetching' = fetching \ {id}
  BY DEF FetchActivity
<1>9. \A j \in Ids : ~pages'[j].shown => ~pages'[j].opaque
  BY <1>4 DEF BarInv
<1>10. \A j \in fetching' : ~pages'[j].shown
  BY <1>4, <1>8 DEF BarInv, IdInv, TypeOK
<1>11. joiners' => pages'[detail'].shown
  BY <1>4, <1>8 DEF BarInv, IdInv, TypeOK
<1>12. ASSUME ~late', detail' # 0 PROVE detail' = id
  BY <1>7, <1>8, <1>12 DEF Mounted
<1> QED BY <1>4, <1>5, <1>6, <1>7, <1>8, <1>9, <1>10, <1>11, <1>12 DEF BarInv

LEMMA FetchFailedBar ==
    ASSUME BarInv, NEW id \in Ids, FetchFailed(id)
    PROVE  BarInv'
<1>1. Mounted' = Mounted
  BY DEF FetchFailed, Mounted
<1> QED BY <1>1 DEF FetchFailed, BarInv, IdInv, TypeOK

LEMMA HandleScrollBar ==
    ASSUME BarInv, NEW id \in Ids, NEW onPicture \in BOOLEAN, HandleScroll(id, onPicture)
    PROVE  BarInv'
<1>1. /\ Mounted = {id} /\ detail \in {0, id} /\ leaving \in {0, id}
      /\ pages[id] \in Page /\ pages[id].shown /\ ~joiners
  BY DEF BarInv, IdInv, TypeOK, HandleScroll, Mounted
<1> DEFINE p == [pages[id] EXCEPT !.opaque = ~onPicture]
           style == IF onPicture THEN "light" ELSE "dark"
<1>2. p \in Page /\ p.shown /\ p.opaque = ~onPicture /\ p.lastBarStyle = pages[id].lastBarStyle
  BY <1>1 DEF Page
<1>3. SetBarStyle(id, style, p) /\ style \in Styles /\ TypeOK
  BY DEF HandleScroll, Styles, BarInv, IdInv
<1>4. style = IF onPicture THEN "light" ELSE "dark"
  OBVIOUS
<1> HIDE DEF p, style
<1>5. /\ bar' \in Styles /\ pages' \in [Ids -> Page]
      /\ pages'[id].shown /\ pages'[id].opaque = ~onPicture
      /\ pages'[id].lastBarStyle = style
      /\ \A j \in Ids : j # id => pages'[j] = pages[j]
  BY <1>2, <1>3, SetBarStyleEffect
<1>6. Mounted' = Mounted
  BY DEF HandleScroll, Mounted
<1>7. ~late => bar' = style
  BY <1>1, <1>2, <1>3, SetBarStyleSets DEF BarInv
<1>8. IdInv'
  <2>1. UNCHANGED <<detail, joiners, leaving, visits, fetching, late>> /\ returned' = FALSE
    BY DEF HandleScroll
  <2>2. TypeOK'
    BY <1>5, <2>1 DEF BarInv, IdInv, TypeOK
  <2>3. id <= visits
    BY <1>1 DEF BarInv, IdInv, Mounted
  <2>4. \A j \in Ids : j > visits => j # id
    BY <2>3 DEF BarInv, IdInv, TypeOK, Ids
  <2>5. \A j \in Ids : j > visits' => pages'[j] = NewPage /\ j \notin fetching'
    BY <1>5, <2>1, <2>4 DEF BarInv, IdInv
  <2> QED BY <2>1, <2>2, <2>5 DEF BarInv, IdInv
<1>9. late' = late /\ detail' = detail /\ joiners' = joiners /\ fetching' = fetching
  BY DEF HandleScroll
<1>10. \A j \in fetching' : ~pages'[j].shown
  BY <1>1, <1>5, <1>9 DEF BarInv, IdInv, TypeOK
<1>11. \A j \in Ids : ~pages'[j].shown => ~pages'[j].opaque
  BY <1>5 DEF BarInv
<1> QED BY <1>1, <1>4, <1>5, <1>6, <1>7, <1>8, <1>9, <1>10, <1>11 DEF BarInv

LEMMA OpenJoinersBar == ASSUME BarInv, OpenJoiners PROVE BarInv'
<1>1. detail \in Ids /\ pages[detail] \in Page /\ pages[detail].shown
  BY DEF BarInv, IdInv, TypeOK, OpenJoiners
<1>2. SetBarStyle(detail, "dark", pages[detail]) /\ "dark" \in Styles /\ TypeOK
  BY DEF OpenJoiners, Styles, BarInv, IdInv
<1>3. /\ bar' \in Styles /\ pages' \in [Ids -> Page]
      /\ pages'[detail].shown /\ pages'[detail].opaque = pages[detail].opaque
      /\ pages'[detail].lastBarStyle = "dark"
      /\ \A j \in Ids : j # detail => pages'[j] = pages[j]
  BY <1>1, <1>2, SetBarStyleEffect
<1>4. Mounted = {detail} /\ Mounted' = Mounted
  BY <1>1 DEF OpenJoiners, Mounted, BarInv, IdInv, Ids
<1>5. ~late => bar' = "dark"
  BY <1>1, <1>2, <1>4, SetBarStyleSets DEF BarInv
<1>6. IdInv'
  BY <1>1, <1>3 DEF OpenJoiners, BarInv, IdInv, TypeOK, Ids
<1>7. late' = late /\ detail' = detail /\ joiners' = TRUE /\ fetching' = fetching
  BY DEF OpenJoiners
<1>8. \A j \in fetching' : ~pages'[j].shown
  BY <1>1, <1>3, <1>7 DEF BarInv, IdInv, TypeOK
<1> QED BY <1>1, <1>3, <1>4, <1>5, <1>6, <1>7, <1>8 DEF BarInv

LEMMA BackFromJoinersBar == ASSUME BarInv, BackFromJoiners PROVE BarInv'
<1>1. Mounted' = Mounted /\ Mounted # {}
  BY DEF BackFromJoiners, Mounted, BarInv, IdInv
<1> QED BY <1>1 DEF BackFromJoiners, BarInv, IdInv, TypeOK

LEMMA BackBar == ASSUME BarInv, Back PROVE BarInv'
<1>1. Mounted' = Mounted
  BY DEF Back, Mounted, BarInv, IdInv
<1>2. IdInv'
  BY DEF Back, BarInv, IdInv, TypeOK, Ids
<1> QED BY <1>1, <1>2 DEF Back, BarInv

LEMMA UnmountBar == ASSUME BarInv, Unmount PROVE BarInv'
<1>1. leaving \in Ids /\ pages[leaving] \in Page /\ detail = 0 /\ ~joiners
  BY DEF BarInv, IdInv, TypeOK, Unmount
<1>2. SetBarStyle(leaving, "dark", pages[leaving]) /\ "dark" \in Styles /\ TypeOK
  BY DEF Unmount, Styles, BarInv, IdInv
<1>3. /\ bar' \in Styles /\ pages' \in [Ids -> Page]
      /\ pages'[leaving].shown = pages[leaving].shown
      /\ pages'[leaving].opaque = pages[leaving].opaque
      /\ \A j \in Ids : j # leaving => pages'[j] = pages[j]
  BY <1>1, <1>2, SetBarStyleEffect
<1>4. leaving \in Mounted /\ Mounted' = {}
  BY <1>1 DEF Unmount, Mounted, Ids
<1>5. ~late => bar' = "dark"
  BY <1>1, <1>2, <1>4, SetBarStyleSets DEF BarInv
<1>6. IdInv'
  BY <1>1, <1>3 DEF Unmount, BarInv, IdInv, TypeOK, Ids
<1>7. late' = late /\ detail' = 0 /\ ~joiners' /\ fetching' = fetching
  BY <1>1 DEF Unmount
<1>8. /\ \A j \in fetching' : ~pages'[j].shown
      /\ \A j \in Ids : ~pages'[j].shown => ~pages'[j].opaque
  BY <1>3, <1>7 DEF BarInv, IdInv, TypeOK
<1> QED BY <1>4, <1>5, <1>6, <1>7, <1>8 DEF BarInv

LEMMA StutterBar == ASSUME BarInv, UNCHANGED vars PROVE BarInv'
BY DEF vars, BarInv, IdInv, TypeOK, Mounted

LEMMA BarInvariant == Spec => []BarInv
<1>1. Init => BarInv
  BY InitBar
<1>2. BarInv /\ [Next]_vars => BarInv'
  BY OpenBar, OpenJoinersBar, BackFromJoinersBar, BackBar, UnmountBar, FetchActivityBar,
     FetchFailedBar, HandleScrollBar, StutterBar DEF Next
<1> QED BY <1>1, <1>2, PTL DEF Spec

-----------------------------------------------------------------------------
(* The bar, the pages and their caches keep their types. *)
THEOREM TypeCorrect == Spec => []TypeOK
<1>1. BarInv => TypeOK
  BY DEF BarInv, IdInv
<1> QED BY <1>1, BarInvariant, PTL

(* A mounted page's lastBarStyle is the style of the bar, if it is set:    *)
(* setBarStyle (ActivityDetail.js:90-101) skips no change that is needed.  *)
THEOREM CacheTrue == Spec => []CacheIsTrue
<1>1. BarInv => CacheIsTrue
  BY DEF BarInv, CacheIsTrue
<1> QED BY <1>1, BarInvariant, PTL

(* Where no activity page shows, the bar is dark: componentWillUnmount and *)
(* onJumpActivityJoiners have seen to it.                                  *)
THEOREM BarDark == Spec => []DarkElsewhere
<1>1. BarInv => DarkElsewhere
  BY DEF BarInv, DarkElsewhere
<1> QED BY <1>1, BarInvariant, PTL

(* On an activity page the bar fits the header handleScroll has drawn. *)
THEOREM BarRight == Spec => []BarFitsHeader
<1>1. BarInv => BarFitsHeader
  BY DEF BarInv, BarFitsHeader
<1> QED BY <1>1, BarInvariant, PTL
=============================================================================
