--------------------------- MODULE ActivityDetail ---------------------------
(***************************************************************************)
(* The whole activity page (views/ActivityDetail.js): ActivityPage says    *)
(* when it mounts, loads, is covered and goes, ImageBrowser shows its      *)
(* pictures.  Added here are the introduction, which folds, and the        *)
(* publishing of a post: the host is asked for a permission first, and the *)
(* sheet with the kinds of posts is shown by its answer, wherever the user *)
(* has gone by then.                                                       *)
(*                                                                         *)
(* Heights are in points of the design, 750 wide (px2dp scales them all).  *)
(***************************************************************************)
EXTENDS ActivityPage

CONSTANTS
    Heights,    \* heights an introduction may have; 0 for none
    MaxTaps,    \* bound: permissions asked for at once
    MaxSaves    \* bound: pictures saved

ASSUME DetailAssumption == Heights \subseteq Nat /\ MaxTaps \in Nat /\ MaxSaves \in Nat

VARIABLES
    height,           \* the height of the introduction of each page
    initialHeight,    \* state.initialHeight of each page, 0 before its layout
    animationHeight,  \* state.animationHeight of each page
    opened,           \* the pages with state.isOpen
    online,           \* the pages whose activity has a status other than 0 and 2
    asked,            \* permissions of the host not answered yet, by page
    granted,          \* history: the pages that got a permission
    sheet,            \* the page whose sheet is up, 0 for none
    android, show, actionSheet, saves, cached, unlinking, album  \* of ImageBrowser

Browser == INSTANCE ImageBrowser

introVars   == <<height, initialHeight, animationHeight, opened>>
publishVars == <<online, asked, granted, sheet>>
browserVars == <<android, show, actionSheet, saves, cached, unlinking, album>>
detailVars  == <<vars, introVars, publishVars, browserVars>>

DetailTypeOK ==
    /\ TypeOK /\ Browser!TypeOK
    /\ height \in [Ids -> Nat] /\ initialHeight \in [Ids -> Nat]
    /\ animationHeight \in [Ids -> Nat]
    /\ opened \subseteq Ids /\ online \subseteq Ids /\ granted \subseteq Ids
    /\ asked \in [Ids -> 0..MaxTaps] /\ sheet \in {0} \cup Ids

DetailInit ==
    /\ Init /\ Browser!Init
    /\ height = [id \in Ids |-> 0] /\ initialHeight = height /\ animationHeight = height
    /\ opened = {} /\ online = {} /\ granted = {}
    /\ asked = [id \in Ids |-> 0] /\ sheet = 0

-----------------------------------------------------------------------------
MaxHeight    == 700
ButtonHeight == 84   \* of showHideBtn, which lies on the end of the introduction
Padding      == 40

(* The page can be touched: nothing lies over it. *)
Touchable(id) == id # 0 /\ id = detail /\ ~joiners /\ sheet = 0 /\ ~show /\ pages[id].shown

HasButton(id) == initialHeight[id] > MaxHeight

(* The first layout of the introduction decides for good how it folds: a   *)
(* later one, of a box that has been given a height, returns early.        *)
FoldFirst(id, h) ==
    /\ initialHeight' = [initialHeight EXCEPT ![id] =
           IF h > MaxHeight THEN h + ButtonHeight ELSE h + Padding]
    /\ animationHeight' = [animationHeight EXCEPT ![id] =
           IF h > MaxHeight THEN MaxHeight ELSE h + Padding]
IntroBoxLayoutAgain(id) ==  \* mutated: no early return
    /\ id \in Mounted /\ pages[id].shown /\ height[id] > 0
    /\ FoldFirst(id, IF initialHeight[id] = 0 THEN height[id] ELSE animationHeight[id])
    /\ UNCHANGED <<vars, height, opened, publishVars, browserVars>>
IntroBoxLayout(id) ==
    /\ id \in Mounted /\ pages[id].shown /\ height[id] > 0
    /\ initialHeight[id] = 0
    /\ FoldFirst(id, height[id])
    /\ UNCHANGED <<vars, height, opened, publishVars, browserVars>>

(* The button: everything is shown, or cut off at MaxHeight. *)
Animate(id) ==
    /\ Touchable(id) /\ HasButton(id)
    /\ IF animationHeight[id] < initialHeight[id]
         THEN /\ animationHeight' = [animationHeight EXCEPT ![id] = initialHeight[id]]
              /\ opened' = opened \cup {id}
         ELSE /\ animationHeight' = [animationHeight EXCEPT ![id] = MaxHeight]
              /\ opened' = opened \ {id}
    /\ UNCHANGED <<vars, height, initialHeight, publishVars, browserVars>>

-----------------------------------------------------------------------------
(* A tap on a button for publishing; an activity not online gets a toast.  *)
Publish(id) ==
    /\ Touchable(id) /\ id \in online /\ asked[id] < MaxTaps
    /\ asked' = [asked EXCEPT ![id] = @ + 1]
    /\ UNCHANGED <<vars, introVars, online, granted, sheet, browserVars>>

(* The host grants it: the sheet comes up, over whatever is there, unless  *)
(* the page has unmounted, in which case the try takes the missing ref.    *)
PermittedAnyway(id) ==  \* mutated: the sheet is not asked for its page
    /\ asked[id] > 0
    /\ asked' = [asked EXCEPT ![id] = @ - 1]
    /\ granted' = granted \cup {id} /\ sheet' = id
    /\ UNCHANGED <<vars, introVars, online, browserVars>>
Permitted(id) ==
    /\ asked[id] > 0
    /\ asked' = [asked EXCEPT ![id] = @ - 1]
    /\ granted' = granted \cup {id}
    /\ sheet' = IF id \in Mounted THEN id ELSE sheet
    /\ UNCHANGED <<vars, introVars, online, browserVars>>

NotPermitted(id) ==
    /\ asked[id] > 0
    /\ asked' = [asked EXCEPT ![id] = @ - 1]
    /\ UNCHANGED <<vars, introVars, online, granted, sheet, browserVars>>

(* An option of the sheet, which opens a page of the host, or its cancel. *)
Choose ==
    /\ sheet # 0 /\ sheet' = 0
    /\ UNCHANGED <<vars, introVars, online, asked, granted, browserVars>>

-----------------------------------------------------------------------------
(* The actions of ActivityPage, with what they mean for the rest. *)
DataArrive(id) ==
    /\ FetchActivity(id)
    /\ IF id \in Mounted
         THEN /\ \E h \in Heights : height' = [height EXCEPT ![id] = h]
              /\ online' \in {online, online \cup {id}}
         ELSE UNCHANGED <<height, online>>
    /\ UNCHANGED <<initialHeight, animationHeight, opened, asked, granted, sheet, browserVars>>

(* No touch reaches a page under a sheet or under the image browser, but   *)
(* Android's back button passes by the browser; a list that rolls goes on. *)
Uncovered   == sheet = 0 /\ ~actionSheet
NavigateTop ==
    /\ \/ OpenJoiners /\ Touchable(detail)
       \/ (BackFromJoiners \/ Back) /\ Uncovered
    /\ UNCHANGED <<introVars, publishVars, browserVars>>

Background ==
    /\ \/ Open
       \/ \E id \in Ids : FetchFailed(id) \/ \E onPicture \in BOOLEAN : HandleScroll(id, onPicture)
    /\ UNCHANGED <<introVars, publishVars, browserVars>>

(* The page goes, and with it its state, its sheet and its image browser. *)
Leave ==
    /\ Unmount /\ Browser!Unmount
    /\ height' = [height EXCEPT ![leaving] = 0]
    /\ initialHeight' = [initialHeight EXCEPT ![leaving] = 0]
    /\ animationHeight' = [animationHeight EXCEPT ![leaving] = 0]
    /\ opened' = opened \ {leaving} /\ online' = online \ {leaving}
    /\ sheet' = 0
    /\ UNCHANGED <<asked, granted>>

ViewImages ==
    /\ Touchable(detail) /\ Browser!Show
    /\ UNCHANGED <<vars, introVars, publishVars>>

Browse ==
    /\ Browser!Touch \/ Browser!Settle
    /\ UNCHANGED <<vars, introVars, publishVars>>

DetailNext ==
    \/ NavigateTop \/ Background \/ Leave \/ ViewImages \/ Browse \/ Choose
    \/ \E id \in Ids :
         \/ DataArrive(id) \/ IntroBoxLayout(id) \/ Animate(id)
         \/ Publish(id) \/ Permitted(id) \/ NotPermitted(id)

DetailSpec == DetailInit /\ [][DetailNext]_detailVars

-----------------------------------------------------------------------------
(* What can be seen of an introduction; its button covers its end. *)
Visible(id) ==
    IF HasButton(id) THEN animationHeight[id] - ButtonHeight ELSE animationHeight[id]

(* Without the button, the end of an introduction is never cut off; with   *)
(* it, only while it is folded.  Except for the heights that get a button  *)
(* although they are not folded at first: above 660, up to 700.            *)
CutExplained ==
    \A id \in Ids :
      initialHeight[id] > 0 /\ Visible(id) < height[id]
        => \/ HasButton(id) /\ id \notin opened
           \/ height[id] \in (MaxHeight - Padding + 1)..MaxHeight

(* The button of an introduction that is not open says "查看更多图文详情", *)
(* view more: pressed, and not when its page goes, it shows more.          *)
MoreShowsMore ==
    [][\A id \in Ids :
         animationHeight[id]' # animationHeight[id] /\ id \in Mounted' /\ HasButton(id) /\ id \notin opened
           => Visible(id)' > Visible(id)]_detailVars

(* The sheet is only up for a page that is still there, whose data have    *)
(* come (its options read the circle), whose activity is online and for    *)
(* which the host gave a permission, however late that came.               *)
SheetAllowed ==
    sheet # 0 => sheet \in Mounted /\ pages[sheet].shown /\ sheet \in online \cap granted

(* The toast after a save of a picture is right, whether the browser and   *)
(* the page are still there or not.                                        *)
SaveToastIsTrue == Browser!ToastIsTrue
=============================================================================
