---------------------------- MODULE ActivityPage ----------------------------
(***************************************************************************)
(* The colour of the status bar while activity pages come and go           *)
(* (views/ActivityDetail.js).  The bar is one for the whole application,   *)
(* but every activity page decides through a cache of its own,             *)
(* lastBarStyle, whether to set it: light over the picture at its top,     *)
(* dark over its scrolled header and over every other page.                *)
(*                                                                         *)
(* Below the activity page is a page with a white header: the list that    *)
(* opened it, or a page of the host application.                           *)
(***************************************************************************)
EXTENDS Naturals

CONSTANT MaxVisits   \* bound: activity pages opened in one behaviour

ASSUME BoundsAssumption == MaxVisits \in Nat \ {0}

VARIABLES
    bar,       \* the style of the status bar
    detail,    \* the activity page on the stack, 0 for none
    joiners,   \* ActivityJoiners covers it
    leaving,   \* the activity page popped and still mounted, 0 for none
    visits,    \* number of activity pages opened: the last id used
    pages,     \* state of the activity page with each id
    fetching,  \* the pages whose data were not answered yet
    late,      \* history: data came for a page that was unmounted
    returned   \* history: back from ActivityJoiners, and not scrolled since

vars == <<bar, detail, joiners, leaving, visits, pages, fetching, late, returned>>

Ids    == 1..MaxVisits
Styles == {"dark", "light"}
Page   == [shown : BOOLEAN, opaque : BOOLEAN, lastBarStyle : Styles \cup {"none"}]

TypeOK ==
    /\ bar \in Styles /\ joiners \in BOOLEAN
    /\ detail \in {0} \cup Ids /\ leaving \in {0} \cup Ids /\ visits \in {0} \cup Ids
    /\ pages \in [Ids -> Page] /\ fetching \subseteq Ids
    /\ late \in BOOLEAN /\ returned \in BOOLEAN

NewPage == [shown |-> FALSE, opaque |-> FALSE, lastBarStyle |-> "none"]
Mounted == {detail, leaving} \ {0}

Init ==
    /\ bar = "dark" /\ detail = 0 /\ joiners = FALSE /\ leaving = 0
    /\ visits = 0 /\ pages = [id \in Ids |-> NewPage] /\ fetching = {}
    /\ late = FALSE /\ returned = FALSE

-----------------------------------------------------------------------------
(* setBarStyle of the page with this id, whose other state becomes p. *)
SetBarStyle(id, style, p) ==
    /\ bar' = IF p.lastBarStyle = style THEN bar ELSE style
    /\ pages' = [pages EXCEPT ![id] = [p EXCEPT !.lastBarStyle = style]]

(* The page mounts, once the one popped before has gone, and fetches.      *)
Open ==
    /\ detail = 0 /\ leaving = 0 /\ visits < MaxVisits
    /\ visits' = visits + 1 /\ detail' = visits + 1
    /\ fetching' = fetching \cup {visits + 1}
    /\ returned' = FALSE
    /\ UNCHANGED <<bar, joiners, leaving, pages, late>>

(* The data arrive, whether the page is still there or not. *)
FetchActivity(id) ==
    /\ id \in fetching
    /\ SetBarStyle(id, "light", [pages[id] EXCEPT !.shown = TRUE])
    /\ late' = (late \/ id \notin Mounted)
    /\ fetching' = fetching \ {id}
    /\ UNCHANGED <<detail, joiners, leaving, visits, returned>>

(* The request fails, or its answer lacks a field that is read. *)
FetchFailed(id) ==
    /\ id \in fetching
    /\ fetching' = fetching \ {id}
    /\ UNCHANGED <<bar, detail, joiners, leaving, visits, pages, late, returned>>

(* A scroll event less than 100 points below the picture, or on it: the    *)
(* header is opaque from the end of the picture on.  Further down neither  *)
(* header nor bar is touched.  A page that was popped may still be rolling *)
(* out; a tap on the joiners stops the rolling first.                      *)
HandleScrollStrictly(id, onPicture) ==  \* mutated: value > 1, which a value capped at 1 never is
    /\ id \in Mounted /\ ~joiners /\ pages[id].shown
    /\ SetBarStyle(id, "light", [pages[id] EXCEPT !.opaque = ~onPicture])
    /\ returned' = FALSE
    /\ UNCHANGED <<detail, joiners, leaving, visits, fetching, late>>
HandleScroll(id, onPicture) ==
    /\ id \in Mounted /\ ~joiners /\ pages[id].shown
    /\ SetBarStyle(id, IF onPicture THEN "light" ELSE "dark",
                   [pages[id] EXCEPT !.opaque = ~onPicture])
    /\ returned' = FALSE
    /\ UNCHANGED <<detail, joiners, leaving, visits, fetching, late>>

OpenJoinersDirectly ==  \* mutated: the bar is set without the page's setBarStyle
    /\ detail # 0 /\ ~joiners /\ pages[detail].shown
    /\ bar' = "dark" /\ joiners' = TRUE
    /\ UNCHANGED <<detail, leaving, visits, pages, fetching, late, returned>>
OpenJoiners ==
    /\ detail # 0 /\ ~joiners /\ pages[detail].shown
    /\ SetBarStyle(detail, "dark", pages[detail])
    /\ joiners' = TRUE
    /\ UNCHANGED <<detail, leaving, visits, fetching, late, returned>>

(* Nothing sets the bar when the activity page is on top again. *)
BackFromJoiners ==
    /\ joiners
    /\ joiners' = FALSE /\ returned' = TRUE
    /\ UNCHANGED <<bar, detail, leaving, visits, pages, fetching, late>>

(* The page is popped; it unmounts when the transition has ended. *)
Back ==
    /\ detail # 0 /\ ~joiners
    /\ leaving' = detail /\ detail' = 0
    /\ UNCHANGED <<bar, joiners, visits, pages, fetching, late, returned>>

UnmountAsIs ==  \* mutated: componentWillUnmount is missing
    /\ leaving # 0 /\ leaving' = 0
    /\ UNCHANGED <<bar, detail, joiners, visits, pages, fetching, late, returned>>
UnmountDefault ==  \* mutated: the bar is left with the platform's default
    /\ leaving # 0 /\ leaving' = 0 /\ bar' = "default"
    /\ UNCHANGED <<detail, joiners, visits, pages, fetching, late, returned>>
Unmount ==
    /\ leaving # 0
    /\ SetBarStyle(leaving, "dark", pages[leaving])
    /\ leaving' = 0
    /\ UNCHANGED <<detail, joiners, visits, fetching, late, returned>>

Next ==
    \/ Open \/ OpenJoiners \/ BackFromJoiners \/ Back \/ Unmount
    \/ \E id \in Ids : FetchActivity(id) \/ FetchFailed(id)
    \/ \E id \in Ids, onPicture \in BOOLEAN : HandleScroll(id, onPicture)

(* Safety only: the user may stay, and the server need not answer. *)
Spec == Init /\ [][Next]_vars

-----------------------------------------------------------------------------
(* lastBarStyle of a page that is mounted is the style the bar really has, *)
(* so that setBarStyle never skips a change that is needed; only an answer *)
(* that comes for a page already unmounted breaks that.                    *)
CacheIsTrue ==
    ~late => \A id \in Mounted : pages[id].lastBarStyle \in {"none", bar}

(* A page with a white header has dark signs in its status bar: after an   *)
(* activity page has gone, and while ActivityJoiners covers one.           *)
DarkElsewhere == ~late /\ (Mounted = {} \/ joiners) => bar = "dark"

(* On the activity page the signs are light over the picture and dark over *)
(* the scrolled header, but for the time from the return of ActivityJoiners *)
(* to the next scroll event, in which they stay dark over the picture.     *)
BarFitsHeader ==
    ~late /\ ~returned /\ detail # 0 /\ ~joiners /\ pages[detail].shown
        => bar = IF pages[detail].opaque THEN "dark" ELSE "light"
=============================================================================
