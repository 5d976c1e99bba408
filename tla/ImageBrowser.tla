---------------------------- MODULE ImageBrowser ----------------------------
(***************************************************************************)
(* The pictures of a page in full screen, and the saving of one of them    *)
(* (components/ImageBrowser.js, lib/DownloadUtil.js).  A long press shows a *)
(* sheet; its first option starts a save of the picture that was pressed.  *)
(* On Android the picture is downloaded into a temporary file, written to  *)
(* the album from there, and the file is to be deleted; on iOS the album   *)
(* takes the address itself.  A save goes on when the browser is closed or *)
(* its page left, and several may be under way at once.                    *)
(*                                                                         *)
(* A save is known by its number; its last state is what the toast says.   *)
(***************************************************************************)
EXTENDS Naturals

CONSTANT MaxSaves   \* bound: pictures saved in one behaviour

VARIABLES
    android,      \* Platform.OS
    show,         \* state.show: the browser covers the page
    actionSheet,  \* the sheet is up, over the browser
    saves,        \* the state of each save
    cached,       \* saves whose temporary file exists
    unlinking,    \* saves whose temporary file is being deleted
    album         \* saves whose picture is in the album

vars == <<android, show, actionSheet, saves, cached, unlinking, album>>

Saves  == 1..MaxSaves
Ended  == {"saved", "failed"}
Stages == {"none", "downloading", "writing"} \cup Ended

TypeOK ==
    /\ android \in BOOLEAN /\ show \in BOOLEAN /\ actionSheet \in BOOLEAN
    /\ saves \in [Saves -> Stages]
    /\ cached \subseteq Saves /\ unlinking \subseteq Saves /\ album \subseteq Saves

Init ==
    /\ android \in BOOLEAN /\ show = FALSE /\ actionSheet = FALSE
    /\ saves = [n \in Saves |-> "none"]
    /\ cached = {} /\ unlinking = {} /\ album = {}

-----------------------------------------------------------------------------
Show ==
    /\ ~show /\ show' = TRUE
    /\ UNCHANGED <<android, actionSheet, saves, cached, unlinking, album>>

(* The cross, or a swipe down; the sheet is a modal over both. *)
Hide ==
    /\ show /\ ~actionSheet /\ show' = FALSE
    /\ UNCHANGED <<android, actionSheet, saves, cached, unlinking, album>>

ShowActionSheet ==
    /\ show /\ ~actionSheet /\ actionSheet' = TRUE
    /\ UNCHANGED <<android, show, saves, cached, unlinking, album>>

Cancel ==
    /\ actionSheet /\ actionSheet' = FALSE
    /\ UNCHANGED <<android, show, saves, cached, unlinking, album>>

Save(n) ==
    /\ actionSheet /\ actionSheet' = FALSE
    /\ saves[n] = "none" /\ (n > 1 => saves[n - 1] # "none")
    /\ saves' = [saves EXCEPT ![n] = IF android THEN "downloading" ELSE "writing"]
    /\ UNCHANGED <<android, show, cached, unlinking, album>>

Downloaded(n) ==
    /\ saves[n] = "downloading"
    /\ saves' = [saves EXCEPT ![n] = "writing"]
    /\ cached' = cached \cup {n}
    /\ UNCHANGED <<android, show, actionSheet, unlinking, album>>

(* The picture is in the album; only on Android there is a file to delete, *)
(* and nothing waits for that.                                             *)
Written(n) ==
    /\ saves[n] = "writing"
    /\ saves' = [saves EXCEPT ![n] = "saved"]
    /\ album' = album \cup {n}
    /\ unlinking' = IF android THEN unlinking \cup {n} ELSE unlinking
    /\ UNCHANGED <<android, show, actionSheet, cached>>

(* Download or writing fails.  On Android the catch of saveImageAlbum reads *)
(* res, which it does not have: it throws before anything is deleted, and  *)
(* so the promise is rejected, as it is on iOS.                            *)
FailsHandled(n) ==  \* mutated: the catch has res, deletes the file and resolves
    /\ saves[n] \in {"downloading", "writing"}
    /\ saves' = [saves EXCEPT ![n] = IF android THEN "saved" ELSE "failed"]
    /\ unlinking' = IF n \in cached THEN unlinking \cup {n} ELSE unlinking
    /\ UNCHANGED <<android, show, actionSheet, cached, album>>
Fails(n) ==
    /\ saves[n] \in {"downloading", "writing"}
    /\ saves' = [saves EXCEPT ![n] = "failed"]
    /\ UNCHANGED <<android, show, actionSheet, cached, unlinking, album>>

Unlinked(n) ==
    /\ n \in unlinking
    /\ unlinking' = unlinking \ {n} /\ cached' = cached \ {n}
    /\ UNCHANGED <<android, show, actionSheet, saves, album>>

(* The page of the browser is left: it goes with its sheet, the saves stay. *)
Unmount ==
    /\ show' = FALSE /\ actionSheet' = FALSE
    /\ UNCHANGED <<android, saves, cached, unlinking, album>>

(* What the user does in the browser, and how the saves go on. *)
Touch  == Hide \/ ShowActionSheet \/ Cancel \/ \E n \in Saves : Save(n)
Settle == \E n \in Saves : Downloaded(n) \/ Written(n) \/ Fails(n) \/ Unlinked(n)

Next == Show \/ Touch \/ Settle \/ Unmount

Spec == Init /\ [][Next]_vars

-----------------------------------------------------------------------------
(* The toast is right: a picture said to be saved is in the album and its  *)
(* temporary file gone or being deleted, and one said not to be is not in  *)
(* it.  The first holds on Android only because the catch fails.           *)
ToastIsTrue ==
    \A n \in Saves :
      /\ saves[n] = "saved" => n \in album /\ (n \in cached => n \in unlinking)
      /\ saves[n] = "failed" => n \notin album

(* The temporary file does not outlive its save, which is what the catch   *)
(* of saveImageAlbum deletes it for ("删除缓存图片").                       *)
CacheCleaned == \A n \in cached : saves[n] \in Ended => n \in unlinking
=============================================================================
