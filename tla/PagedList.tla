------------------------------ MODULE PagedList ------------------------------
(***************************************************************************)
(* The four paged lists of the app (ActivityJoiners, ActivitysJoined,      *)
(* ActivitysMine, ActivitysSignUpManagement), which share one onFetch, on  *)
(* top of RefreshFlatList.  A list keeps the number pn of the last page    *)
(* and the rows fetched; requests are not numbered, cancelled or awaited,  *)
(* so their answers are applied in whatever order they come.               *)
(*                                                                         *)
(* The rows of page p stand as one element p of data; a server with no     *)
(* rows at all (last = 0) answers page 1 with the empty list.              *)
(***************************************************************************)
EXTENDS Integers, Sequences

CONSTANTS
    MaxLast,      \* bound: pages the server has
    MaxInFlight,  \* bound: requests waiting for their answer
    MaxRows,      \* bound: pages on display or on their way when more are asked for
    Null          \* data before the first answer

ASSUME BoundsAssumption == MaxLast \in Nat /\ MaxInFlight \in Nat /\ MaxRows \in Nat
ASSUME NullAssumption   == Null \notin Seq(Nat)

VARIABLES
    env,         \* never changes: [last: pages of the server; android, emptyView: which list]
    pn, data,    \* state of the page
    loaded,      \* state of the page: the first answer has come
    isend,       \* state of RefreshFlatList: no more pages
    refreshing,  \* state of RefreshFlatList: the spinner turns
    inFlight,    \* page numbers requested and not answered, oldest first
    crossed,     \* history: a refresh and a load-more were in flight together
    raced,       \* history: any two requests were in flight together
    broken       \* history: a request failed, or came too early to be appended

vars == <<env, pn, data, loaded, isend, refreshing, inFlight, crossed, raced, broken>>

TypeOK ==
    /\ env \in [last : 0..MaxLast, android : BOOLEAN, emptyView : BOOLEAN]
    /\ pn \in Nat \ {0} /\ data \in Seq(Nat \ {0}) \cup {Null}
    /\ loaded \in BOOLEAN /\ isend \in BOOLEAN /\ refreshing \in BOOLEAN
    /\ inFlight \in Seq(Nat \ {0})
    /\ crossed \in BOOLEAN /\ raced \in BOOLEAN /\ broken \in BOOLEAN

-----------------------------------------------------------------------------
(* What the server answers for page p. *)
Rows(p)  == IF p <= env.last THEN <<p>> ELSE <<>>
IsEndEarly(p) == p >= env.last - 1  \* mutated: one page too early
IsEnd(p) == p >= env.last

(* ActivitysJoined and ActivitysMine put ActivityEmpty in the list's place. *)
ListMountedWithRows == ~(env.emptyView /\ data \in {Null, <<>>})  \* mutated: loaded is not looked at
ListMounted == ~(env.emptyView /\ loaded /\ data \in {Null, <<>>})

(* On Android the list is not displayed before it has data. *)
ListTouchable == ListMounted /\ (env.android => data # Null)

(* onFetch: the request goes out, whatever else is in flight. *)
Fetch(p) ==
    /\ Len(inFlight) < MaxInFlight
    /\ inFlight' = Append(inFlight, p)
    /\ raced' = (raced \/ inFlight # <<>>)
    /\ crossed' = (crossed \/ \E i \in DOMAIN inFlight : (inFlight[i] = 1) # (p = 1))

(* The page mounts and fetches page 1; RefreshFlatList is not told. *)
Init ==
    /\ env \in [last : 0..MaxLast, android : BOOLEAN, emptyView : BOOLEAN]
    /\ pn = 1 /\ data = Null /\ loaded = FALSE
    /\ isend = FALSE /\ refreshing = FALSE
    /\ inFlight = <<1>>
    /\ crossed = FALSE /\ raced = FALSE /\ broken = FALSE

OnRefresh ==
    /\ ListTouchable
    /\ refreshing' = TRUE
    /\ Fetch(1)
    /\ UNCHANGED <<env, pn, data, loaded, isend, broken>>

OnLoadMoreAhead ==  \* mutated: pn is counted up with the request, not with its answer
    /\ ListTouchable /\ ~isend
    /\ data # Null => Len(data) + Len(inFlight) < MaxRows
    /\ Fetch(pn + 1)
    /\ pn' = pn + 1
    /\ UNCHANGED <<env, data, loaded, isend, refreshing, broken>>
OnLoadMore ==
    /\ ListTouchable /\ ~isend
    /\ data # Null => Len(data) + Len(inFlight) < MaxRows
    /\ Fetch(pn + 1)
    /\ UNCHANGED <<env, pn, data, loaded, isend, refreshing, broken>>

-----------------------------------------------------------------------------
Without(s, i) == SubSeq(s, 1, i - 1) \o SubSeq(s, i + 1, Len(s))

SetLoaded(end) == isend' = end /\ refreshing' = FALSE

(* The answer for page inFlight[i]. *)
SuccessWith(i, newPn, newData) ==
    LET p == inFlight[i] IN
    /\ ListMounted /\ (p # 1 => data # Null)
    /\ SetLoaded(IsEnd(p))
    /\ data' = newData /\ pn' = newPn /\ loaded' = TRUE
    /\ UNCHANGED broken
SuccessOffByOne(i) ==  \* mutated: pn is one behind
    LET p == inFlight[i] IN
    SuccessWith(i, p - 1, IF p = 1 THEN Rows(p) ELSE data \o Rows(p))
SuccessCounted(i) ==  \* mutated: answers are counted instead
    LET p == inFlight[i] IN
    SuccessWith(i, pn + 1, IF p = 1 THEN Rows(p) ELSE data \o Rows(p))
SuccessAppended(i) ==  \* mutated: a refresh appends its rows
    LET p == inFlight[i] IN
    SuccessWith(i, p, IF data = Null THEN Rows(p) ELSE data \o Rows(p))
Success(i) ==
    LET p == inFlight[i] IN
    SuccessWith(i, p, IF p = 1 THEN Rows(p) ELSE data \o Rows(p))

(* The request fails, or its rows would be appended to no data at all: the *)
(* handler throws, and its catch ends the list.                            *)
FailureUncaught(i) ==  \* mutated: the catch does not call setLoaded
    /\ ListMounted
    /\ broken' = TRUE
    /\ UNCHANGED <<pn, data, loaded, isend, refreshing>>
FailureReopens(i) ==  \* mutated: a failed request does not end the list
    /\ ListMounted
    /\ SetLoaded(FALSE)
    /\ broken' = TRUE
    /\ UNCHANGED <<pn, data, loaded>>
Failure(i) ==
    /\ ListMounted
    /\ SetLoaded(TRUE)
    /\ broken' = TRUE
    /\ UNCHANGED <<pn, data, loaded>>

(* The list has given its place to ActivityEmpty: handler and catch throw. *)
Unheard(i) ==
    /\ ~ListMounted
    /\ UNCHANGED <<pn, data, loaded, isend, refreshing, broken>>

Answer ==
    \E i \in DOMAIN inFlight :
        /\ inFlight' = Without(inFlight, i)
        /\ Success(i) \/ Failure(i) \/ Unheard(i)
        /\ UNCHANGED <<env, crossed, raced>>

Next == OnRefresh \/ OnLoadMore \/ Answer

(* The operating system ends every request, with an answer or an error. *)
Spec == Init /\ [][Next]_vars /\ WF_vars(Answer)

-----------------------------------------------------------------------------
(* Rows on display start with page 1 and end with page pn, so the next     *)
(* load-more asks for the page after the last one shown, in every order of *)
(* the answers; a pn past the server's last page has no rows to show.      *)
PnIsLastShown ==
    data \notin {Null, <<>>} =>
        data[1] = 1 /\ (pn <= env.last => data[Len(data)] = pn)

(* One request at a time: every page once, in order.                       *)
PagesInOrder ==
    ~raced /\ data # Null => data = [i \in 1..Len(data) |-> i]

(* Requests in flight together may show a page twice, but a page is only   *)
(* skipped when a refresh and a load-more were in flight together.         *)
Shown == {data[i] : i \in DOMAIN data}
NoGap ==
    ~crossed /\ data # Null => \A p \in Shown : 1..p \subseteq Shown

(* The end of the list is announced, with no request failed, only when the *)
(* last page of the server is the last one shown.                          *)
EndIsLastPage == isend /\ ~broken => pn >= env.last

(* A list the user can do nothing with and that waits for nothing is one   *)
(* the server has no rows for, or one whose first page failed.             *)
DeadListExplained == ~ListTouchable /\ inFlight = <<>> => env.last = 0 \/ broken

(* The spinner only turns while a request is on its way ...                *)
SpinnerHasRequest == refreshing => inFlight # <<>>
(* ... and it stops. *)
SpinnerStops == refreshing ~> ~refreshing

(* The promise to the reader of a list, kept by onFetch, RefreshFlatList   *)
(* and the answers together as long as one request is out at a time.       *)
Promise == INSTANCE ListPromise WITH
    last <- env.last, shown <- data, ended <- isend, tangled <- raced
ListKept == Promise!Spec
=============================================================================
