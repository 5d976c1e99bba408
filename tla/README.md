# Verification of the RNfantuanC pages

RNfantuanC is the React Native part of an application: a host application opens
it at one page, and it comes back to the host when its page stack is left. These
modules model the logic of its own JavaScript: the router with its back guard,
the application form, the paged lists, the activity page with its image browser,
the account pages and the SMS code field. Everything runs on one JavaScript thread. What makes it hard
is that taps, answers of the server, native alerts, storage and ends of
transitions arrive in any order, and that no request is ever withdrawn.

## Inventory

| Part | Source | State it keeps | Operations | Works with |
|---|---|---|---|---|
| Router and back guard | `AppNavigators.js`, `modules/SwipBackModule.js` | the routes; module variables `goBack`, `oStateIndex`; the host's swipe gesture | every navigation action passes `getStateForAction`; POP and BACK run the page's `params.backFn` | all pages; the host (`enable`, `disable`, `exit`) |
| Application form | `views/HeadlineForm.js`, `lib/MakeCancelAble.js`, `lib/UploadImage.js` | the form, its pictures, areas, `loadStorageSuccess`, `submitting` | typing, uploads, area picker, submission, draft, `backFn` | router, storage, server |
| Headline flow | `HeadlineIndex`, `HeadlineSelect`, `HeadlineSubmitted`, `WebPage` | none that matters | navigate; the last page exits | router |
| Image browser | `components/ImageBrowser.js` | `show`, its sheet | show, hide, unmount, each setting `stopBack`; save | router (through `setParams`), saving |
| Saving pictures | `lib/DownloadUtil.js` | a temporary file for each save, on Android | download, write to the album, delete the file | album and file system |
| Server and storage | `lib/Global.js` | the token; drafts for 24 hours | `_FetchData`, which never rejects; `AppStorage` | every page |
| SMS code field | `components/CodeInput.js` | `disabledBtn`, `btnText`, `countNum`, an interval | sendCode, countdown | account pages |
| Paged lists | `ActivityJoiners`, `ActivitysJoined`, `ActivitysMine`, `ActivitysSignUpManagement`, `components/RefreshFlatList.js`, `ActivityEmpty.js` | `pn`, `data`, `loaded`; `isend`, `refreshing` | onRefresh, onLoadMore, onFetch | server |
| Activity page | `views/ActivityDetail.js`, `components/HeadNav.js` | `activity`, `lastBarStyle`, the header's `value`, `initialHeight`, `animationHeight`, `isOpen` | fetch, scroll, joiners, pictures, folding the introduction, publish, share | status bar, router, host |
| Account pages | `VerifyPhone`, `BindPhone`, `SetPassword`, `ResetPassword` | `submitting`, inputs | one request each, then navigate or close | server, router, host |
| Start page | `views/Index.js`, `App.js`, `index.js` | none | one `replace` at mount | router |
| The rest | demonstration pages, display components, host bridges, native projects, vendored pods | | | |

What makes each part correct:

- **Router, form**: text typed into the form is never lost; while its question is
  open the page stays; the host's gesture never leaves the app over a page that
  can be gone back from, and comes back at the first page.
- **Form**: a picture shown as uploaded is the one submitted; a tap on the area
  opens the picker or fails; an application is sent once; success means success.
- **Lists**: pages in order and without gaps; the end is the end; the spinner stops.
- **Code field, account pages**: one code at a time; a button comes back; an
  account is changed once; the app closes only when the change was made.
- **Activity page**: the status bar fits the page on top; no part of an
  introduction is out of reach; the sheet for publishing comes up only where it
  was allowed; what is said of a saved picture is true, and no file stays behind.

The hazards, each with its line and the properties aimed at it, are listed in
`PROJECT.json`.

## Modules

| Module | Models | Runs |
|---|---|---|
| `BackGuard` | router, back guard, gesture, the form's leaving and draft, what the image browser does to the gesture | `back_guard`, `back_twice`, `back_root` (through `MCBackGuard`) |
| `DraftPromise` | abstract: what the form promises about its text | refined by `BackGuard` (`PromiseKept`) |
| `ListPromise` | abstract: what a paged list promises to its reader | refined by `PagedList` (`ListKept`) |
| `HeadlineForm` | the form while it is open: pictures, picker, submission | `headline_form`, `form_success` |
| `PagedList` | the four lists on top of `RefreshFlatList` | `paged_list` |
| `CodeInput` | the SMS field | `code_input`, `code_failure` |
| `ActivityPage` | the activity page as far as the status bar goes: mounting, data, scrolling, covering, leaving | composed into `ActivityDetail` |
| `ImageBrowser` | the image browser and the saves of its pictures | `save_leak`; composed into `ActivityDetail` |
| `ActivityDetail` | the whole activity page: `ActivityPage` and `ImageBrowser` together, with the introduction and publishing | `activity_page`, `intro_more` |
| `AccountFlow` | the four account pages | `account_flow` |
| `...Proofs`, `BackGuardRefinement` | theorems about the module of that name; that `BackGuard` implements `DraftPromise`; `PagedListProofs` also, that `PagedList` implements `ListPromise` | |

Definitions named with a comment that begins with *mutated* are variants of the
definition they stand above, each with one plausible bug; no specification uses
them. Each property of a run is known to fail when the definition is replaced by the
variant `PROJECT.json` names for it, so none of them holds by the shape of the
model.

### BackGuard

`stack` is the router's `routes`; pages whose own state matters (form, activity
page) carry an id, so two visits of one page are told apart. `goBack` is 0 for
`false` and otherwise the id of the form whose `goBack` it holds. `oStateIndex`
is 0 for `false`, because the source compares it with `!=`, for which the two
are equal: that is the finding at the app's first page. `SwipBack` is the second
half of `getStateForAction` and, like it, looks at the stack *before* the action.

A back request (`HeaderPop`, `SystemBack`) is one of four: the page has no
`backFn`; `goBack` is still set and lets it pass (`PassGuard`); `backFn` asks
(`AskLeave`); `backFn` saves and resolves by itself (`LeaveAtOnce`). `_backFn`
awaits, so what follows the await is part of `LeaveAtOnce` (the promise is
already resolved) or of the alert's button (`Leave`), together with the BACK it
dispatches: `Resume`. Between asking and the alert being up (`ShowAlert`) the page can
still be touched, and answers of the server navigate at any time, even under the
alert. This is the only way two back requests overlap, and `overlap` records it.

A behaviour begins where the start page (`views/Index.js`) has replaced itself by
the page the host names (`Opened`), with whatever drafts earlier starts of the app
have left in the storage; `Expire` ends their 24 hours at any time.

The router's own cutting and pushing is that of react-navigation, modelled from
how the source uses it, and marked external.

### HeadlineForm

An upload is known by the number of its pick. `MakeCancelAble` decides when the
upload *ends* whether it was cancelled, and the next pick for the same key
cancels, so an upload is cancelled exactly when it is not `current[key]`.
`picking` is the sheet and the host's picker, which stay up over whatever page an
answer opens below them, so `UploadPic` may run under `HeadlineSubmitted`. The
answer of the area request runs its callback before it stores the areas
(`AreasArrive`), so a second request is needed. `_FetchData` lets through an
answer, an error without a message (`SilentError`), or `undefined`
(`Undefined`: reading it throws after `submitting` was reset). `areaFailed` is
cleared by each tap on the area and set only by the failure of a request that a
tap sent, so `AreaTapAnswered` speaks of every tap anew. The server's list of areas
is taken to be constant: `AreasFail` stands for an answer without areas as well,
but not for a list that was there and is empty at the next request.

### PagedList

`inFlight` is the requests not answered; `Answer` takes any of them. `crossed`,
`raced` and `broken` record what properties make exceptions for. The two lists
with `ActivityEmpty` differ from the others by `env.emptyView`, Android from iOS
by `env.android`. `ListPromise` is the same list without requests: it shows the
first page anew, adds the next one, or gives up, and knows when it has ended; the
refinement maps its list to `data`, its end to `isend`, and turns it off where
requests raced.

### ActivityPage, ImageBrowser, ActivityDetail

`ActivityPage` has one `bar` and, for each page, the cache `lastBarStyle`; pages
unmount when the transition ends (`leaving`), can still roll out under the finger
until then, and `fetchActivity` answers whether the page is there or not.
Scrolling further than 100 points below the picture changes nothing in the
source and is no action: a fast scroll past it is the lack of a `HandleScroll`.

`ImageBrowser` knows a save by its number. `saveImageAlbum` is followed through
its steps: download, writing, deletion. `Fails` is its catch, which throws
before it deletes anything because it reads a `res` it does not have.

`ActivityDetail` extends the first and instantiates the second with its own
variables, so that each action says what it means for all three: a page that
unmounts takes its sheet, its introduction and its browser with it; the
permission of the host (`canCreateDynamic`), the saves and the data of the page
do not stop for that. Heights are those of the source (`maxHeight` 700, padding
40, a button of 84); `FoldFirst` is the first layout of the introduction, after
which `introBoxLayout` returns early.

### CodeInput, AccountFlow

`CodeInput` keeps the source's numbers (59, -1). `AccountFlow` gives ids to the
pages, and each its request; success either opens `BindPhone` or closes the app.

## What the runs show

| Run | Shows | Bounds, and why they are enough | States |
|---|---|---|---|
| `back_guard` | eight properties of `BackGuard` and, the ninth, that it implements `DraftPromise` | 2 form or activity pages, 2 alerts, 2 types, 2 texts: a stale `goBack` needs a first form and a second one that suffers from it; any drafts of earlier starts; the theorems lift the bounds of every property | 1 436 192 |
| `back_twice` | **finding**: a form can be closed without its `backFn`, and the text typed into it is lost | as above, one type | |
| `back_root` | **finding**: no interruption on the first page | 1 page | |
| `paged_list` | order, gaps, end, spinner, and that `PagedList` implements `ListPromise` | 3 pages of the server, 3 requests at once: a refresh, a load-more, and one more of either | 5 626 |
| `code_input` | one code at a time, and a button that comes back | the source's countdown of 59 | 136 |
| `code_failure` | **finding**: the button stays disabled | countdown of 2 | |
| `headline_form` | pictures, picker, submission | 1 key (both go through the same code and never read each other), 3 picks, 2 area requests, 2 applications | 436 688 |
| `form_success` | **finding**: success page for a refused application | 1 of each | |
| `activity_page` | cache, bar and header; the folding of introductions; the sheet; the toast of a save | 2 pages, so that data and permissions of a page that is gone are late for the next; heights of every kind: none, folded by neither rule, by one, by both; 2 permissions asked for at once; 1 save | 470 774 |
| `intro_more` | **finding**: the button that says view more shows less | 1 page, one height between the two limits | |
| `save_leak` | **finding**: a failed save leaves its temporary file | 2 saves | |
| `account_flow` | requests of pages that were left | 4 pages, 2 changes | 415 |

Several invariants have an exception in their premise (`~overlap`, `~late`,
`~raced`, ...). These history variables are only set by an event outside the page's
control, and the code really does fail after that event: the run that drops the
exception, or the hazard's note, says how. The exceptions are thereby part of
the result: they are the only ways in which *these* properties fail. They do not
say that nothing else can be lost. A form left before the storage has answered, for
one, is saved empty over the draft it was about to load; for `DraftKept`, which is
about what the form holds, that text is saved. `DraftSeenFirst` is about
the draft, and names just this, beside `overlap`, as its exception (`loading` in
`DraftSeen`).

For each finding there is also a theorem about where it ends, so that a reader
knows not only that the code fails but in which cases it does not:

| Finding | Where the promise holds | Theorem |
|---|---|---|
| `back_twice` | as long as nothing comes while an alert is pending | `DraftSafe` |
| `back_root` | wherever the app is not opened at the form | `PendingHolds` |
| `code_failure` | after every answer but a lost or a silent one | `Stuck` |
| `form_success` | unless an error came without a message | `SuccessBacked` |
| `intro_more` | where no introduction is above 660 up to 700 high | `MoreIsMore` |
| `save_leak` | on iOS; on Android for every save that succeeds | `LeftBehind` |

`CHECK_DEADLOCK FALSE` is used where the system may really stop: the app was
left, or the bounds are used up.

### Fairness

- `CompleteTransition` is weakly fair: transitions are animations of 250 or 300 ms.
- Answers are weakly fair where liveness is stated (`Answer`, `ReceiveAnswer`,
  `FetchAreaEnds`): the system ends each request with an answer or an error, and
  which of the two is left open.
- `Tick` is weakly fair: an interval fires.
- Nothing is assumed of the user: no tap, scroll or button of an alert is fair.

## What is proved

All theorems hold for every value of the constants under the named assumptions
of the module they are about:

- `BackGuard`: `BoundsAssumption` (at least one page, a natural number of
  alerts), `RootsAssumption`, `TextsAssumption` (the empty text and the missing
  draft are no texts), `ClosedAssumption` (the missing draft, which also stands
  for the form that is not open, is no state of a form);
- `PagedList`: `BoundsAssumption`, `NullAssumption` (`null` is no list of rows);
- `ActivityPage`, `AccountFlow`: `BoundsAssumption` (at least one page);
- `ActivityDetail`: `DetailAssumption` (heights and bounds are natural numbers);
- `CodeInput`: `CountAssumption`; `HeadlineForm`: `BoundsAssumption`.

| Module | Theorem | States | Needs |
|---|---|---|---|
| all `...Proofs` | `TypeCorrect`, `DetailTypeCorrect` | the variables keep their types | in `BackGuard`, that an alert that is up has a question behind it: without it `DropPrompt` would take from an empty sequence |
| `BackGuardProofs` | `SwipeSafe` | the gesture is off over pages that can be gone back from | the value of `swipe` against the length of the stack, at every action |
| | `StaleGuardExplained` | `goBack`, `oStateIndex` are set only after an overlap | that, without overlap, there is at most one question and it is the top form's |
| | `PendingKept` | an open question keeps its page | the same invariant |
| | `DraftSafe` | no step loses text without overlap | also that the pages of the stack are ordered by `Rank`, so that there is one form on it and cutting the stack at another page cannot take it off unsaved |
| | `SeenFirst` | a draft is not saved over unseen | `SeenInv`: a form that has its answer and showed no draft has none behind it; for that, that two forms never share the stack (`BelowTop`) |
| | `ViewerBlocks` | the gesture is off while a picture is browsed | that pages of the activity flow and of the headline flow are never on one stack (so no alert and no answer to an application moves the stack under a picture), that an activity page as root is the only one, and that no transition is on under the browser |
| | `PendingHolds` | `PendingInterrupts`, where the form is no root | `FirstOfRoots`: the first page is never taken off the stack (`StackStep`) |
| | `SwipeComesBack` | `SwipeReturns`, as transitions end | `ReturnInv`: on the first page the gesture is on, or a picture is open, or a transition is on; for that, no navigation falls on the page already on top (`Rank`, `LastPage`), and `RootLeft` |
| `BackGuardRefinement` | `Implements` | `Spec => PromiseKept`: `BackGuard` implements `DraftPromise` | also `RootLeft`: a question of the form as first page is asked as the app is left, so no answer closes that form |
| `PagedListProofs` | `LastShown` | a list starts with page 1 and ends with page `pn` | `RowsInv`: every row is one the server has |
| | `EndIsEnd`, `DeadExplained`, `SpinnerBacked` | the end is the end, a dead list had a failure, the spinner waits for something (proved only: `SpinnerStops` is what the run checks) | `ListInv`: the spinner is only on in a list that is mounted, so that `setLoaded` reaches it |
| | `InOrder` | pages once and in order while nothing raced | `OrderInv`: the only request asks for page 1 or `pn + 1` |
| | `GapFree` | no page is skipped while refresh and load-more do not cross | `GapInv`: all pages before one that is asked for are on display |
| | `Implements` | `Spec => ListKept`: `PagedList` implements `ListPromise` | `PagesLeft`: a list that is not ended has pages left, and a load-more is out only for such a list |
| | `SpinnerEnds` | `SpinnerStops`, as requests end | `ListInv` again: while the spinner turns there is a request, and no answer goes unheard |
| `ActivityPageProofs` | `CacheTrue`, `BarDark`, `BarRight` | `lastBarStyle` is the bar's style; the bar is dark elsewhere and fits the header | each other: the cache must be true for a skipped call to be right |
| `ActivityDetailProofs` | `ImplementsPage`, `ImplementsBrowser` | `DetailSpec` implements `ActivityPage` and `ImageBrowser`, nothing renamed | one lemma each: a step of the composition is a step of the part or leaves it alone; `DetailBar` carries the three theorems on the bar over |
| | `ToastTrue` | what is said of a save is true | `SaveInv`: the album has what is said to be saved; only Android caches |
| | `CutOffExplained` | an introduction is cut off only under a folded button, but for heights of 661 to 700 | `IntroInv`: only a page that shows its data was laid out, and `Folded` says how |
| | `MoreIsMore` | `MoreShowsMore`, for heights outside the two limits | `HeightInv`: the heights laid out are those of the introductions |
| | `LeftBehind` | only failed saves on Android leave a file | `SaveInv` |
| | `SheetIsAllowed` | the sheet is up only for a mounted page, with data, online and permitted | `SheetInv`: a permission is waited for only by a page that was opened |
| `CodeInputProofs` | `OneCode`, `Stuck` | one code at a time; a button that is stuck had an answer without a branch | each other |
| | `SentComesBack` | `SentReenables`, unless a countdown runs for ever | the same invariant |
| `HeadlineFormProofs` | `ShownSubmitted`, `NewestWins` | the picture shown is the one submitted; ids of pictures only move on | `ImageInv`: the address shown is that of the pick that is current, and the id is never ahead of it |
| | `PickerHasAreas` | the picker has areas to show | `AreaInv` |
| | `OneApplication`, `SuccessBacked` | one application, and success explained | `SubmitInv`: one application is under way exactly while submitting |
| | `TapAnswered` | `AreaTapAnswered`, as requests for the areas end | `TapStep`: each end of a request opens the picker, fails, is that of the first request, or brings the first areas; the last two happen once |
| `AccountFlowProofs` | `VerifierFirst` | a verification is answered with its page on top | `StackInv`: the stack is the root, or the root and one `BindPhone` |
| | `ChangesOnce`, `ClosesDone` | a second change needs a lost answer or a page left; closing needs a change | `RequestInv`, `ChangeInv`: a request is in flight exactly while its page is submitting, and only for the page on top unless one was left |
| | `ButtonsReturn` | `ButtonReturns`, as requests end | `RequestInv` |

Each proof goes along an inductive invariant that is stronger than the
properties: `TypeInv`, `SwipeInv`, `GuardInv`, `DraftInv` and `RootInv` for
`BackGuard`, each strengthening the one before, `SeenInv` on top of them, `ViewerInv` beside
them, and `ReturnInv` of both;
`BarInv` for `ActivityPage`, to which `DetailInv` and `SaveInv` add what
`ActivityDetail` needs; `Inv` in the other modules. Each is shown to hold initially, to be kept by
every action (one lemma or step each), and to imply the property.
`SwipeOnlyAtRoot`, for instance, is inductive only together with the types,
`StaleOnlyAfterOverlap` only with what `GuardInv` says of the questions, and
`ChangedOnce` only with what is known of the requests still in flight.

For the refinement, `FormFact` first shows that the one form on the stack is what
`PromisedForm` is about; then each group of actions is a step of `DraftPromise` or leaves its
variables as they are (`BackKeeps`, `AnswerKeeps`, `NavigationKeeps`,
`OpenKeeps`, `FormKeeps`), as long as nothing overlapped, and `PromiseSimulation`
puts them together.

### Liveness

The prover does not know `ENABLED`, so a theorem on liveness does not speak of
`WF_vars(A)` but of what that means with the enabling condition written out:
`[]<>~guard \/ []<><<A>>_vars`, where the guard is the one of the action
(`FairTransitions`, `FairAnswers`, `FairAnswer(id)`, `FairFetches`). From there
everything is proved: the invariant that names what is being waited for, that the
fair action brings it, and the temporal step. What is left to TLC is that the
guard is the enabling condition. For each of the four actions it can be read off
the definition: the action changes a variable of its guard whenever it is taken, and
one of its alternatives (`AreasFail`, `NotDone`, `Failure`, ...) has no further
condition. The runs check the same properties under `WF_vars` itself.

`SentComesBack` goes less far: that a countdown comes to its end is an induction
over its numbers, which the prover cannot do, so it takes the end as its
hypothesis, and the run follows the 59 numbers of the source.

Only model-checked, then: that step from `WF_vars` to the written-out fairness,
and the end of the countdown. Every property of a passing run is stated by a
theorem.

## What is not modelled

- Layout, wording, logging and toasts (but for the toast of a save, which a
  property is about); animations, the scaling of pictures among them.
- Of the start page, the token and the choice of the server, which are set once
  before anything else happens; and the blank page that stays when the host names
  no page, which does nothing.
- The demonstration pages `Dynamic` and `GrowthCenter`, which show static data and
  keep no state another part reads.
- Sharing, publishing itself, maps and orders: calls into the host application
  that change no state of these pages.
- The native projects: templates (`AppDelegate`, `MainActivity`,
  `MainApplication`) without logic, and `ios/Pods`. The pods are vendored
  third-party code (boost and React Native among them) of 1.2 million lines
  beside about 5 000 lines of the program's own JavaScript; nothing of the
  program is in them, so by lines of the whole repository these modules cover
  next to nothing, while of the program's own logic little is left out.

Contents of inputs are abstracted: to a choice of texts in `BackGuard`, to being
valid or not elsewhere.

## Plan

The modules were written in the order of importance: `BackGuard` with
`DraftPromise`, `PagedList` with `ListPromise`, `CodeInput`, `HeadlineForm`, `AccountFlow`,
`ActivityPage`, then `ImageBrowser` and `ActivityDetail`, each followed by its
theorems. What could still be added, none of it expected to reach a new kind of
hazard:

1. The composition of `AccountFlow` with `CodeInput` (the field's phone number is
   the page's input), and of `HeadlineForm` with `BackGuard` (a picker that opens
   late over another page).
