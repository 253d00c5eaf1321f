# A TLA+ verification project for air_bnb_clone

The repository is a Flutter application: an Airbnb clone for guests and hosts.
Its own code is `src/lib` (about 11,700 lines of Dart); the platform projects
(`macos/Pods`, `ios`, `android`, `windows`, `web`) are vendored or generated,
and there are no tests. This directory models the parts of `src/lib` that keep
state across asynchronous steps, checks them with TLC on small instances and
proves their safety properties with TLAPS for every value of the constants.

## The system

| Component | State | Operations | Talks to |
|---|---|---|---|
| Local object database (`data/services/realm`) | Realm objects of seven types, each with foreign keys and links | `createFromEntity`, `deleteEntity`, `deleteAll`, reads, observed queries | written by the Firestore service, read by repositories |
| Firestore service (`data/services/firestore`) | two maps from document / query to subscription | `createDoc`, `getDoc`, `getCollection`, `updateDoc`, `deleteDoc`, `observeDoc`, `observeCollection`, `remove*Listener(s)` | Firestore SDK; writes Realm from continuations and snapshot handlers |
| Data repositories (`data/repositories`) | none | wrap the service; an observed stream removes the listener when it is cancelled | cubits |
| Authentication (`auth_repository`, `auth_service`, `shared_preferences_service`, `router`) | `_isAuthenticated`, `_userId`, the token on disk, the Firebase session, the route | `createUser`, `signIn`, `signOut`, the two getters, `_redirect` | login, sign-up and account cubits; listeners and Realm at sign-out |
| Booking (`modules/guest/book_posting`, Stripe service and repository) | dates, tag, booked days, `isSaving` | `setCurrentTag`, `updateSelectedDate`, `getPaymentIntent`, the payment sheet, `saveBooking` | Stripe; booking, user, conversation and message repositories |
| Viewing, favourites, reviews, saved | cubit states | `toggleFavourite`, `submitReview`, `deleteSavedFavourite` | repositories |
| Chat and inbox | message list, senders in flight | `sendMessage`, sender prefetch | repositories |
| Search | results, debounce | search of postings and of places | repositories, place API |
| Trips, host bookings, postings, posting editor | lists from Realm, form state | observe, save, upload images | repositories, media service |

What is hard here: everything is asynchronous on one event loop. A handler is
split at every `await`, and between two of its stretches snapshot handlers,
other cubits, the user and other clients run. Realm copies are written from
three places (snapshots, continuations, the wipe at sign-out). Who is signed in
is written in four places at four moments. A booking is a payment followed by
five writes without a transaction. `PROJECT.json` lists these hazards with
their lines.

What makes each part correct:

* database: a link is always the object its foreign key names, if it is stored,
  whatever the order of arrival;
* service: what is listened to is in Realm as it is on the server, no
  subscription leaks, and no handler survives into the wipe at sign-out;
* authentication: the cached fields agree, guarded screens have a user, the user
  the app acts for is the one Firebase has signed in, a restart does not turn
  one user into another;
* booking: nothing is booked unpaid, the booking stored is the one charged for,
  a payment is answered, no message without its booking and conversation;
* search: the list answers the text in the box and misses nothing that matches;
* list screens: a list shows what its query finds, links included, every trip is
  listed once, no subscription outlives its screen, progress indicators end;
* posting screen and calendar: the heart stands for a stored favourite, the
  calendar shows the days of the posting selected;
* posting editor: a posting has only pictures that were uploaded and the
  coordinates of its address, and is created once.

## The modules

| Module | Models | Runs |
|---|---|---|
| `ObjectGraph` | the abstract store: links derived from keys | - |
| `RealmStore` (`MCRealmStore`) | `RealmService` and the relationship registry | `realm_links` |
| `RealmStoreProofs` | theorems about `RealmStore` | - |
| `FirestoreSync` (`MCFirestoreSync`) | `FireStoreService`, repository streams, an abstract SDK | `sync_coherent`, `partial_update`, `shared_listener`, `late_listener`, `review_limit` |
| `AuthSession` | authentication and routing | `auth_session` |
| `Chat` (`MCChat`) | `ChatCubit` over the Realm query of a conversation | `chat_senders` |
| `BookPosting` | the booking screen, payment and writes | `book_posting`, `book_cents` |
| `Search` | both search boxes, the Firestore filter and the Realm query | in `screens` |
| `ListScreens` | the lists over Realm queries: trips, inbox, saved, reviews, postings | in `screens` |
| `ViewPosting` | the heart of the posting screen, above `ListScreens` | in `screens` |
| `HostBookings` | the host's calendar, above `ListScreens` | in `screens` |
| `Screens` (`MCScreens`) | composition of these four, and the navigation | `screens` |
| `PostingEditor` | `UpdatePostingCubit`, its screen and the pictures' upload | `posting_editor` |
| `FirestoreSyncProofs`, `AuthSessionProofs`, `BookPostingProofs`, `ChatProofs`, `PostingEditorProofs` | theorems about the module they are named after | - |
| `SearchProofs`, `ScreensProofs` | the lemmas about the search boxes, and the theorems about `Screens` | - |

**RealmStore.** `objects` is the set of stored `<<type, id>>`, `fk` their
foreign keys, `link` what their links point at. `CreateFromEntity` is one write
transaction: resolve the outgoing links, `realm.add`, and back-fill the objects
that were waiting, if the entity is new. `Incoming` and `Outgoing` are the
registry, spelled out per type in the `*_extensions.dart` files. `Remove` is
Realm's own deletion (external): it nulls the links to what is deleted.

**FirestoreSync.** `remote` is the server, `pending` the own writes it has not
answered, `channel` the snapshots and completed futures on their way to the app
in the order the SDK raised them, `local` the Realm copies, `observed` the two
maps, `live` the subscriptions not yet cancelled. `CreateDoc`, `UpdateDoc` and
`DeleteDoc` begin a write; `Commit` or `Reject` answers it; `Deliver` runs the
next handler or continuation. Nothing keeps two writes of one document apart, and
a patch may leave fields out. `RemoveAllListeners(c)` and `TeardownContinues(c)` are
the loops of `removeAllListeners` in call `c` of `signOut`, one cancel at a time,
followed by the wipe, which may fail. The Log Out button stays enabled, so calls
overlap: each has its own list (`toCancel[c]`), and a second one finds in the maps
only what was observed since the first cleared them.
`late` is history: the subscriptions made while a sign-out was at work. `damaged` is
history too: the documents whose copy may be wrong, see below.
The SDK is external and modelled by what the service relies on: latency
compensation, snapshots only for changed results, nothing after a cancel. `View`
(the server with the pending writes on top, per document) and `Undeliver` (the
channel without a cancelled listener's messages) are stated by positions and not by
folds, so that they can be proved about.

**AuthSession.** `firebase`, `token` (with `writes`, the token writes issued and
not yet on disk), `isAuth` and `uid` are the places that say who is signed in. A
flow is one call of `createUser`, `signIn` or `signOut`; its actions are the
stretches between awaits, with a failing variant. `SignUpNoUser` and `SignInNoUser`
are the `else` branches, which drop `_isAuthenticated` and leave `_userId`. `_fetch`
is two actions: `FetchStarts` issues the read of the token (`reads`), from either
getter, and `Fetched` overwrites both cached fields with what it found, whatever they
are by then, without waking the router. `Redirect` is the router's, after
`notifyListeners` (`RouterRefreshes`) or when the user goes to another screen
(`Navigate`); `Restart` is a kill and a new start. `opened` says that screens of the
app have been on, whose cubits go on asking for the user's id; `loading` that the
login screen's buttons are disabled. `disturbed` is history: flows that overlapped,
kills, and token reads that came late. A sign-up screen is pushed over the login
screen, so both are the location `"auth"`.

**BookPosting.** `screen[g]` is a guest's cubit, `attempt[a]` one press of "Book
Now" with what it is waiting for and what it carries: intent, sheet set-up,
sheet, then each awaited call of `saveBooking`. Leaving the screen closes the
cubit: the attempts still running are detached from it and can emit nothing.
Days are numbers; `Midnight` counts hours so that `inDays` truncates over a
23-hour day, and `UtcShift` is the day Realm's UTC times lose east of Greenwich: the
blocked days of a booking (`DaysInBetween`) are as many as lie between the two stored
instants, counted from the UTC day of the first.
Prices are in cents and `Rounded` is the `round()` of the dollars; Stripe (external)
makes no intent of nothing, so an amount that rounds to 0 fails. `haste` counts
how often a guest changed the screen's state (dates, a second tap, leaving, or a
late set-up) while an attempt was under way.

**Chat.** `messages` and `users` are what Realm holds, `shown` the list on the
screen (with or without each avatar), `fired` an event of the Realm stream the
debounced listener has not handled, `inFlight` the cubit's
`_inFlightSenderIds`, `running` the `getUser` calls really under way, per visit
of the screen because they outlive their cubit. The query's results are live, so
`Listen` shows what Realm holds when it runs.

**Search.** `box` is the cubit on the screen, of either kind: the text typed, the
one the debounce holds, the last one `distinct` let through, the list and what it
answers. `searches` are the calls of `_searchPostings` and `_searchPlace` under
way; several may run at once, answer in any order, fail, and outlive the screen.
`ServerFinds` is the filter sent to Firestore, `RealmFinds` the query over the
copies, on words ordered by `Rank` and related to texts by `Contains`. Explore
shows an error; nothing catches a failed place search.

**ListScreens.** One table of `rows` is the collection that the open screen
shows; a row has a time and a link that may be set later. `subs` are the
subscriptions, `due` those whose debounce timer runs. `OpenList`, `UserIdReturns`,
`TimerFires` and `CloseList` are the life of a cubit: some subscribe at once, some
only when the user's id has arrived, closed or not. `DeleteSavedFavourite` with
`Deleted` and `DeleteFails` is Saved's deletion. The debounce fires at any moment
after its event, which covers both the immediate first one and the 500 ms.

**ViewPosting, HostBookings, Screens.** The posting screen is pushed over Saved
or Explore, whose cubit stays alive; its rows are the guest's favourites of the
posting, which `FavouriteRead` stores as the server has them. `CopyWith` keeps the
default that empties the heart. `HostBookings` adds the selection of a posting
(`picked`), whose bookings the days are (`days`), and the reads under way, several
of one posting included. `Screens` composes them with the tabs: leaving a tab disposes of its cubit while its calls go on. The
search boxes and the different lists have no state in common, so a behaviour is
about one of them, chosen by `tab` in the initial state.

**PostingEditor.** `cubit[n]` is the n-th editor opened, `top` the screen shown,
`saves` the calls of `createPosting` with what each has read so far: the tiles
when the button was pressed, the address when the uploads were over, the
coordinates and the target when the user's id arrived. Form and documents keep the
address and the coordinates apart, and `OpenEditor` loads each from the posting, so a
mismatched one stays so. `Commits` is the server taking the write together with the
listener's echo, `Saved` the continuation that stores the copy and pops the screen on
top. The copy is stored in a future that nobody awaits: when that fails
(`StoreFails`), `getEntity` decides whether the save counts as done. `OtherDeletes` and
`Snapshot` are another client and the listener of the list below.

## The runs

| Run | Bounds | Shows |
|---|---|---|
| `realm_links` | all 7 types, 2 ids, at most 3 stored objects | types, `LinkIntegrity`, refinement of `ObjectGraph`. Three objects hold an entity and both of its targets; the theorems remove the bound |
| `sync_coherent` | 1 document, listened to as such and by 2 queries, 2 observers, 2 sign-outs, 4 operations, whole and partial patches | types, `SubscriptionsReachable`, `ObservedCoherent`, `WipeSparesOnlyLate`, and the liveness properties `Converges` and `TeardownFinishes` |
| `auth_session` | 2 users, 2 flows at a time, 3 flows in all, 2 token reads at a time, failures, overlaps and kills | types, `CachesAgree` (its second half without overlaps); `GuardedRoutes` and the liveness property `SignedOutLeaves` but for late token reads; `RestartsAsSameUser` without overlaps; `FirebaseMatches` without overlaps and kills |
| `book_posting` | 1 guest, 2 attempts, 3 days of which the first is short, UTC one day behind, any call failing, at most 2 hasty changes | types, `PaidBeforeBooked`, `MessageHasConversation`, `SavingEnds` always; `ChargeMatchesBooking` and `PaidIsAnswered` without haste |
| `chat_senders` | 3 messages of 3 senders, 2 visits, loads and sends that fail | types, `InFlightIsRunning`, `OneLoadPerSender`, and the liveness property `ShownIsCurrent` |
| `screens` | 1 posting of 2 words and 3 texts, 2 searches, 1 change on the server; 2 rows, 3 times, a limit of 1, 1 change, 2 visits, 2 calls of a kind at a time | types, `LatestShown`, `SearchComplete`; `ListCurrent`, `EveryTripOnce`, `OrphansWereLate`; `HeartEarned`; `SelectionListed`; the liveness property `ProgressEnds` |
| `posting_editor` | 3 documents, 1 of them there at first, 2 pictures, 2 places, 2 editors, 2 saves, 1 deletion elsewhere | types, `PicturesHosted`, `OnePostingPerEditor`, `CopiesAgree`, `PlaceMatchesCoords`, and the liveness property `EditorSpinnerEnds` |

Four operations are enough for a listener, two overlapping writes and one of another
client, or for two listeners and two overlapping sign-outs, or for a listener, a
sign-out, a late listener and a second sign-out. One document shows every way a copy
can go wrong, since a listener's messages about different documents do not meet but
through the limit of a query, which the run `review_limit` has; the theorems remove
the bound. A third flow can start while the first two are under way or have left a
token, a session or a read behind, and two reads can be overtaken one after the
other. Two attempts are a double tap, or a booking and the next one. Two searches
can overtake each other, and one posting decides completeness because the filter
and the query look at each posting alone; the texts "", "Ba" and "r" over "Barn"
and "barge" cover a prefix that differs in case and a text inside a word. Two
rows fill both lists of trips and exceed the limit of 1; with the times 0 to 2
around 1 a check-out is before, at and after the moment of opening. Two visits
leave a call or a subscription of the first one under way in the second. Two
saves in two editors are a retry in one, or a save that outlives its screen and
one of the next.
`CHECK_DEADLOCK FALSE` is set where the system may come to rest: every user may
stop, and the bounds on operations end every behaviour. `realm_links` checks
deadlock.

Five runs end in a counterexample, each against a comment in the source:

* `partial_update`: `updateDoc` stores an object made of the patch alone, after
  the listener's echo; the fields that were not in the patch stay null in Realm
  (`user_repository.dart:66`, "updates Realm automatically").
* `shared_listener`: one listener per key and no count of its users; the first
  observer to leave cancels it for all (`user_repository.dart:69`).
* `late_listener`: a listener registered while `removeAllListeners` awaits a
  cancel is alive at the wipe (`firestore_service.dart:143`).
* `review_limit`: a review that leaves the window of the limited query is
  deleted from Realm while the unlimited query still reports it
  (`review_repository.dart:19`).
* `book_cents`: dollars are sent where Stripe expects cents
  (`stripe_service.dart:12`).

`partial_update` and `review_limit` refute `ListenerUpdatesRealm`, that whatever a
listener reports is in Realm once nothing is on its way. The passing run says what is
left to rely on: `ObservedCoherent` is the same without the documents in `damaged`,
which are there until they next change: those written by two calls at once or in
part, and those that one listener lost from its results while another reported them.
The run has all three, and with any one left out of `damaged` it fails.
`WipeSparesOnlyLate` says that the listeners of the `late_listener` run, and those on
the list of another sign-out that is still cancelling, are the only ones that survive
a wipe.

### History variables and exceptions

Some properties hold except after an interleaving that the code does not guard
against. A history variable records that interleaving, so that the property says
exactly when the code can be relied on: `late` (a listener registered during a
sign-out; a list subscription made after `close`), `damaged` (documents whose copy a
partial or overlapping write, or another listener's removal, may have spoilt),
`disturbed` (flows that overlapped, kills, token reads that replaced an id cached
meanwhile), `haste` (the guest touched the screen during an attempt), `overlapped` and
`failed` (searches that ran at once; a failed place search), `removed` (a favourite
deleted under the posting screen), `outdated` (a selection tapped in an earlier list),
`torn` (the places of saves during which the place was chosen anew between the two
reads), `excused` (saves that wrote a posting and left the editor open), `crossed` (a
posting written twice before the first copy was stored). No action's guard reads them,
but for the bound on `haste` and for `crossed`, which keeps such a document's number
from being taken for a new posting.

The exception of `GuardedRoutes` and `SignedOutLeaves` is a way the code has: a screen
of the app asks for the user's id after a sign-out, its `_fetch` finds no token, a
sign-up that outlived its screen then completes and the router opens the app, and only
then the read resumes and sets `_isAuthenticated` to false. `_fetch` does not notify,
so the user stays where they are until they go to another screen. No comment or
document of the repository claims otherwise.

### Fairness

Only what the platform provides: the event loop delivers what is in its queue
(`Deliver`), a server answers or a call times out (`Commit \/ Reject`,
`GetReturns \/ GetFails`, the `Steps` of flows and attempts, `SearchRuns(i)` of a
search, `SaveOf(n)` of an editor's save, `ListUser` and `ListDeletions` of the
list screens), a debounce timer fires (`ListTimers`), an awaited cancel completes
(`TeardownContinues`), the router runs its redirect (`RouterRefreshes`), a token read
returns and a token write reaches the disk (`Fetched`, `TokenLands`). Users, other clients, the payment sheet and kills are never assumed to happen. Weak
fairness is enough, since each of these stays enabled until it is taken.

## The proofs

Each theorem is about the same definition that a run checks, without the run's
bounds: the bounds are constants, and all that is assumed of them is that they
are natural numbers. Each inductive invariant was checked by TLC on the
run's instance before it was proved.

| Module | Theorems (the property) |
|---|---|
| `RealmStoreProofs` | `TypeCorrect`, `LinksCorrect` (`LinkIntegrity`), `RefinesObjectGraph` (`ImplementsObjectGraph`) |
| `FirestoreSyncProofs` | `TypeCorrect`, `NoListenerLeaks` (`SubscriptionsReachable`), `SignOutCancels` (`WipeSparesOnlyLate`), `CopiesCoherent` (`ObservedCoherent`) |
| `AuthSessionProofs` | `TypeCorrect`, `CachesAlwaysAgree` (`CachesAgree`), `RoutesGuarded` (`GuardedRoutes`), `FirebaseAlwaysMatches` (`FirebaseMatches`), `RestartKeepsUser` (`RestartsAsSameUser`) |
| `BookPostingProofs` | `TypeCorrect`, `BookedIsPaid` (`PaidBeforeBooked`), `MessagesHaveConversations` (`MessageHasConversation`), `ChargesMatch` (`ChargeMatchesBooking`) |
| `ChatProofs` | `TypeCorrect`, `InFlightCorrect` (`InFlightIsRunning`), `FetchesDeduped` (`OneLoadPerSender`) |
| `PostingEditorProofs` | `TypeCorrect`, `StoredPicturesHosted` (`PicturesHosted`), `CreatesOnce` (`OnePostingPerEditor`), `CopiesAlwaysAgree` (`CopiesAgree`), `PlacesMatch` (`PlaceMatchesCoords`) |
| `ScreensProofs` | `TypeCorrect`, `LatestAlwaysShown` (`LatestShown`), `SearchesComplete` (`SearchComplete`), `ListsCurrent` (`ListCurrent`), `OrphansAreLate` (`OrphansWereLate`), `TripsPartitioned` (`EveryTripOnce`), `HeartsEarned` (`HeartEarned`), `SelectionsListed` (`SelectionListed`) |

### The local database

`RealmStoreProofs` proves, for every set of ids and every subset of the schema's
types:

* `TypeCorrect`: `Spec => []TypeOK`;
* `LinksCorrect`: `Spec => []LinkIntegrity`;
* `RefinesObjectGraph`: `Spec => ImplementsObjectGraph`.

The assumptions are `TypeAssumption` (types come from the schema) and
`NoIdAssumption` (null is no id); TLC evaluates both in `realm_links`.

`LinkIntegrity` is inductive only together with `TypeOK`: the back-fill looks at
stored objects whose link is null, and one must know that an object holds keys
only in the fields its class declares and that nothing is left of a deleted
object. The argument rests on two lemmas about the registry, which say that it
lists every declared link in both directions and no other (`OutgoingRegistry`,
`IncomingRegistry`), so that the forward links of an entity are resolved
(`ForwardLinksResolve`) and the objects waiting for a new one are exactly those
that its incoming relationships find (`CreateLinkIntegrity`). A wrong or missing
registry entry makes those lemmas false. For the refinement, `LinksAreDerived`
turns `LinkIntegrity` into the abstract module's equation for `link`, and
`StepSimulation` maps `createFromEntity` to `Put` and the deletions to `Forget`.

### The listeners and the copies

`FirestoreSyncProofs` assumes what the module does of its constants: documents are
numbers and finitely many, keys are documents or queries, the data of a new document
and the patches have the fields of a document, the nulls are none of these. Nothing
is assumed of how keys overlap, what patches leave out, or how many sign-outs run at
once. `SubscriptionsReachable` is not inductive alone: a new subscription must differ
from those that wait to be cancelled, and a second sign-out must find none of the
first one's list. So the invariant `Inv` adds that an entry of the maps is a
subscription to its own key (`OwnKey`), that a live subscription is in one place only
(`EachOnce`), and that a call not running has nothing to cancel (`IdleIsDone`).
`WipeSparesOnlyLate` needs, besides, that whatever is registered under a key a
sign-out at work has cleared is late (`ClearedAreLate`): the document map is cleared
before the first await, the collection map only when the first loop is over.

`TypeOK` needs `DataInv`: a snapshot on the channel comes from a live subscription
and is about documents of its key. `ObservedCoherent` speaks only of moments of rest,
so the invariant `CopyInv` says what holds in between: for a key that is observed by a
listener not late and a document it reports that is not damaged, every message on the
channel that differs from the document in the SDK's view is followed by a snapshot of
that listener about it, and so is a copy in Realm that differs (`Settles`,
`Coherent`). Naming the listener matters: keys share documents, and the last word must
not be that of another listener, whose cancel would take it away
(`UndeliverSettles`). A write, an answer of the server and another client change the
view and send the difference (`NotifySettles`), which is wrong for a listener only
where another one drops the document (`ChangesWrong`), and then it is damaged. A
delivery takes the first message, which leaves those that follow (`DeliverSettles`).
The server taking the oldest write leaves the view as it was, whatever is pending
behind it (`ViewCommit`), and its continuation stores what the view has unless the
write was partial or another one of the document is pending (`ViewCareful`). The wipe
finds no key that is observed and not late (`ClearedAreLate`); one that fails changes
nothing.

### The session

`AuthSessionProofs` assumes that null is no user (`NobodyAssumption`) and
`BoundAssumption`. The caches and the routes are written in three ways (`Surface`):
the end of a flow sets both fields and wakes the router, an answer without a user
drops the flag and wakes it, a token read sets both and does not. So the flag never
says yes without an id, and a screen behind the login without it waits for a redirect
or had its id replaced by a read. Until the first redirect only one read is under way
(`StartQuiet`, `KnownAfterStart`). That the three places that name the user agree, and
that an id means authenticated, takes what flows that do not overlap know of each
other (`Orderly`): one call is under way at a time, and none while a redirect is due
or a token is read (`Sequential`); a read begun after the start finds no token
(`Reading`); a sign-in or sign-up runs on the login screen with the Firebase session
its own (`Entering`); a sign-out has already removed the token (`Leaving`, `Left`). The
token on disk is compared through `NewestToken`, the last write issued, which a write
that lands does not change.

### Booking

`BookPostingProofs` assumes `DayAssumption` (the calendar), `ShiftAssumption` (the
UTC day is the same or the one before) and `PriceAssumption` (the price is a
natural number of cents). `Progress` says what
the place an attempt waits at tells of it: charged, booked, in a conversation; with
`BookedOnce` and `SentOnce` an attempt never goes back. For `ChargeMatchesBooking`,
`Alone` says that without haste an attempt has its screen to itself, and `Priced`
that the amount of the intent is that of the dates still on the screen. The
calendar's lemmas (`BeforeBounds` and those after it) count the short days between
two dates for every calendar. The proof corrected the model: a stay whose price
rounds to no dollars would have been "paid" with nothing, which Stripe refuses.

### Chat

`ChatProofs` assumes `VisitsAssumption`. `InFlightIsRunning`
is about the cubit on the screen; reopening makes another one, so the invariant
adds `FutureIdle`: no load runs for a visit that has not begun.

### The editor

`PostingEditorProofs` assumes `IdAssumption`, `HomeAssumption` and
`BoundAssumption`. The progress indicator replaces the button, so an editor has
at most one save (`OneSave`) and an acknowledgement awaits each write
(`AcksCounted`). `Hosted` extends `PicturesHosted` to the tiles and to the urls a
save has collected. `Budget` counts what an editor may still create. `PlacesRead`
extends `PlaceMatchesCoords` to the forms and the saves, so that a mismatch that is
opened and saved again is still one of `torn`. `StoringMatches` with `Mirrored`
says that a save about to store its copy wrote the document Realm has.

### The screens

`ScreensProofs` with `SearchProofs` assumes `TextAssumption`, `RankAssumption`,
`SearchBoundAssumption`, `TimeAssumption` and `ListBoundAssumption`. The invariant is one conjunct per composed module.
`SearchInv` follows a text through the box, the debounce and the search under way
(`DebounceKeeps`, `LastAnswered`), and says that what a search has stored stays in
Realm as the server had it (`AnswersStored`). `SearchComplete` rests on
`FilterFindsAll`: joined with OR, the bounds of the Firestore filter let every
posting with a word through, in any order of words and texts. The lists share the
rows, so `SilentWrite` and `WriteInv` show once that a write makes due every query
whose items it changes, whichever of the four modules writes. `HostInv` says
that what is being read was tapped in the list shown, or a new list has come since.

### Only model-checked

* Liveness, which is out of the prover's reach: `Converges`, `TeardownFinishes`,
  `SignedOutLeaves`, `ShownIsCurrent`, `PaidIsAnswered`, `SavingEnds`,
  `ProgressEnds`, `EditorSpinnerEnds`.
* That the properties of the five counterexamples fail.

## Not modelled

* The contents of documents beyond keys and a few fields, the wording of errors,
  layout, form validation.
* Firestore's offline cache, security rules and transactions (the code uses no
  transaction).
* Operations of one awaited call that the modelled screens do not read:
  `submitReview`, `changeHost` (whose partial update is the case of
  `partial_update`), the profile screen's fields. The earnings and home screens
  have no operations.
* The editor's other fields and their validation, the order of the pictures, the
  calendar's days under a posting (the same loop as `_getDaysInBetween` of the
  booking screen, which is modelled).
* Compression of pictures and the HTTP calls of the media and place services;
  what they may return to their callers is modelled.
* Start-up, which constructs the services once; generated Realm classes.
* `macos/Pods` and the other platform directories: third-party libraries
  (gRPC, BoringSSL, Firestore's C++ SDK) and project files, almost all of the
  repository's lines and none of its program. The SDKs appear as external
  actions, modelled by what `src/lib` relies on.
* A hazard with a note in `PROJECT.json` is one whose property does not hold, or
  holds only under the condition named there, where no document claims it.

## Plan

1. (done) `RealmStore` with `ObjectGraph` and its proofs; `FirestoreSync`;
   `AuthSession`; `BookPosting`; `Chat`.
2. (done) `Search`, `ListScreens` with the queries of the list screens,
   `ViewPosting`, `HostBookings`, their composition `Screens`; `PostingEditor`.
3. (done) Proofs of every safety property that a passing run checks.
4. Compositions worth stating later: `FirestoreSync` over `RealmStore` (documents
   with foreign keys), and `AuthSession` with the sign-out teardown of
   `FirestoreSync`.
