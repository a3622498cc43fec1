# atpr.to in TLA+

Specifications, model checks and machine-checked proofs for atpr.to, a link
shortener whose links are records in each user's own AT Protocol repository. A
Rust service (axum on tokio, one process or many Lambda instances) signs users
in, writes their records and redirects visitors; a few plain scripts run in the
browser. Paths below are relative to the repository root; `PROJECT.json` maps
every definition to the lines it models.

## The system

| Component | State it keeps | Operations | What makes it hard | What makes it correct |
|---|---|---|---|---|
| File session store, `src/session/file.rs` | map of sessions and pending logins behind an `RwLock`; one JSON file | open, upsert/delete session, save/delete request, two reads | three awaits inside every write, IO errors, handlers dropped half way, process death, clock steps | exclusion of writers; a whole, private file; Ok means on disk; acknowledged writes survive; every call returns |
| Session store seam, `src/session/mod.rs` | none: forwards to memory, file or DynamoDB | the six calls of `ClientAuthStore` | three backends, one contract | each backend implements `AuthStore` |
| DynamoDB store, `src/session/dynamo.rs` | one table shared by all instances | the same six calls | reads may be a write behind, deletion by TTL is late or never | expiry enforced on read; nothing relies on a consistent read |
| Login, restore, logout, `src/auth.rs`, `src/api/{ui,logout}.rs` | session cookie (two names); tokens in the store | start login, callback, restore and refresh, revoke, redirects between home and dashboard | refresh against logout, callbacks twice or elsewhere, lost answers | signing in and out take effect and stay; a revoked session is dead; no redirect loop |
| Link store, `src/store.rs` | none: the user's repository on a remote PDS | put (create only, overwrite), list, delete | lost replies, late calls, racing tabs, cursors | truthful answers, POST never replaces, complete listing |
| Write API, `src/api/{shorten,update,delete,links}.rs` | none | the four handlers | handle lookup after the write, the request timeout | status tells what became of the record |
| Link resolution, `src/resolver/`, `src/api/{resolve,info,qr}.rs` | none | Slingshot, then identity and PDS directly | two paths with different errors, five-second hops under one deadline, cached redirects | found, absent and unreachable are told apart; redirects are recent |
| Errors and pages, `src/error.rs`, `src/api/error_page.rs` | none | error to response, response to page | layers in an order, answers that never passed through `AppError` | every failure in the form the client asked for, and never cached |
| Router, limiter, timeout, `src/lib.rs` | rate-limit buckets | route, limit, time out, health | the timeout drops futures at any await | nothing hangs, nothing is left locked, no client starves another |
| Configuration and startup, `src/config.rs`, `src/lib.rs` | none after start | merge, validate, open the store | a bad value silently replaced | the process serves as configured or not at all |
| Jetstream subscription, `static/jetstream.js` | socket, host, backoff, generation, paused | connect, drop, retry, pause, resume | events and timers of retired sockets, in any order | one connection at most, exactly one way to reconnect |
| Dashboard, `static/dashboard.js` | list, cursor, open edit, open dialog | load, load more, create, repoint, delete, apply remote commit | overlapping responses and commits | the list follows the repository, leaves no link out and lists it once |
| Domain types, lexicon, `src/domain.rs`, `src/generated/` | none | parsing, serialising | a limit checked before the value changes | what is stored can be read back |
| Wall, suggestions, theme, pages | seen events; active lookup | add event; look up | repeated and late events | nothing depends on them |

They interact through calls (handlers to stores, stores to the PDS), through one
shared object per user (the repository, written by every tab and by other apps,
and seen again through Jetstream), and through dropped futures: `TimeoutLayer`
cuts off any handler wherever it waits, so every await in a store is a point at
which its caller may vanish.

## Plan

1. `SessionData`, `AuthStore`, `FileStore`: sessions on disk. Checked and proved.
2. `Jetstream`: the subscription. Checked and proved.
3. `LinkStore`: the write API over the PDS, and `LinkPromise`, which it implements.
   Checked and proved.
4. `DynamoStore` and, over it, `Login`. Checked and proved.
5. `Domain`, `Startup`, `ErrorPage` and, over them, `Service`: from the
   configuration to every answer. Checked and proved.
6. `Dashboard`, over the pages `LinkStore` lists and the commits `Jetstream`
   delivers or misses. Checked and proved.

Left, in this order: several requests of `Service` in flight over one `LinkStore`,
by way of `LinkPromise`; several edit forms open at a time in `Dashboard`.

## The modules

**`SessionData`** is what a store holds and what each call does to it, shared by
the abstract store and its implementation. Tokens are opaque (`Value`); an
authorization request is the time it was saved, all that `is_expired` looks at.

**`AuthStore`** is the promise of a session store to its callers: one call in
effect at a time, Ok only with everything so far on stable storage, an error
only after the call took effect in this run. No locks, files or renames.

**`FileStore`** is `file.rs`. `mem` is the map, `lock` the write guard's holder,
`call[t]` the method a handler is in, `job[n]` a persist by the temporary name
it uses, `tmp` and `file` the files. `Begin` is the call, `Acquire` everything
from the grant of the lock to persist's first await (no await lies between, so it
is one step), `Create`, `Fill`, `Chmod` and `Rename` the three tokio::fs calls (a
write is two steps: the file exists before it is complete), `Fail` the `?` on
any of them, `Cancel` the drop of the handler's future, after which its job runs
on as `Detached`. `Open` is `FileStore::open`, whose persist uses the same steps.
Reads hold the read lock over no await, so they are state functions: what one
would return in a state. `promised` is history: what callers were last told.

**`Jetstream`** is `subscribe()`. The first five variables are its closure's;
`sock` holds every `WebSocket` with the generation its handlers closed over,
`timers` the pending timers by the generation they compare with. Each kind of
callback is an action, and they interleave freely. A timer may fire at any
moment, so a backoff's length matters only for its bounds. A constructor that
throws is a disjunct of `Connect`.

**`LinkStore`** is the write API over `PdsLinkStore`. `repo` is the collection
on the PDS (external, from how the code uses it); `request[r]` is a write
request, from the handler's call (`wire`) to its answer (`status`). `Serve` may
come after the handler is gone. `walk` is a client following cursors through
`GET /api/links`. Each request writes a destination of its own, named by its
number. Unusable records, which the listing skips, are there from the start.
`effect` is what the PDS did, and tells a call it has not carried out from one that
found nothing to do, so that a 204 to a DELETE claims something too.

**`LinkPromise`** is what its callers may rely on: a request is carried out at most
once, in one step between its being made and any answer that says what became of it;
after 502 or 504 it may still be carried out later, or never. `Promise` at the end of
`LinkStore` maps a request to it: the call on the wire is an open request, `ok` a
request that is done, `swap` a code that was taken. The lookup of the handle and the
walk are stutters.

**`DynamoStore`** is the table: `get`, `put`, `remove` of one key, and the
table's own sweep. A row is told by its `expires_at`; `behind` is each row before
its last write, which a read without `ConsistentRead` may return.

**`Login`** is one browser and one account over that table. `task[t]` is a request
in flight: the callback's four awaits (`CallbackRead`, `CallbackConsume`,
`CallbackExchange`, `CallbackSave`), a visit or a logout from `Restore` on
(`SaveRefreshed`, `Revoke`, `DropSession`), and the answer (`Deliver`), which sets
or clears cookies and follows the redirect. `Abandon` is every way to end without
an effect on the browser: an error, the timeout, a lost answer. Between any two
awaits other tasks run. `begun`, `used` and `live` are the authorization
server's; a tick of the clock is much longer than a request.

**`Domain`** tells a short code and a destination by what the parsers look at: a
length, a class, and by how much `Url` lengthens a destination as it serialises it.

**`Startup`** merges a default, `Config.toml` and the environment, validates the
result and opens a session store. A source sets at most one of the settings. The
base URL may be any text that `Url` parses, plain http beyond loopback included;
refused are a text that is no URL, a rate of zero, `dynamodb://` without a table and
a file that cannot be used. A text that only `jacquard`'s `Uri` refuses panics a
little later (`src/auth.rs:265`), which is the same refusal.

**`ErrorPage`** is `AppError::into_response`, the negotiation between JSON and a
page, and the layers in their order. `length` is the body a response's
Content-Length was counted for, which goes stale when a layer replaces the body,
unless it drops or recounts it.

**`Service`** is one instance: `Boot`, then one request at a time (handlers share
only the limiter), which the limiter sees first, then the router and the extractors
(every route of `build_router`, and the 400, 405, 413, 415 and 422 of a request that
reaches no handler), then each hop of the handler as an action of its own, under the
HTTP client's timeout per hop and the request's timeout for all of them. `Answered`
sends a response through the layers. `cached` is a shared cache in front, which
keeps what HTTP lets it; `value` the record of one short link, `idle` how long ago
each value was the record. Reads and writes that other modules detail are outcomes
here.

**`Dashboard`** is the list: `links` in memory, `rows` in the document, `cursor`,
the open `edit` form, the code the open `dialog` asks about, and `call[k]` in
flight, which the server answers (`Serve`: one of `list_links`, `shorten`,
`update_link`, `delete_link`, or `Refused`) before the page's callback runs
(`Loaded`, `MadeAnswer`, `SaveAnswer`, `DeleteAnswer`). `feed` holds commits, its
own writes' echoes included, on their way to `ApplyRemote`, or to nobody while the
subscription is paused or reconnecting (`Lost`). A `listed` bit tells whether the
object a form or a call closed over is still in the list, since a reload makes new
ones. The answer to a repointing takes what the form's field holds by then
(`SaveAnswer`), which may be any destination. `AskDelete` and `Confirm` are two
steps: a commit between them may remove or replace the link, and the DELETE is sent
all the same. While the dialog is open the visitor reaches nothing else. `Redraw` is
a change of the filter or of the order; the filter hides no row here.

The list cannot be true of every link at every moment: a commit may be lost, or
overtake a page or the answer to a deletion. Two history variables say of which
links: a served call's `missed` are the codes a commit has passed by with something
else than its answer says, and `doubt` are the codes whose last news was lost, which
a page or an answer contradicted, which a page skipped, or of which a commit
corrected only the first of two rows. A load of the whole list settles all of them
but what it missed itself; one's own deletion of a link, or a commit about it while
it has one row at most, settles that one. A second row alone is no doubt: both rows
are true until a commit changes one of them. The properties claim the truth of every
other link, in every state, not only once all is quiet.

`MCFileStore`, `MCJetstream`, `MCLinkStore`, `MCLogin`, `MCService` and
`MCDashboard` add what the configurations need. Three of them hold a state
constraint:

- `Scenario` (`MCLinkStore`): either requests race on one code, or a client walks
  the list while at most one request is served, whose handler goes on waiting: what it
  answers is nothing to the walk.
- `Serving` (`MCService`): of the three stores only the one in memory goes on
  serving, since nothing in `Service` depends on which it is. All are opened.
- `Scenario` (`MCDashboard`): at most two commits are on their way, one while the
  dialog is open, which then finds a call free; once the last write was made, the
  dialog is closed and no calls but repointings are in flight. The theorems need
  none of it.

`MCDashboard` also states that the calls in flight are interchangeable, which
TLC uses as symmetry.

## The runs

| Run | Question | Bounds |
|---|---|---|
| `file_store_faults` | Do exclusion, the file's wholeness, "Ok means on disk" and the return of every call survive errors, crashes and dropped futures? | 2 handlers, 2 names, 1 key, 2 values, 2 drops |
| `file_store_promise` | Without drops, do reads and the file honour every acknowledgement, and is `AuthStore` implemented? | 2 handlers, a session and a login, clock 0..2 with TTL 1 |
| `file_store_stale_rename` | ... and with one drop? **Violated**, see Findings. | 1 drop |
| `jetstream` | One connection, one way to reconnect, one host further per failure, nothing while hidden, and back in the end? | 3 sockets, 3 failures, 3 changes of visibility |
| `link_store` | Does each answer say what became of the write (200 and 204 that it was served), are successes final and writes atomic (is `LinkPromise` implemented) when requests overlap? Is a listing complete, and does it end, while a write lands? | 3 requests on one code, or 1 beside a walk over 3 codes; page size 2, limits 0, 1 and 3, 1 failed page |
| `link_store_delete` | Is a DELETE of nothing a 404? **Violated**. | 1 code, 1 request |
| `login` | Does the last login win, does a sign-out last, is a revoked session dead, is expiry enforced, does every visit end? | 1 login, 2 requests in flight, clock 0..2, TTLs 2 and 1, cookie age 1 |
| `login_revoke` | Is there nothing to revoke when a logout finds no session? **Violated**. | same |
| `service` | From every configuration that boots, on every route, is every answer true, recent and in the client's form? | budget 5, 3 hops to resolve a handle, relay lag 1, max_age 0 or 1, 2 clients (one without an address), burst 1 |
| `service_target` | Can what is stored be read back? **Violated**. | same, a destination that grows |
| `dashboard` | Is every link that is in no doubt listed and as the repository has it, when answers, commits and lost commits interleave? Does a link get a second row only from a further page? | 2 codes, page size 1, 3 writes, 2 calls in flight, commits may be lost |
| `dashboard_ghost` | Once all is quiet and no commit was lost, is no row of a deleted link? **Violated**. | page size 2, no losses |

Why they are enough. In `FileStore` a hazard needs a writer, one that was
dropped and one that comes after; `Write` bounds the jobs alive at one time
and names are used again when a job is over. A clock of 0..2 with TTL 1 has a
request in time, exactly at the boundary, expired, and a clock near zero. Three
sockets let two retired ones owe events while a third is live; three failures
reach the ceiling of the wait (1, 2, 3); three changes of visibility pause, resume and
pause again over one timer. In `LinkStore` three requests make a create, a delete and a
create; three codes with page size 2 give a short page, an exactly full one and a
page of unusable records. In `Login` two requests are enough for a logout against
a refresh, for a callback twice, and for two visits that clear each other's
cookies; the clock passes the cookie's age, then the session's. In `Service` a
budget of 5 is two hops of the relay and three to resolve a handle, so that the
deadline falls before, in and after the direct path; a relay lag of 1 beside a
`max_age` of 1 tells the two apart from their sum. In `Dashboard` two codes on
pages of one make a second page, a write that lands between two pages and an empty
last one; three writes (one of which the list starts with) and two calls make two
repointings that overtake each other, an edit beside a deletion and a new link
under the same code, and a commit about each; a dialog stays open while its link is
deleted and made again elsewhere.

Deadlock checking is on for `FileStore`, which can always crash or restart, and for
`Dashboard`, whose visitor can always draw the list again. It is off for the other
modules: their runs stop when the bounds on failures, requests, writes or the clock
are used up, and a refused start is an end.

Each property of a passing run has a mutant in `PROJECT.json`, a plausible bug
in the code under which TLC finds the property violated. Several are bugs the
source's comments report as fixed: a fixed temporary name, `putRecord` without
`swapRecord: null`, counting a page by its usable links, a second reconnect from a
retired socket, one bucket for all clients, a page rendered inside the timeout.

## Fairness

- `FileStore`: weak fairness of every job, since tokio's blocking pool runs what
  it is given and a job ends, well or badly; strong fairness of `Acquire`,
  since tokio's `RwLock` queues in order of arrival. Nothing obliges a client
  to call, a future to be dropped, or the process to die or to be started.
- `Jetstream`: the browser delivers the events a socket owes, opens a connection
  that does not fail, and runs its timers. Visibility and the network are free.
  `Resubscribes` claims nothing of a tab that stays hidden.
- `LinkStore`: the walking client asks again and the PDS answers its list
  calls, after at most `MaxFailures` errors. Writes are under no fairness.
  `WalkEnds` is checked under `Scenario`, which a step of the walk never leaves.
- `Login`: each task goes on with its handler (`WF_vars(Handle(t))`), since the
  runtime polls what it is given. Whether an await succeeds or fails is free.

## What is proved

By TLAPS, for all values of the constants under each module's assumptions:

- `FileStore_proofs`: `TypeOK`, `WriterExclusion`, `FileIsWhole` and
  `OkMeansOnDisk`, with dropped futures, crashes and errors. The invariants
  are not inductive alone. `Inv` adds `LockOwner`, which ties the lock's holder
  to the phase of the process and to a call in progress, and `TmpProgress`: a
  temporary file is as far as its job's step says, contents and mode included. `OkMeansOnDisk` is then a fact about the step `Rename`:
  what it moves into place is what is in memory.
- `FileStorePromise_proofs`: when no future is dropped (`MaxCancel = 0`, assumed
  by each theorem), `ReadsHonourAnswers`, `AcknowledgedIsDurable`, and
  `KeepsPromise`: the file store implements `AuthStore` under the mapping at the end
  of `FileStore`, initial states to initial states and each step to a step or a
  stutter. The strengthening, `PromiseInv`, says that no persist outlives its
  future, that the file, and the map while the process runs, hold everything
  callers were told, and that a request somebody can count on has not expired,
  so that no reaping pass takes it.
- `Jetstream_proofs`: `TypeOK`, `NoLeakedSocket`, `NeverStranded`,
  `RetryUsesNextHost` and `HiddenTabIsQuiet`. The strengthening is what the
  generation counter is worth: no socket is of a later generation, and a socket
  of the current one that has events left is the one `socket` names, made for the
  present `host`.
- `LinkStore_proofs`: `TypeOK`, `TruthfulAnswers`, `OneCreator`, `SettledValue` and
  `WalkIsComplete`, for any number of codes and requests and any page size, from two
  strengthenings that share only the types. `TruthfulAnswers` covers all three
  methods: a success was served with the effect it reports, a 409 found the code
  taken. Of writes: a request's answer agrees with
  what the PDS did for it (`Agreement`); creations of a code alternate with its
  removals (`Alternation`, over cardinalities, which is what `OneCreator` counts);
  the write served last was not answered before another one was made
  (`LastWord`). Of the walk: the cursor separates what was shown from what will be
  (`Frontier`), and a page in hand has every lasting link after the cursor or is
  full and ends before it (`PageInHand`). `WalkIsComplete` needs no
  `Scenario`: any number of writes may land beside the walk.
- `LinkPromise_proofs`: `WritesAreAtomic`, that `LinkStore` implements `LinkPromise`
  (initial states to initial states, each step to a step or a stutter), for any number
  of codes, requests and walks. It needs only `Agreement` of the strengthenings above.
- `Login_proofs`: all six invariants of the run, for any number of tasks and
  logins, from: rows are of logins whose code was exchanged (`Rows`), a handler past a
  step has its outcome behind it (`Progress`), what is revoked was exchanged and
  is not live (`Dead`), the cookies are what the last answer left (`Cookies`),
  and a live row outlives every cookie made from it (`Outlives`). `behind` is
  under the same invariants as `table`, which is why stale reads do no harm.
  `LatestLoginWins` is proved for `Loopback = FALSE`, the deployed service.
- `Service_proofs`: all seven invariants of the run and the action property
  `BootsOnlyAsConfigured`, for any configuration, whatever the base URL's scheme,
  any clients, lag, budget and
  number of hops. `Inv` follows a request: where it may be (`Places`), how long it can
  have taken to get there (`Timing`: a relay's hop costs a tick at most, a tick on
  the direct path counts as slow), what its answer may be (`AnswerOK`); and what
  outlives it: the cache's entry, which is a redirect that stays true for as long
  as it is kept (`Kept`), and the buckets (`Buckets`: one holds at least what its
  client's silence has earned). Every handler is then one of two lemmas: an answer
  that fits the request (`AnsweredStep`), or a move it may make (`MovedStep`).
- `Dashboard_proofs`: all three invariants of the run and the action property
  `ListedOnce`, for any number of codes, writes and calls in flight, any page size,
  with and without losses. `ListedOnce` needs no strengthening: for each of the
  operations on the list a lemma says what it does to the entries of a code
  (`SavedOnce`, `DeletedOnce`, `RemoteOnce`, `LoadedOnce`), and only an appended page
  adds one to a code that has one. `FeedCatchesUp` says that the last commit about a code, of
  those on their way, is what the repository holds. `ListHolds` and `AnswersHold` say the same
  of the list and of each answer still to come: what it tells of a link agrees with
  the repository, or a commit about the link is on its way, or the link is in
  `doubt` (in `missed`); so that a commit, which moves on in `feed`, a page, which
  turns an answer into the list, and a loss each keep it. `EchoComes` is why the
  answer to a repointing does no harm whatever the field holds: while it still finds
  the link it was opened on, the echo of its own write is on its way, or was lost
  and the link is in doubt. The sequence lemmas are about `Keep`, which removes
  entries and preserves order.

The assumptions on constants (`DataAssumption`, `FileAssumption`,
`JetstreamAssumption`, `LinkAssumption`, `StoreAssumption`, `LoginAssumption`,
`DomainAssumption`, `StartupAssumption`, `ServiceAssumption`,
`DashboardAssumption`) keep special values
apart from data, fix what is a number, and state what the source's own constants
satisfy: a wait's bounds in order, a cookie that expires before its session. TLC
evaluates them in every run.

Only model-checked: the liveness properties (`EveryCallReturns`, `Resubscribes`,
`WalkEnds`, `VisitsSettle`), which are out of the prover's reach.

## Findings

- **A dropped handler's rename can undo a later acknowledged write**
  (`src/session/file.rs:167`). The write lock excludes other writers only while the
  future lives. Dropped at the last await, it releases the lock while the
  rename is already with the blocking pool; the rename may land after that of the
  next writer. Memory is right until the next start: then, for example, a session
  that a user signed out of is back. `file_store_stale_rename`.
- **DELETE of an unknown code is 204 in production and 404 in the tests**
  (`src/store.rs:314`). `link_store_delete`.
- **A logout that cannot restore its session revokes nothing**
  (`src/auth.rs:214`). `restore()` maps every failure to Unauthorized, a passing one
  too, and `revoke()` takes that for a session that is gone. `login_revoke`.
- **A destination at the limit is stored beyond it** (`src/domain.rs:121`): the
  length is checked before `Url` serialises it, so that the link is refused when it
  is read back. `service_target`.
- **A deletion that overtakes a page leaves a ghost** (`static/dashboard.js:401`):
  the page puts the link back, and nothing removes it. `dashboard_ghost`.

Hazards of `PROJECT.json` that no property catches, because the code guards against
none of them: a PUT answered 504 that is served after its successor
(`src/store.rs:235`), a tab that starts hidden (`static/jetstream.js:149`), two
callbacks of one login (`src/auth.rs:205`, where the authorization server's one-time
code decides), overlapping loads of the list (`static/dashboard.js:401`) and commits
missed while reconnecting (`:671`). Nor does a property say that a callback finds
the request just saved: a read that is a write behind ends the login in an error,
and the visitor tries again.

Met while modelling, without a run:

- A page opened in a background tab connects (`static/jetstream.js:149`), though
  nothing is to be watched while hidden (`:136`). `HiddenTabIsQuiet` leaves it out.
- A full last page ends in a cursor with nothing behind it (`src/store.rs:305`),
  which the in-memory store does not hand out (`:97`).
- tower_governor's `.per_second(n)` is an interval: the default 2 allows one request
  every two seconds, not two a second (`src/config.rs:154`, `src/lib.rs:267`).
- `BaseUrl::is_loopback` compares with `::1`; the host of such a URL is `[::1]`
  (`src/config.rs:66`).
- `src/lib.rs:306` speaks of 408 where the layer answers 504; `src/lib.rs:285` says
  everything that costs an upstream round trip is limited, where resolve, info, the
  dashboard and health are not; `src/config.rs:211` counts about three times the hop
  timeout, where a lookup by way of the PDS has up to seven.
- An exhausted handle lookup is a 404 (documented in `direct.rs`); `NotFoundIsTrue`
  allows it.
- A logout that races with a refresh of the same session puts the dead row back;
  it stays until it expires and `RevokedIsDead` says that it is harmless.
- A `__Host-session` cookie left by an https deployment hides the `session` cookie of
  a loopback one, which is why `LatestLoginWins` is about the former.
- `http://[::1]`, like any plain http base, boots and serves, with the cookies and
  the client metadata of an https deployment (`src/config.rs:33`, `:78`).
- The dashboard clears a good cookie on a passing failure (`src/api/ui.rs:88`).
- A 404 of a static file, and the 405, 429 and 504 that a JSON client gets, carry no
  `no-store`. A destination too long for a QR code is a 500.
- On the dashboard, a link created elsewhere and then reached by "Load more" is listed
  twice (`ListedOnce` says that nothing else does that), and the next commit corrects
  only the first row; the answer to one's own DELETE drops a link re-created meanwhile; a reload
  that overlaps "Load more" can skip a page. These are among the ways for a link to come
  into `doubt`, so that no property claims anything of it. Commits that pass by while the tab is hidden are never fetched
  (`static/dashboard.js:671`): only a load of the list makes up for them.
- Confirming the dialog for a link that was deleted meanwhile still sends the DELETE,
  which takes a link made anew under that code (`static/dashboard.js:584`).
- `draw()` after one's own action closes an open edit form, with what was typed; a
  commit leaves it open (`:667`, in `Rebuilt`). Cancel removes the form
  and draws nothing, so that rows stay behind the list until the next `draw()`.
- The answer to a repointing sets the link to what its field holds by then, not to
  what was sent (`save()` in `static/dashboard.js`). The echo of the write puts it
  right, unless it is lost.
- On the wall, the second repointing of a link is taken for a duplicate, since the
  key holds no revision (`static/wall.js:104`), though its comment calls the two events.

## Not modelled, and why

- Power loss and `fsync`: the code calls none. A crash is the process's; a
  file renamed is then there.
- A second process on the same store file: the service runs one, and the
  map in memory makes the file private to it. Litter left behind by a failed or crashed
  persist is forgotten, since nothing ever reads or removes it.
- Errors the types exclude: serialising the map, a code that is no record key.
  A read error in `open` fails the start.
- Streaming of message bodies, formats, markup, styles, and the characters of codes,
  handles and URLs: these are for the unit tests, which the source has.
- The wall ("decoration over a page that is complete without it") and the handle
  suggestions ("a convenience"): nothing depends on them, they promise nothing about
  completeness, and an aborted lookup's rejection runs before anything else can. The
  theme is one stored value.
- The generated lexicon types beyond `Link::validate`, and their generator.
- jacquard (OAuth client, `MemoryAuthStore`), tower_governor's bucket, the AWS
  SDK, the authorization server, the PDS and the relay: external, present only through
  what the code asks of them.
- Several requests of `Service` at once, and requests for several links: handlers
  share nothing but the limiter, and what racing writes do is `LinkStore`.
