# A formal model of starnetbroser

starnetbroser lets several devices share one browser session per Starlink
account: the phone (a Next.js app, also wrapped for Android) asks a NestJS API
to open an account; the API asks a browser-worker to run a headed Chromium on a
virtual display of its own, and the phone watches that display over VNC through
the API. This directory holds TLA+ modules translated from the source, the TLC
configurations that check them on small instances, and theorems about them that
TLAPS checks. Line numbers below are those of the commit the models were
written from; `PROJECT.json` maps each definition to its lines.

## 1. Inventory

### Components, state, operations

| Component (source) | State it keeps | Operations that change it |
|---|---|---|
| **Session manager** `services/browser-worker/src/browser/sessionManager.ts` | `sessions` (account → running session), `starting` (account → promise), `lastActivityAt` of each session, the handles of Xvfb, Chromium, x11vnc, websockify | `start`, `stop`, `stopAll`, `status`, `doStart`, the idle reaper |
| **Control API and shutdown** `.../src/api/server.ts`, `.../src/index.ts` | the HTTP server, whether `shutdown` was called | POST start/stop, GET status, SIGTERM/SIGINT → `server.close`, `stopAll`, `process.exit(0)` |
| **Displays** `.../src/display/xvfb.ts` | `usedDisplays`; the sockets under `/tmp/.X11-unix`; the Xvfb processes | `allocateDisplayNumber`, `startXvfb`, `waitForX11Socket`, `stop` |
| **VNC bridge** `.../src/vnc/{freePort,x11vnc,websockify,waitForPort}.ts` | which port is whose; the two processes | `getFreePort`, `startX11vnc`, `startWebsockify`, `waitForPortOpen`, `stop` |
| **Profile volumes** `.../src/docker/volumes.ts` | Docker volumes | `ensureProfileVolume` |
| **Browser sessions** `services/api/src/browser/browser.service.ts` | a `browser_sessions` row per account: status, VNC ticket hash and expiry, lock owner and time | `open`, `stop`, `status`, `resolveTicket` |
| **Worker client** `.../browser/worker-client.service.ts` | none | one HTTP call each, errors turned into 503 |
| **VNC proxy** `.../browser/vnc-proxy.service.ts` | sockets being proxied | `handleUpgrade`: ticket → account → port of the worker |
| **Authentication** `.../auth/auth.service.ts` | users, devices, `refresh_tokens` (chained by `replacedById`), an in-memory map of login attempts | `register`, `login` with its rate limit, `refresh`, `logout`, TOTP set-up, enabling and disabling, `revokeDevice` |
| **Accounts, customers** `.../accounts`, `.../customers` | `starlink_accounts`, `customers` (deletes cascade) | create, update, delete, reveal credentials |
| **Vault, audit, config, health, Prisma** | a key read once; append-only rows | encrypt, decrypt; insert |
| **Web: API client and settings** `apps/web/src/lib/{apiClient,settingsStore}.ts` | access and refresh token in localStorage | requests, refresh on 401 |
| **Web: viewer** `apps/web/src/components/VncViewer.tsx` | the RFB connection of an effect | open, connect, close |
| **Web: account list, forms, demo data** `apps/web/src/components/{HomeView,AccountDialog,DayCircles}.tsx`, `lib/demoAccountStore.ts` | React state, demo accounts in localStorage | load, retry, search, pick a day, add, edit |
| **Shared: expiryDay** `packages/shared/src/date/expiryDay.ts` | none (pure) | `expiryDay` |
| **Infrastructure, CI, Android shell** | none | the worker's restart policy |

### How they interact

    phone ──HTTP──> API: BrowserService ──HTTP──> worker: SessionManager ──> Displays
      │                 │  lock+ticket in Postgres      │ maps in memory      VncBridge
      │                 │                               └── volumes           Chromium
      └──WebSocket─> API: VncProxy ── ticket → account → port ──> websockify → x11vnc → Xvfb
      └──HTTP──> API: AuthService ── devices, refresh_tokens in Postgres

* The API and the worker are separate processes; they share nothing. What one
  knows about the other is the answer to the last call, which may be lost.
* Each is one Node thread. Code between two awaits is atomic; everything the
  process remembers may have changed at the next line after an await. In the
  API an await is one SQL statement (or one transaction) or one HTTP call; in
  the worker it is a child process becoming ready, or a close.
* The worker's four child processes per session start in a fixed order (Xvfb,
  Chromium, x11vnc, websockify) and each may fail, be late, or die later.

### What is hard, and what makes each component correct

* **Session manager**: the two maps are updated at different awaits, starts
  share a promise, a stop forgets the session before it closes, the reaper and
  shutdown run between the awaits of everything. Correct means: one live run per
  account, nothing runs that no map knows of, a session that is handed out is
  complete, every caller is answered, idle sessions are given back.
* **Displays and ports**: scarce numbers taken and given back on every path, and
  readiness that is *inferred* (a socket exists, a port accepts). Correct means:
  no number lost or shared, and what is ready is one's own.
* **Browser sessions**: an advisory lock in a row, with a TTL, around a call that
  may take longer, fail, or be carried out late. Correct means: one call per
  account, no lock left behind or released by a stranger, and a row that tells
  the truth once nobody is busy.
* **Refresh tokens**: read, decide and write in separate statements. Correct
  means, however requests overlap: one live token per login, reuse detection that
  really ends the user's sessions, a revoked device without tokens, a failed refresh
  that can be retried; or else another request revoked the token in between.
* **The phone's API client**: several requests meet a 401 together and each
  refreshes by itself against a server for which a token presented twice is a
  theft; answers get lost, come late, or meet a sign-out. Correct means: the phone
  never goes back to a token that was replaced, and it stays signed in.
* **Sign-up and the second factor**: `register`, `login` and the TOTP handlers read
  the users row, hash or compare for a while, and write by what they read. Correct
  means: one winner per address, no sign-in past a second factor that was on all
  along, a secret in force that the user has, a bounded number of attempts.
* **Accounts and customers**: the owner is checked in one statement and the row
  written by its id in the next, while other requests delete, cascade and update.
  Correct means: nobody is told or changes a stranger's row, updates of different
  fields merge, secrets are revealed only with an audit entry.
* **The account list**: loads are answered while the user searches and edits, other
  tabs save to the same localStorage, dates come in any form. Correct means: what
  the page shows in demo mode is what is stored, real accounts never get there,
  and an account is found under the day it expires.
* **From the phone to the screen**: an effect of the viewer is cancelled between
  its awaits, and the proxy goes from ticket to account to port in three steps
  while sessions stop and ports change hands. Correct means: the screen is that of
  the account, a page shows what its present effect is doing, nothing stays
  connected behind a page that was left, and nobody waits for ever.

`PROJECT.json` lists every hazard at its line with the properties that cover it.
A hazard that the code gives in to has none: its note says what happens, and which
property is worded so as to leave it out.

## 2. Plan

The modules, in the order they were written (most important first):

1. `AccountSession` (abstract) and `SessionManager` with `SessionManagerProofs`.
2. `BrowserService` with `BrowserServiceProofs`.
3. `RefreshTokens` with `RefreshTokensProofs`.
4. `Displays` with `DisplaysProofs`, `VncBridge` with `VncBridgeProofs`.
5. `WebClient`, composed with `RefreshTokens`, with `WebProofs`.
6. `VncPath`: viewer, ticket, proxy and the ports of the worker, with `OwnershipProofs`.
7. `UserAccess` with `UserAccessProofs`: the rest of `AuthService`.
8. `AccountRecords`: accounts, customers, cascade and who may act on what; its proofs
   follow those of `VncPath` in `OwnershipProofs`: screens and rows both go to nobody
   but their owner.
9. `ExpiryDay` and `HomeView`: the account list, and the dates it files accounts by;
   their proofs follow those of `WebClient` in `WebProofs`.

Not done: the compositions `SessionManager` × `Displays` × `VncBridge` (which hands
a stopped number to the next start) and `BrowserService` × `AccountSession` (the
abstract worker behind the API's lock).

## 3. Modules and the code

Naming follows the source. In every module an action is the code between two
awaits; the `pc`/`stage` of a request is the await it is at.

**AccountSession** (46 lines) states what the worker promises about an account:
STOPPED → STARTING → RUNNING, one incarnation at a time, an incarnation never
served again once it ended. It has no children, callers or failures.

**SessionManager.** A *run* is one call of `doStart`; its id stands for the
`RunningSession` object. `stage[r]` goes through the awaits of `doStart`
(`volume`, `xvfb`, `launch`, `page`, `vnc`, `websockify`, `abort` in the catch),
`procs[r]` is the set of its children that are alive. `StartExisting`,
`StartJoin`, `StartNew` are the three ways through `start()` (lines 55–73; the
limit compares completed sessions only). `…Ready`/`…Fails` are the outcomes of
each await of `doStart`, with what each failure leaves behind: e.g. a late Xvfb
is not killed, `newPage()` is outside any try, the catch stops Chromium and Xvfb
but not x11vnc or websockify. `WsReady` registers the session, runs the
`finally` and answers the callers; these are one chain of microtasks with no I/O
between, hence one action. `BeginStop`/`Closed` are the two halves of `stop()`.
`Shutdown` may come twice (SIGTERM then SIGINT) and `exitWaits` is the snapshot
each `stopAll()` awaits. `status()` and a refused start change nothing.

**BrowserService.** A request's `pc` walks through `assertOwnedAccount`, the
upsert of `ensureSessionRow` (which Prisma runs as SELECT then INSERT, whence the
P2002 catch), `acquireLock`, the worker call, the row update, the audit insert and
the `finally`. `lapsed` abstracts the clock: a held lock may become older than
`LOCK_TTL_MS`; unless the fault "slow" is enabled only after its request is past
its `try`. `read` is the status in the row as `status()` read it before it asked the worker,
which is what it falls back on. `reaped` is history: the accounts whose session the
worker stopped by itself, of which the row knows nothing. `late` holds calls that the API gave up on and that the worker may
still carry out. `RemoveAccount` is the delete in `accounts.service.ts` with its
cascade to the row.

**RefreshTokens.** One user. `family` and `ended` are history variables: which
login a token goes back to, and which families reuse detection has ended. `overtaken`
is one too: the requests whose token (or a login's device) another request revoked
between the statement that looked at it and their last one. What an overtaken refresh
issues is a family of its own, founded by that refresh.
`GivenOut` are the tokens a client was actually sent, the only ones a client can
present besides made-up ones (`BeginUnknown`): a refresh that fails after its
INSERT leaves a row whose token nobody has.
`register` issues its first token the way a login with a new device does.

**Displays.** A start is one call of `startXvfb` and the Xvfb it spawns.
`Allocatable` is the loop's first free number. `Readiness` is the existence of a
socket, whoever's it is. `Boots` is Xvfb itself (external): it refuses a display
that is being served and replaces a dead server's socket. `Stop` gives the number back
and sends SIGTERM without waiting: the process may still be there when the number goes
out again. `haunted` is history: the starts whose number still had an earlier start's
socket or live Xvfb on it (`Remains`) when they were given it.

**VncBridge.** `FreePorts` is what listening on port 0 may return between probe
and bind; `Accepting` is `waitForPortOpen`; `Binds` is what x11vnc and websockify
do (external): bind the port or exit. A failed start and a stop end no program in
the same step: `Ends` (external) is the SIGTERM of a stopped session doing its work, or
the end of the display taking the x11vnc of a failed start along, later or never; the
websockify of a failed start runs on.

**WebClient.** The server is an INSTANCE of `RefreshTokens` on the same variables;
`Serves` is its statements, and the phone's actions begin its requests. `at[q]`
is the await of `authedFetch`, `tryRefresh`, `authedFetchOnce` or `login` that call
`q` is at. `stored[p]` is the pair in localStorage: `setTokens` writes both keys
without an await, so a pair is named by its refresh token. What a call sent
(`sent`) and what localStorage holds by now (`Presents`) are different things, as in
the code. `GoesStale` is the 15 minutes of the access token, at any moment after
it was issued. `Unreachable` is `fetch` throwing: the phone gives up and the server
carries out what reached it. `raced` and `took` are history variables. The
thirty days of a refresh token are left out here (`RefreshTokens` has `Expire`), and so
are logout and the revocation of devices, which the phone never asks for. `register`
stores its pair the way `login` does.

**VncPath.** An *effect* is one run of the `useEffect` of `VncViewer`. `cur[v]` is
the effect of page `v` whose cleanup has not run, so `Cancelled(e)` is the code's
`cancelled`. `step[e]` is the await the effect is at, on the phone (`import`,
`connected`), in `open()` (`opening`, `started`, `answered`) or in the proxy
(`upgrade`, `asking`, `dialing`). `Mount` is the first render, "retry", or another
account; it runs the cleanup of the previous effect. A cleanup before `new RFB()`
leaves the effect running until its next test of `cancelled`; afterwards it
disconnects (`CleanedUp`): the socket is in `closed`, and the page hears no more of it.
The API's `handleUpgrade` hears nothing either and goes on with its lookup and its
dialling for an effect in `closed`. `open()` is reduced to what matters here: the lock
(one start per account), the port the worker answers with, and the ticket that
replaces the account's previous one; `BrowserService` has the rest. Whatever makes
`open()` reject is `OpenFails`; what the API still does after an answer was lost is,
for everybody else, what another page's request or `TicketEnds` does.
`SessionStops` and `PortFreed` are the two ends of a session: it leaves the map at
once and its websockify ends when Chromium has closed.

**UserAccess.** The `users` row of one address, and the rate limiter's entry for that
address and one client. The await a request is at: `find` (the SELECT), `create`
(after `bcrypt.hash`), `check` (during `bcrypt.compare`), `issue` (device, audit,
tokens), or the UPDATE of a TOTP handler. Decisions are made on the row as it was
read (`seenPw`, `seenTotp`). A TOTP code is known by the secret it is made of. `now`
counts ticks of the minute. `gates`, `confirmed`, `loose` and `stale` are history:
which second factors were in force while a login ran, which secrets a code was shown
of, and whether a set-up or disable overtook an enable. `VaultFails` is a stored secret
that the vault cannot decrypt (it was encrypted with another key): the request ends in an
internal error.

**AccountRecords.** Several users; `owner`, `customerOf` and `content` are the rows.
A request does one statement at a time: `Finds` is `assertCustomerOwned`,
`findOwned` or `CustomersService.get`, the others are what follows it and works by
the id alone. `content[k][f]` is the request that wrote field `f` of row `k`;
`Merged` writes only the fields a request provides. The cascade from customers to
accounts is part of `Removes`; Postgres refuses an account whose customer is gone
(`ReferenceHolds`). A reveal whose decrypt throws leaves its audit entry and answers with
an error. `maker` and `wrote` are history. No code changes the owner of a
row, which is why `BrowserService`, where `assertOwnedAccount` compares the owner
with the caller, only needs to know whether the account still exists.

**ExpiryDay.** `expiryDay()` on sequences of tokens: a number keeps its value and how
many digits it was written with, which is all its regular expressions look at; word
boundaries are there (`StartsWord`, `EndsWord`), since two of the patterns have none.
`Written` is how people write dates, after the function's comment and tests.

**HomeView.** One tab. `accounts` is the state of that name, `data` is `dataState`;
`LoadAnswers` may come at any time after `Mount` or `Retry`, whatever the user did
meanwhile. Accounts are an id, a name (for all a search matches) and a date; lists
are sets. `Submit` is the dialog's `submit` with `saveAccount`. `OtherTabSaves` and
`Settings` are the other tabs of the browser, which share localStorage. `current` and
`carried` are history: whether this tab was the last to write the stored list, and
which account was in the dialog when a load was answered.

### Assumptions that shape the models

* The worker's children are in its container and die with it (`KillAll`).
* After `server.close()` the worker takes no new request; those it has go on.
* A viewer's VNC traffic does not touch `lastActivityAt` (only `start()` and
  `getPage()` do), so any running session may become idle.
* Postgres statements are atomic, and a conditional UPDATE decides on the
  current row.

## 4. What the runs check

Passing runs:

| Run | Shows |
|---|---|
| `worker_safety` | With the failures that `doStart` cleans up after: `RunsTracked`, `OneLivePerAccount`, `SessionsWithinOverlap` (overlapping starts overshoot the limit by at most overlap − 1), `HandedOutIsServing`, `NoOrphans`; and the manager implements `AccountSession` |
| `worker_live` | Under **every** failure, deaths of children, shutdown, crash and restart: `CallsSettle` (each request is answered) and `IdleReaped` |
| `api_row` | Three requests of any kind for two accounts that start without a session row; the worker may refuse and may stop a session by itself (reaping, restart), accounts may be deleted: `WorkerCallsExclusive`, `NoAbandonedLock`, `RowMatchesWorker` (no running session is missing from the row; a session the worker stopped by itself may still be in it), `ErrorOnlyIfDeleted` and `SomeoneGetsLock` (first opens that race end in success or a conflict) |
| `api_live` | Two requests for one account under **every** fault: `HolderKeepsLock` (nobody frees a lock that is not theirs) and `RequestsFinish` |
| `auth_overlap` | Four requests, three of them at a time, whose statements may fail anywhere: `OneLivePerFamily`, `ReuseEndsFamilies`, `RevokedDeviceSilent`, and `FailedRefreshCanRetry` (the order issue-then-revoke matters). Each asks nothing of a token that was revoked under the request that looked at it (`overtaken`) |
| `display_use` | Whatever Xvfb does, numbers being used again and again: `OwnUnlessHaunted`, `RefusedOnlyWhenFull`, `StartsSettle` |
| `client_signed_in` | A phone with up to two calls at a time, statements that fail and answers that are lost: `NeverKeepsReplaced`, and `SignedInUnlessRaced` (what signs a phone out behind its user's back is two refreshes that meet, or a lost answer, and nothing else) |
| `vnc_path` | Two pages, two accounts, sessions that stop and ports that are used again: `SeesOwnAccount`, `NoLeakedViewer`, `ShownIsCurrent`, `EffectsSettle` |
| `vnc_own` | Programs may be late, die, outlive their session, or be given a port twice: `OwnUnlessShared` |
| `user_access` | Registrations, logins and TOTP requests for one address overlap, fail (statements and the vault) and meet restarts: `WinnerOwnsAddress`, `GateHeld`, `UsableSecondFactor`, `AttemptsBounded` |
| `tenancy` | Two users and three requests on any rows, one statement at a time, statements and the vault failing: `OwnerOnly`, `UpdatesMerge`; `RecordsTypeOK` includes that no account is without its customer |
| `home_list` | A tab whose load is answered at any time, other tabs, dates in every form: `StoredIsShown`, `KeptApart`, `FiledUnderItsDay`; `HomeTypeOK` includes that an id is listed once |

Type correctness is proved for every module (section 5), so most runs do not check it
again; `tenancy` and `home_list` do, as theirs says more than types. Each property has a mutant in
`PROJECT.json`: a plausible bug in the code it is about, under which TLC finds it
violated. The operators the mutants use are the "Plausible bugs" of each module;
no action refers to them.

### Where code and documentation disagree

Three sentences of the documentation or a comment hold only under an assumption
that a run or a property makes explicit. Without it TLC shows a behaviour of the code against
them:

| The sentence | What the code does | The assumption, and how to see the behaviour |
|---|---|---|
| sessionManager.ts:52–54, never a second browser on the same profile | `stop()` forgets before it closes (126); a start in between launches a second Chromium | `OneLivePerAccount` counts runs that are starting or running; count those that are closing too |
| browser.service.ts:19–21, no two requests talk to the worker for one account | the lock lapses after 30 s (77) and is not renewed during the call | `OrderlyFaults` of `api_row` has no `"slow"`; add it, and `WorkerCallsExclusive` fails |
| auth.service.ts:28–29, each use revokes the token and issues one | two overlapping refreshes both pass the test and leave two live tokens (171) | `OneLivePerFamily` leaves out families of which a refresh was overtaken (`Contested`); drop that conjunct, and it fails |

Other limits of the code show in how the passing properties have to be worded:

* Starts in flight do not count against `maxConcurrentSessions`
  (sessionManager.ts:67), so the limit is `SessionsWithinOverlap`, not the limit.
* A session whose child has died is still handed out (sessionManager.ts:56), so
  `HandedOutIsServing` is checked with children that live as long as the session.
* One ticket hash per account (browser.service.ts:118): a later open replaces the
  ticket of an earlier one, under the lock, which is all `TicketUnderLock` says.
* `totp/setup` does not look at the row (auth.service.ts:211): for a user who has TOTP
  enabled it replaces the secret in force by one nobody confirmed. A set-up between the
  read and the write of an enable does the same. `UsableSecondFactor` names the two
  cases (`loose`).
* The loser of two registrations that overlap gets an internal error, not the
  conflict the earlier SELECT would have given (auth.service.ts:85).
* A request whose row was deleted after its owner was checked ends in an internal
  error too (accounts.service.ts:152, 173).
* Two tabs in demo mode overwrite each other's lists (demoAccountStore.ts:27), although
  page.tsx:12 says that what is added is kept on the device: `StoredIsShown`
  asks nothing once another tab saved (`current`). `setItem` may throw inside
  `saveAccount`, which takes the page down.
* Edits of real accounts stay in the page: nothing sends them to the API
  (HomeView.tsx:69). A demo account that is being edited while the load is answered
  ends up in the list of real ones (`carried` in `KeptApart`).
* A retry asks for the query of the moment (HomeView.tsx:38); the list is
  then labelled as all accounts when the search is cleared.
* `expiryDay` does not read a padded day after a short month: the comment at
  expiryDay.ts:48 names "Oct 13 2026", but the pattern only knows full names and the
  last resort skips "05" (69). `Legible` leaves that out, and days that may be months.
* A refresh that read its token before reuse detection, a sign-out or the revocation
  of its device ran issues its successor afterwards (auth.service.ts:146), and a login
  that found its device active issues to it although it was revoked since (163–176
  against 199–206). The auth properties hold however requests overlap, but name
  these (`overtaken`): the family such a refresh founds is not among those reuse
  detection ended, and the token such a request issues is live on a revoked device.
  `SerialNotOvertaken` says that a user who makes one request at a time never
  meets the exceptions.
* A session the worker stops by itself (reaper, restart) stays RUNNING in the row,
  with its ticket, until the next open or stop (sessionManager.ts:170–177 tells
  nobody): `RowMatchesWorker` names these accounts (`reaped`).
* A refresh whose last statement fails leaves a successor that no client was
  given; `OneLivePerFamily` leaves these `Orphans` out.
* Two calls of one phone that meet a 401 together refresh with the same token
  (apiClient.ts:39): the later one is a reuse for the server, which signs out every
  device of the user. A lost answer leads there too. `SignedInUnlessRaced`
  names the two cases (`raced`).
* The answer of a refresh is stored whatever happened meanwhile (apiClient.ts:70),
  a sign-out included.
* The proxy connects to whoever has the port when it connects
  (vnc-proxy.service.ts:69): `SeesOwnAccount` leaves out a port that was given up
  after the worker named it (`overtaken`).
* A display number is given back before its Xvfb has ended, or although a late one
  was never killed (xvfb.ts:69), and any socket counts as ready: a start may take an
  earlier one's display for its own, against "a dedicated Xvfb virtual display" in
  the documents. `OwnUnlessHaunted` says that this needs an earlier start's socket or
  process on the number at the time it was given out (`haunted`).
* `process.exit(0)` comes when the sessions of one snapshot are closed
  (index.ts:16): starts in flight and stops already closing are not waited for.
* A port is free again between probe and bind (freePort.ts:12), so
  `OwnUnlessShared` asks nothing of a port that two programs were given.
* The catch of `doStart` stops neither x11vnc nor websockify (sessionManager.ts:103):
  they keep their ports, and x11vnc lives until its display ends.

### Bounds, and why they are enough

| Bound | Value | Why |
|---|---|---|
| `Accounts` (worker) | 4 (safety), 2 (live) | two that run, and two more whose starts overlap and overshoot the limit |
| `Runs` | 4 / 2 | an account stopped and started again while others run; ids are used once, as promises are |
| `Callers` | 2 | one starts, the other joins, stops, or starts another account |
| `MaxConcurrentSessions`, `MaxInFlightStarts` | 2 and 2 | two sessions side by side; the limit is reached, and overshot by overlap |
| `Requests` (API) | 3 (2 for liveness) | holder, successor after the TTL, and a third that meets either |
| `Devices`, `Tokens`, `Requests` (auth) | 2, 4, 4 | login, two rotations, a reuse or a logout, and the other device |
| `Overlap` (auth) | 3 | requests under way at a time: two refreshes of one token that meet a revocation; the fourth request is a login that came before |
| `Starts`, `Count` (displays) | 4 and 2 | exhaustion, and reuse of a number already given back, twice |
| `Phones`, `Devices`, `Tokens`, `Requests`, `Overlap` (client) | 1, 2, 4, 4, 2 | a login, two calls that meet a 401 together, and one that refreshes again or signs in anew |
| `Viewers`, `Effects`, `Accounts`, `Ports` (path) | 2 each | two pages side by side, or one page that is left or retried for the same or another account, and a port that goes from one account to the other |
| `Starts`, `Ports` (VNC) | 3 and 4 | two sessions with ports of their own and a third that shares one, finds none, or takes over one that was given back |
| `Requests`, `Passwords`, `Secrets` (access) | 3, 2, 2 | two requests that race and one that is between the read and the write of a third kind; an old and a new secret |
| `Limit`, `Window`, `MaxTime` (access) | 2 each | the limit is reached, and the window moves past an attempt |
| `Users`, `Customers`, `Accounts`, `Requests`, `Fields` (tenancy) | 2, 3, 3, 3, 2 | one row of each kind per user and one to be created; a reader, a writer and a deletion; two fields that updates share or do not |
| `Ids`, `Dates` (list) | 3 and 56 | a demo, a real and a new account, the last two with two days (one that may be a month), two months, padded or not, in the seven forms |

Symmetry is used in safety runs only, over ids no definition orders. Deadlock is
checked in every run; where every request was answered a stuttering action
(`Finished`, `AllAnswered`, `Quiet`, `Settled`) stands for clients that do not call again.

### Fault sets

The faults a run enables are a CONSTANT. `CleanFailures` (worker) are those after
which `doStart` stops what it spawned: the others leave processes behind (a late
Xvfb, everything when `newPage()` fails, x11vnc and websockify when websockify
fails), which the code does not undo and no document promises; `NoOrphans` is
therefore stated for the first kind. The displays and the VNC bridge are checked
with all theirs: a slow, lingering or dying Xvfb, a port given twice, programs that
are late, die, or outlive their session. The web client is checked with failing statements and lost answers
(`Faults`, `Losses`); in `VncPath` any call, import or connection may fail.
In `UserAccess` any statement and any decryption may fail and the process restart, in
`AccountRecords` any statement and any decryption may fail, in `HomeView`
loads fail and storage throws.
`api_row` has refusals, deletions and a worker that stops sessions by itself. It leaves
out lost calls, failing statements, slow calls and restarts of the API,
because under each of them the row may miss a running session, or the lock lapse, until
the next open or stop, as the lock and the catch clauses allow.

### Fairness

* Worker: `WF` on each run's next await (readiness polls have a 5 s deadline,
  Playwright's launch 30 s; Docker and `close()` are assumed to return), on
  `Closed`, on the reaper (`setInterval`), on `Exit` (the event loop gets there) and
  on `Restart` (`restart: unless-stopped`). None on requests, failures or deaths.
  `IdleReaped` is about a running session; a session is also no longer idle when
  it is touched.
* API: `WF` on each request's next statement or call (Node's fetch and Postgres
  give up by themselves) and on the passage of the lock's TTL. None on `Begin`.
* Viewer and proxy: `WF` on `Progress` of each effect: each of its calls, imports and
  connection attempts comes to an answer or an error. None on the user or the worker.
* Displays: `WF` on the poll (every 25 ms until its deadline). None on Xvfb: that
  a waiting start settles although its Xvfb hangs is the deadline's doing. The
  fairness is on "ready or failed" together, as the one timer does both.

## 5. What is proved

All theorems hold for any values of the constants that satisfy the module's
`ConstantsAssumption` (`RecordsAssumption`, `HomeAssumption`). The proofs follow one scheme: the invariant holds
initially, each action preserves it (one step per action), it implies the property.

**SessionManagerProofs** (no assumption on faults). `Typed`, `Tracked`, `OneLive`,
`WithinOverlap`, `Implements`. `OneLivePerAccount` is not inductive: `WsReady`
overwrites `sessions[acct[r]]`, which is harmless only because the run that
finishes is the one its account's promise stands for, and no session exists
then. `Tracking` = `TypeOK`, `RunsTracked` and "a session and a promise never
coexist". `WithinOverlap` adds finite-set arithmetic: `WsReady` moves an
account from `Pending` to `Started` and `StartNew` adds one below both bounds.
`Implements` maps each action to `Begin`, `Ready`, `End` or a stutter of
`AccountSession`; `KillAll` maps to one `End` of all accounts. `Serves`
(`HandedOutIsServing`, assuming `Crashable = {}`) and `LeavesNothing` (`NoOrphans`,
assuming the failures are among the four of `CleanFailure`) share `Staged`, which
says which children a start has at each of its awaits; neither property is inductive
without it, because a run is registered, or given up, with what it has by then. The
assumptions cannot be dropped: a child that dies unnoticed or any other failure is a
counterexample (section 4).

**BrowserServiceProofs.** `Typed` and `HolderKeeps` under every fault.
`MutualExclusion` under `CallsAreTimely` (no slow, lost, or crash): the invariant
`Exclusion` says that a request between acquire and release is the holder of its
account's lock, unless the account's row is gone, and no lock of such a request
has lapsed. `TicketsUnderLock` follows from it for each action that writes a
ticket. `NoneAbandoned` under `ReleasesRun` (no db, no crash): the invariant
`Held` says whoever holds a lock is between acquire and release *of that account*.
`NoInternalErrors` (no failing statement): the invariant `Rowed` says that a
request past `ensureSessionRow` has a row to write to as long as the account
exists, which is what the P2002 branch and the second SELECT are for. `RowTrue`
(`RowMatchesWorker`) under `TellsAll` (no lost, slow, db or crash; the worker may
refuse, reap and restart, accounts may be deleted) combines the two with `Honest`:
between the call and the UPDATE the row and the worker differ, and then the request about
to write is the one that made the last call; a session that the worker stopped by itself
leaves a row that says RUNNING, and nothing else does. `OneGetsLock` (`SomeoneGetsLock`) under `ReleasesRun`:
by `Met`, whoever was told of a conflict met somebody who has or had the lock.

**RefreshTokensProofs**, for any overlap and under every fault. `Typed` (needs that tokens
and devices a request works on were issued, `Asked`). `Retry` (`FailedRefreshCanRetry`):
`Overtaking` says that from the statement that looked at a token to the last one only a
request that puts the other into `overtaken` can have revoked it. `ReuseEnds`
(`ReuseEndsFamilies`): reuse detection revokes whatever is live, and a family it ended
gets no new member, because a refresh under way is overtaken by it and founds a family
of its own (`Families`). `RevokedSilent` (`RevokedDeviceSilent`): between the device's
check and the issue a refresh or login is overtaken by the revocation. `OneLive`
(`OneLivePerFamily`) is the hard one, since several refreshes may present the same
token: `Lines` says that while a token is being refreshed all of its family that was
given out, or may yet be, is that token and the successors about to be linked to it; the
first to link revokes the token and so overtakes the others, which contests the family. A
refresh that fails between its last two statements leaves a second live token; `Given`
says that this orphan was given to nobody and so is never presented.
`SerialNotOvertaken`: with `Overlap = 1` nothing is ever overtaken, so that the four
properties then hold without naming `overtaken`.

**WebProofs: WebClient.** `NoReplacedToken` (`NeverKeepsReplaced`), under every fault and
loss. The phone's check is none at all: it stores what it is sent. The invariant
says why that is enough: a token is issued to one request only (`Unique`), and what
localStorage holds was issued to a call that stored it (`Origins`), so an
old token could only come back as somebody's new one. `StaysSignedIn`
(`SignedInUnlessRaced`), also under every fault and loss: `Orderly` holds until
`raced`. It says that a phone makes one refresh at a time and presents a live token,
and that where the stored token is no longer live the answer that replaces it is on
its way. `LinkKeeps` is the heart of it: the token a refresh revokes was given to no
other phone and to no other call under way.

**WebProofs: HomeView, ExpiryDay.** `Reads` is about `expiryDay`
itself, on all dates of 12 months and 31 days in the seven forms, padded or not: one
lemma per form says which pattern captures the day and that those tried before capture
none. `Filed` (`FiledUnderItsDay`) follows from it and from `HomeTyped`. `Kept`
(`KeptApart`): `Apart` adds what the dialog may hold when the real list arrives or
the user submits: in demo mode no real account, in a loaded list no demo account but
`carried`. `StoredShown` (`StoredIsShown`) assumes `NullIsNoList`, that the marker for
a list that was never saved (`null` in the code) is not itself a list of accounts.

**OwnershipProofs: VncPath.** `OwnScreen` (`SeesOwnAccount`), `NoneLeaked` (`NoLeakedViewer`),
`Current` (`ShownIsCurrent`). `Owned` says that a page's effect is that page's own, so
what an effect that was cleaned up does touches no page; `ClosedLeft` says that a socket
the page closed belongs to an effect that is no page's; `Moved` is the shape of
all steps of one effect, for which the page's part is proved once. `PortsKept`
carries the ticket's account to the screen: the port of a session is that of its own
websockify, and a port about to be dialled is still the account's or in
`overtaken`.

**OwnershipProofs: AccountRecords** (under every fault). `OwnersApart`
(`OwnerOnly`): every write works by an id that was checked a statement earlier, and
the check may be stale by then. It holds all the same because a row never changes
hands: ids are not reused and accounts do not move, so a row that exists belongs to
who made it, and an account to who made its customer (`MakerOwns`). `Checked` carries
the maker from the check to the statement that writes, even if the row is gone
meanwhile, and through the cascade. `Merges` (`UpdatesMerge`): by `Kept` the last
writer of a field an answered update provided is an answered update that provides it;
`WholeRow`, which writes the row as it was read, breaks it.

**DisplaysProofs.** `Tracked`: `TypeOK` and `NumbersTracked`, under every fault.
`OwnDisplay` (`OwnUnlessHaunted`) under every fault: a number that was clean when it was
given out stays so. `Sockets` says that a socket stands on the number its Xvfb was given;
`Alone`, of a start that was given a clean number and holds it, that nobody else has a
socket or a live process there. Whoever had the number before is gone from it, and by
`NumbersTracked` nobody is given it meanwhile.
`RefusesWhenFull` (`RefusedOnlyWhenFull`), under every fault: the loop finds a number
as long as one is unused, since a set of display numbers that is not empty has a
least one (`Least`, from the well-foundedness of inclusion on the intervals below the
numbers, as the library states that of `<` for operators only); and if none is
unused, the starts that wait or are ready are as many as the numbers (`FullCount`).

**VncBridgeProofs.** `OwnPorts` (`OwnUnlessShared`) under every fault: `Listening` says
that a listener is a program that was given that port and lives, `Spawned` and
`Waited` say which programs a start at each await has spawned and waited for.
`Own` under `NoSurprises` (no collision, no death) is the stronger `OwnScreen`,
stated in the proof module: `Bridges` says the ports of booting and listening
programs differ and that a listener is the program whose port it is.

**UserAccessProofs** (under every fault). `OneWinner`: `OneCreated` says that once a
registration got past its INSERT the row has its password, and no second one is past
it. `GateHolds`: by `GateKept` what a login read is among `gates`, and a login that
passed its check did so with what it read. `FactorUsable`: by `FactorKept` an enable
between its read and its write holds a code of the secret in force unless it is in
`stale`. `RateBounded`: the logins in the window of login q were all counted by the time
the last of them was, so they are among `Recent` then; the cardinalities are those of
finite sets.

## 6. What is only model-checked

* Liveness: `CallsSettle`, `IdleReaped`, `RequestsFinish`, `StartsSettle`,
  `EffectsSettle` (liveness under fairness is out of the prover's reach).

## 7. What is not modelled, and why

* Stateless code: DTO validation, controllers, CORS, health.
* Cryptography and formats: hashes, the vault's encryption, volume names,
  the wording of errors. A token or a ticket is a model value.
* Devices and tokens of an issued sign-in are in `RefreshTokens`, the users row in
  `UserAccess`; the two are not composed. Logins from several clients, each of which
  has a window of its own, are not modelled.
* Dates and time zones: which dates are near is a constant of `HomeView`. `date.ts`
  parses an ISO date as UTC and then takes local midnight.
* The overview's counters, what a card shows, the texts; React components, styles,
  demo data, configuration, CI, the Android shell. Redis and BullMQ appear in the documents but not in the code.
