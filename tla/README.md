# TLA+ models of the Lingqiao server and its client

Lingqiao (灵桥) sells access to a Windows client by *cards*: codes that grant a
period of use. The Go server under `src/server` activates cards, tracks the
sessions of running clients, and serves them the script, DLL and payload
versions that administrators publish; the client under `src/client` keeps a
session open. This directory holds TLA+ modules for the parts of both whose
correctness depends on the order of steps, the TLC configurations that check
them on small instances, and TLAPS proofs of the main results for all values of
the constants.

Contents: [inventory](#1-inventory), [modules](#2-modules),
[card sessions](#3-cards-and-sessions), [script versions](#4-script-versions),
[the client's session](#5-the-clients-session),
[the chat and its file](#6-the-chat-and-its-file),
[what disagrees with the documents](#7-where-code-and-documents-disagree),
[what is not modelled](#8-not-modelled), [plan](#9-plan),
[how to run](#10-how-to-run).

## 1. Inventory

The server is one process. HTTP handlers run concurrently, one goroutine per
request. Most state is in SQLite (`db.go`), some in files that are read and
rewritten whole. Features call each other through small adapters in
`src/server`; nothing is shared by messages.

| Component (`src/server/...`) | State | Operations | Interacts with |
|---|---|---|---|
| client sessions (`internal/features/sessions`, `internal/cards/session.go`) | table `sessions`; reads and binds `cards` | Activate, Heartbeat, Deactivate, ForceLogout, ValidateBound, CleanupExpired (5-minute ticker) | cards, blacklist; every guarded client endpoint calls ValidateBound |
| cards (`internal/features/cards`) | table `cards` | create, batch, import, status, extend, unbind, details, bulk, delete | sessions read the same rows; agents and authorizations edit them |
| authorizations (`internal/features/authorizations`) | none of its own | freeze, restore, extend, unbind, archive a list of cards | edits cards |
| blacklist (`internal/features/security/blacklist`) | table `blacklist` | Add, Remove, Check | activation, request admission |
| request admission (`handler.go`) | none | signature, machine blacklist, rate limit before a handler | all client endpoints |
| scripts (`internal/features/scripts`) | `scripts/index.json`, one file per version, `active.json` of older servers | Create, Publish, Activate, Delete, List, GetActive, migration on read | client download; releases pin the active version |
| JSON storage (`internal/storage`) | a file, a `.bak`, a temporary file | Load, Save | payloads, chat |
| payloads (`internal/features/payloads`) | JSON store + binary files | Add, SetActive, Delete, download | JSON storage |
| chat (`internal/features/chat`) | JSON store under one mutex | Send, Poll, mute, prune | JSON storage, sessions |
| agents and invitations (`internal/features/agents`) | tables of agents, invitations | register with an invitation, create cards within a daily limit | cards, by `agent_cards_adapter.go` |
| releases (`internal/releases`, `internal/features/releases`) | table of releases | draft, publish, roll back, select by channel | scripts (pins the active one), packages |
| announcements (`internal/features/system`) | index and active copy, files | create, activate, delete | client endpoint |
| administrators (`internal/features/admin`) | table of administrators, in-memory login sessions | login, create, disable, change password | everything under `/admin` |
| request authentication (`internal/auth`) | set of used nonces | verify signature and nonce | request admission |
| rate limiter (`internal/httpapi/ratelimit.go`) | sliding windows in memory | allow | request admission |
| exam records, audit log, cut-over proxy, server shell | append-only tables; none; start-up | insert; log; route | - |
| Java server (`src/server-java`) | the same tables and files | the same operations, written again | replaces the Go server route by route, through the cut-over proxy |
| client session (`src/client/src/controllers/session_controller.*`, `services/api_client.*`, `ui/impl_session.h`, parts of `ui/main_window.h`) | members of `SessionController` and of `MainWindow`; saved session and queue of deactivations in `QSettings` | activate, restore, heartbeat, deactivate, flush | the client endpoints; controller and window by Qt signals |
| client updates, network workers, user interface (`src/client/src`) | the running program | update, download, chat display | session, client endpoints |
| client hook runtime, security helpers (`src/client/src/hook`, `security`) | another process | inject, intercept, fingerprint | - |
| CEF and Chromium headers, packages, installer, scripts | third-party code and tooling | - | - |

Which server is in production the documents do not agree on: the README of the
repository says the Go server, with the Java one as a sidecar that is off by
default; `server-java/README.md` says the Java server has taken over. The models
follow the Go server, which the design documents describe.

What is hard in it, by component:

- **Cards and sessions.** A session operation is one SQLite transaction, but an
  administrator's edit is a SELECT and a later upsert of the *whole row*, with
  no transaction or version check. Edits therefore interleave with activations,
  deletions and each other, and the save of a stale row may undo or revive
  things. Seats are counted only at activation. Refusing a card ends none of
  its sessions at once: they must run out. Correct means: sessions of a refused card
  end within the TTL; no more sessions than seats; the period granted stays
  between the one issued and the one paid for; expired rows go away.
- **Scripts.** No lock. A request reads the index, computes the new one, writes
  version files, then overwrites the index; it may fail or be cut off between
  any two writes, and readers migrate old indexes. Correct means: one active
  version; listed versions are stored; clients get the content that was active.
- **JSON storage, payloads, chat.** Save renames the file away before the new
  one takes its place. Correct means: a crash loses at most the last save, and
  message numbers are not used twice.
- **Client session.** Requests run on pool threads, and their continuations run
  in the window's thread in any order, on whatever state they find there. The
  window keeps its own copy of the session. A saved session and a queue of
  deactivations outlive the program. Correct means: window and controller agree; a
  session that has a seat is not forgotten; a working session is kept; a dead one
  is noticed.
- **Agents.** Limits are checked on what was read before the cards are created;
  invitations must not be used more often than allowed.
- **Releases, announcements, administrators.** Read, edit, save without a
  transaction; a release pins the state of another component; two owners may
  disable each other.
- **Nonces, rate limiter.** Check-then-store order, window boundaries.

`PROJECT.json` lists every component with its status, and every hazard at its
line with the properties that would notice it going wrong.

## 2. Modules

| Module | What it is |
|---|---|
| `CardSessions` | cards, sessions, blacklist, administrators' edits, clock |
| `MCCardSessions` | instances of it for TLC |
| `CardSessionsProofs` | four theorems about it |
| `SeatLease` | leases on seats: what clients and administrators may hope for of sessions; `CardSessions` implements it |
| `SeatLeaseProofs` | the theorem that it does |
| `ScriptVersions` | the script index, the version files, requests in flight |
| `MCScriptVersions` | instances of it for TLC |
| `ScriptVersionsProofs` | one theorem about it: one active version |
| `ScriptFilesProofs` | four theorems about its files and downloads |
| `ScriptLibrary` | a library of versions with atomic operations: what administrators may hope for; `ScriptVersions` implements it |
| `ScriptLibraryProofs` | the theorem that it does |
| `ClientSession` | the client's controller and window, its saved state, requests in flight, and the sessions the server holds for it |
| `MCClientSession` | instances of it for TLC |
| `ClientSessionProofs` | five theorems about it |
| `AtomicRegister` | a value replaced as a whole or not at all: what a caller of the store may hope for |
| `JSONStore` | `storage.JSONStore`, one system call at a time; implements `AtomicRegister` |
| `ChatService` | the chat on top of `JSONStore` (EXTENDS it, and takes its steps as parts of its own) |
| `MCChatService` | instances of it for TLC |
| `ChatServiceProofs` | five theorems about the store and the chat |

The definitions whose comment begins "Mutant of" are faulty variants of the
definition that follows them. No specification uses them; substituting one must
make a named property fail, which shows that the property depends on the code.

## 3. Cards and sessions

### State and actions

`cards`, `sessions` and `blacklist` are the tables: functions from codes and
tokens to rows, or `NoCard` and `NoSession`. `saving` holds, for every
administrator's request in flight, the row it has read and edited and not yet
saved. `answer` is the last answer to a client. `lastGood`, `paid`, `peak` and
`origin` are history: no action reads them, except that issue and extension
stop at the bound `MaxPaid`.

| Action | Code |
|---|---|
| `Activate` | `Service.Activate` in sessions with `SessionService.Activate` of `internal/cards/session.go`, one transaction |
| `HeartbeatRenew`, `HeartbeatRefuse` | `Service.Heartbeat`. On refusal the code deletes the session *and* returns an error, and `RunInTx` rolls the deletion back: `HeartbeatRefuse` leaves the session |
| `Deactivate`, `DeactivateRefuse`, `ForceLogout` | `Service.Deactivate` for clients and for administrators |
| `ValidateBound` | `Service.ValidateBound`; changes nothing but `answer` |
| `CleanupExpired` | the ticker of `startSessionCleanup` and `DeleteExpired` |
| `CreateCard`, `DeleteCard` | creation, batch and import; deletion, which leaves the sessions |
| `ReadForEdit`, `SaveEdit`, `FailEdit` | every edit of a card by the cards and the authorizations features: the read, then the upsert of the whole row (which re-inserts a row deleted meanwhile), or an error instead |
| `BlacklistAdd`, `BlacklistRemove` | the blacklist feature |
| `Restart` | the process ends: tables stay, requests in flight are lost |
| `Tick` | time passes |

Abstractions, each deliberate:

- Time is in **half seconds**. Session columns hold RFC3339 text without
  fractions, so written times are cut to whole seconds (`Sec`), while `time.Now`
  is not: odd instants stand for readings between two whole seconds. An action
  reads the clock once; the code reads it a few times within microseconds.
- Every card is issued for the same `Duration`, every extension is `Extra`.
- `claim` says how the card code in a request relates to the stored one (absent,
  as stored, the same written otherwise, foreign) instead of spelling it.
- A refused activation changes nothing and is not an action.
- Limits are at least 1: the handlers clamp or reject anything less.
- Bulk operations are sequences of single edits, as they are in the code.
- A token may be used again after its session is gone, which admits more
  behaviours than the random tokens of the code.
- `UnbindOnExit` is `{FALSE}` in every run: no handler sets
  `DeactivateInput.Unbind`. The branch is modelled (`Released`), and the type
  and the seat and refusal theorems are proved with it.

### Properties

- `RefusalEndsSessions`: a session never outlives by more than the TTL the last
  instant at which its card would have passed a heartbeat. It is what makes
  disabling, archiving, expiring or deleting a card effective although none of
  them touches the sessions. It needs every path that writes a session expiry to
  check the card first, and breaks if one does not.
- `SeatsWithinLimit`: renewable sessions never exceed the largest limit the card
  ever had (lowering a limit ends no session, so the current limit is no bound).
- `SessionsAreLeases` (refinement): every step of the model, seen as the cards and
  expiries of the sessions, the cards that pass a heartbeat now, and their limits,
  is a step of `SeatLease`. A session is granted on a card that passes and has
  a seat to spare *now*; renewed only while it runs, on a card that passes, and never
  to an earlier instant; it stays with its card; and what disappears was ended by its
  owner or an administrator, or had run out. In contrast to the two properties
  before it, which bound states, it says which *steps* on sessions there are, and it
  leaves everything about cards open: administrators may change them at any moment.
- `PaidPeriodKept`: for a card issued once and never archived, the period it
  grants stays between the one issued and the one paid for, through activation,
  unbinding (which moves the period back to the issue date), reactivation, and
  stale saves of all of these. The lower bound is the period of issue: an extension
  that a stale save undoes is not noticed.
- `ExpiredSessionsRemoved` (liveness): every expired row is removed, even if its
  card is gone and its client never calls again.
- `TypeOK`.

Three limits of these statements, which come from the code:

- *Archived cards.* `archive_delete` clears `activated_at` without moving
  `expires_at` (`authorizations/service.go:152`). Restoring and activating such
  a card grants again the time between issue and first activation. No
  document says what should happen, so `PaidPeriodKept` excludes archived cards,
  and cards whose code was imported anew after deletion.
- *The exact second.* Activation does not count a session that expires exactly
  now (`After`), a heartbeat still renews it (not `Before`). With a clock reading
  on that very second one session too many survives, and so the seat property
  and the refinement are checked and proved for readings between whole seconds. With
  readings on whole seconds TLC finds `SeatsWithinLimit` violated.
- *Unbinding on exit* would lengthen a period each time it follows an unbinding,
  if a handler offered it: `PaidHolds` assumes that none does, as is the case.

### Runs

| Run | Instance | Shows |
|---|---|---|
| `seats` | 1 card, 2 machines, 2 tokens, limits 1 and 2, 4 instants, 1 administrator editing limit and binding; 206,000 distinct states | `SeatsWithinLimit`, `SessionsAreLeases`, `TypeOK`. Two sessions suffice for a limit of 1 to be exceeded; lowering to 1 with two open, unbinding, deleting and re-creating the card all occur |
| `period` | 1 card, 1 machine, 1 token, 2 administrators editing at once (extend, unbind, expire, archive), deletion, blacklisting; 3 instants | `RefusalEndsSessions`, `PaidPeriodKept`. Two edits in flight are what a lost update needs; a TTL of two seconds and a period of two seconds let sessions and cards expire within the instants |
| `cleanup` | 2 cards, 2 tokens, requests stop at instant 3, `FairSpec` | `ExpiredSessionsRemoved` |
| `heartbeat`, `archived`, `spelling` | the smallest instances with the case | the disagreements of section 7 |

Bounds: `Instants` (the clock readings), `LastRequest` (no request starts
after it), `MaxPaid` (no issue or extension beyond). Symmetry over machines,
tokens and administrators is used in the safety runs, which name none of them;
not in the liveness run. `WithoutAnswer` is a view for runs whose properties do
not depend on the last answer. The proofs do not depend on any bound.

Fairness: only `WF_vars(CleanupExpired)`, because the ticker runs as long as the
server does. Clients, administrators and the clock are not fair: the property
says what happens once a session *is* expired, not that time advances.

### Proofs (`CardSessionsProofs`, `SeatLeaseProofs`)

All for any number of cards, machines, tokens and administrators' requests, any
TTL, and any clock, under the assumptions named in `CardSessions`.

- `TypeCorrect`: `Spec => []TypeOK`.
- `RefusalHolds`: `Spec => []RefusalEndsSessions`. Inductive invariant
  `RefusalInv`: in addition `lastGood` is current (`GoodIsCurrent`), that is, it
  equals `now` for every card that passes now. Without it a heartbeat that
  checks the card at `now` would not bound the expiry it writes. Steps that
  leave sessions alone only raise `lastGood`.
- `PaidHolds` (assuming `UnbindOnExit = {FALSE}`): `Spec =>
  []PaidPeriodKept`. Inductive invariant `PaidInv`: the rows **in flight** satisfy
  the same bounds as the rows stored, with the extension they carry added; all
  rows of a card, stored or in flight, have the same creation instant; and
  periods and activation instants are whole seconds, so that cutting to the
  second commutes with moving the period (`SecShift`).
- `SeatsHold` (assuming that no clock reading is on a whole second): `Spec =>
  []SeatsWithinLimit`. Inductive invariant `SeatsInv`: expiries are whole seconds,
  so that at such a reading *counted* and *renewable* are the same sessions
  (`CountedIsLive`); and a card's limit never exceeds its `peak`.
- `LeasesHold` (same assumption): `Spec => SessionsAreLeases`, in `SeatLeaseProofs`.
  It uses `SeatsInv`, by which the sessions that an activation counts are those that
  `SeatLease` calls running, and one more invariant, `RenewalInv`: no session runs
  beyond what a renewal now would give it, so that renewals never shorten one. It
  rests on the clock's not going back and on the rounding's being monotone
  (`SecIsMonotone`). `LeaseSteps` sorts the actions by what they do to sessions;
  `ActivationGrants`, `HeartbeatRenews`, `EndingEnds` and `CleanupForgets` map each
  kind to its step of `SeatLease`; all other actions leave the sessions alone.

Only model-checked: `ExpiredSessionsRemoved`, as liveness is out of the prover's
reach.

## 4. Script versions

### State and actions

`index` is `index.json`, `file` the content in each `<id>.json`, `legacy`
whether an older server's `active.json` exists. A request, once received, has
read the index (`seen`), computed the new one (`next`), and has a list of writes
`todo`, in the order in which the code makes them; each write is an atomic
rename and one step. `issued`, `created`, `overlapped`, a request's `window` and
`served` are history.

| Action | Code |
|---|---|
| `Create`, `Publish`, `Activate`, `Delete` | the repository's operations up to their first write |
| `Download`, `List` | `GetActive` and other readers; `List` only when its read migrates |
| `WriteLegacyFile`, `WriteMigratedIndex` | what `readIndex` writes for indexes of older servers |
| `StoreFile`, `ArchiveFile`, `ActivateFile`, `WriteNextIndex`, `RemoveFile` | the writes, one by one |
| `Fetch` | the download reads the version's file |
| `Fail`, `Restart` | a write fails and the request ends; the process ends |

Abstractions: a content is a number in order of creation, and the list is a set
ordered by it, since new versions are put first; archiving reads the file and
writes it back in one step; the status inside a version file is left out (the
index decides); Create and Publish read the index twice, and the first read
migrates it, which is represented by a `List` before them.

### Properties

- `OneActiveVersion`: the index, once migrated, has at most one active version
  and it is the one the pointer names (ADR 0005, line 12), under any
  interleaving, failure or restart.
- `ListedIsStored`: at every point, also between writes and after a failure,
  every listed version has its file. This is the point of the order of writes:
  file before index when adding, index before file when deleting.
- `DownloadFindsScript`: a download fails to find the active version only if
  another became active meanwhile.
- `LibraryIsAtomic` (refinement): the index, seen as the identifiers and contents it
  lists and the one that is active, implements `ScriptLibrary`: although an
  operation is several writes that may fail or be cut off anywhere, it changes the
  library at one instant, the write of the index, or not at all; the active version
  is never deleted; and no operation undoes another's effect. A list or a download
  changes nothing, also when it migrates the index of an older server.
- `DeliversActive`: what a download serves is the content of a version active
  while it was served (ADR 0005, line 14).
- `TypeOK`.

`ListedIsStored`, `DownloadFindsScript` and `LibraryIsAtomic` are claimed *as long as
no two requests had writes to do at once* (`overlapped`). The code has no lock, and without that
condition TLC finds: Delete reads the index while a version is archived;
Activate makes that version active; Delete writes its index and removes the
file. The active version then has no file, and downloads fail until another is
published. And of two publications that overlap, the index written last loses the other's
version (`repository.go:147`). The condition still allows downloads, failures and
restarts anywhere.
`OneActiveVersion` and `DeliversActive` need no such condition.

### Runs

- `script_races`: two requests, three identifiers, two new versions, each of the
  three states an older server may have left. Two requests suffice for every
  overlap of one administrator with another or with a client; three versions
  give one active, one archived and one being made. New versions get fresh
  identifiers. Symmetry over requests and the two new identifiers; the view
  `Essential` drops what a request has already used.
- `script_delivery`: one request at a time, and identifiers may clash as they do
  in the code (section 7).

### Proofs (`ScriptVersionsProofs`, `ScriptFilesProofs`, `ScriptLibraryProofs`)

`OneActiveVersionHolds`: `Spec => []OneActiveVersion` for any number of requests
and versions, also when identifiers clash. Inductive invariant `PointerInv`: the
index every request has *read* and the one it is going to *write* have one active
version, too. Since the index is only ever replaced whole by such an index, lost
updates may lose versions but never make two of them active. The lemmas are about
migration and archiving (`MigratedIsSound`, `SeenIsSound`, `ArchivedIsInactive`,
`PublishedIsSound`).

Four more properties are proved in `ScriptFilesProofs`, for any number of
requests and versions, over three more invariants. All but
`DeliveryHolds` hold also when identifiers clash.

- `RequestsInv`: the steps a request has left are in the order of the code
  (`Before`, `Plan`); whatever concerns a version names one; the index that a
  request read, and the one it is going to write, contain the version their
  pointer names; the window of a download holds the version it is to fetch.
  `TypeCorrect` follows: a download has an identifier to look for. The lemmas
  `CreateReads` to `ListReads` show that the six operations have `Intended` in
  common, and `StepsAndEnds` that every step is a request being received, one of
  its steps, or the end of requests; the invariants below are then proved by step
  and not by operation.
- `WritesInv`: as long as writes have not overlapped, one request writes, the
  index still is what it read (`SeenIsCurrent`), it does not write an entry before
  its file (`WritesStored`) and does not remove a file before its entry
  (`RemovesUnlisted`); a download names the active version or has seen two
  (`Finds`). `ListedHolds` and `DownloadHolds` follow.
- `ContentsInv`: there is a function from identifiers to contents that all
  indexes, files and requests agree with; a creation extends it to a new
  identifier. `DeliveryHolds` (`~SameSecond => ...`) follows: overlapping requests
  may lose a version, but nobody is ever served another version's content. Without
  the condition it is false (`script_delivery`).

`LibraryHolds` (`ScriptLibraryProofs`): `Spec => LibraryIsAtomic`, also when
identifiers clash. The invariant `Changes` says that the index a request is going to
write is the one it has *read* with one operation of the library done to it;
`WritesInv` says that what it has read still is the index (`SeenIsCurrent`). So
the write of the index is one operation on the library as it is, and no other
write changes it (`LibraryStep`). The lemmas `CreateIsOne` and its like show what the
four operations compute; `ArchivedPairs`, that archiving loses nothing.

## 5. The client's session

### State and actions

`alive`, `issued` and `over` are the server's side: which sessions have a row
(and so a seat), the tokens given out, the cards whose period has ended. `saved`
and `pending` are what `QSettings` keeps. `controller` and `window` are the
members of the two objects, `request` the requests in flight with what they have
found, `flush` the worker that sends the queued deactivations. `late` and
`spilled` are history.

A request is three steps: it is sent by a handler; it is served, rejected or
lost; its continuation runs in the window's thread. Between the first and the
last any handler may run. That is where the difficulty is: the continuations
read `m_sessionToken` and `m_state` anew.

| Action | Code |
|---|---|
| `TryRestoreSession`, `RestoreDone` | `tryRestoreSession`, 500 ms after the start, and its continuation; `flushPendingDeactivations` at its beginning |
| `EnterCard`, `FillFromClipboard` | the card input, enabled with the button; the clipboard monitor fills it in every two seconds when it is empty and the window not activated |
| `ClickActivate`, `ActivateDone` | `onActivate` with the text of the input, `SessionController::activate`, and the slots of `onActivated`, `onActivationFailed`, `onVersionRejected` |
| `ClickDeactivate` | `onActivate` while activated |
| `PerformHeartbeat`, `HeartbeatDone` | the 55 s timer, `performHeartbeat`; the third failure in a row activates the saved card again (`Reconnect`) |
| `CheckCardExpiry` | the 30 s timer |
| `SendChatMessage`, `ChatDone` | sending to the chat, with the text of the input as the card (`buildChatAuthRequest`); an answer of 401 closes the window |
| `DeactivateDone` | a failed deactivation is queued for the next start |
| `FlushOne`, `FlushEnd` | the worker's loop, and its overwriting of the queue |
| `ServeActivate`, `ServeHeartbeat`, `ServeChat`, `ServeDeactivate`, `Reject` | the server, as section 3 models it in full |
| `LoseRequest`, `LoseAnswer` | a timeout or failure before or after the server has done its part |
| `SessionEnds`, `CardEnds` | what else ends on the server |
| `Restart` | the program ends at any point; pool threads end with it |

`tryRestoreSession`, `resetToInactive` and the signals it emits run to their end
within one handler, as Qt's direct connections do: an action is the whole call
chain.

Abstractions:

- An activation on the server is served in one step (section 3 shows why that is
  what its transaction amounts to); other machines' sessions count as sessions
  of the same tokens.
- The end of a card stands for its time of expiry: the client compares it with
  its clock, which is taken to agree with the server's. A card is not extended.
- `window.input` is the text of the card input. A text that is no card is one of
  `Cards` that has ended from the beginning: the server knows no session of
  either. `button` stands for the button and the input, which `setUiLocked`
  enables together.
- `m_machineID` is set and cleared with the token and has no variable of its own.
- The token in `QSettings` can be decrypted (DPAPI does not fail), and the
  machine's fingerprint is available.
- Update hints and downloads of updates change only whether the window is
  blocked; only the rejection of a version sets it here.
- `Slots` bounds the requests in flight. `Renewable` is the judgement of
  section 3's heartbeat.

### Properties

- `WindowFollowsController`: a usable window shows the session its controller keeps
  alive. The two are changed by different handlers, connected by signals only.
- `SeatsAccounted`: every session with a seat can still be ended or restored by
  the client: it is the controller's, the saved one, queued, or in a request on its
  way. Seats matter because a card with one seat is unusable until a forgotten
  session runs out (four hours).
- `GivenUpForCause`: a session the server would renew ends on the client only by
  the user, the end of the program, the third failed heartbeat in a row, a
  request that the server turned away (signature or machine), or a chat message
  that named another card.
- `DeadSessionNoticed` (liveness): a window does not stay usable on a session that
  the server would not renew. A program that is too old (`blocked`) is left out: it
  may show the session on, with what needs an update disabled.
- `WaitsForRequest`: whoever waits, waits for a request that is under way. A
  heartbeat is sent only while `m_heartbeatInProgress` is false, `activate()`
  starts only outside `Activating`, and the user needs an enabled button; each is
  undone only by some continuation, and the continuations return early in several
  places. It is the safety half of `DeadSessionNoticed` and is claimed of late
  answers too. Only a program that is too old keeps its button disabled (`blocked`).
- `TypeOK`, in which `fails <= 2` says that the counter of failures is always reset.

What the properties exclude, because the code does it:

- *Late answers* (`late`). The continuation of a request handles its answer on the
  controller's present session. If that was replaced while the request was under
  way, the answer ends, or confirms, a session it is not about: a refused
  heartbeat of the old session ends the new one, and so does a 401 of the
  chat; an activation and the restoration that cross do likewise. The properties say
  nothing after such an answer. The user needs some speed for it, or a slow
  network, since requests time out after ten seconds or so.
- *Another card in the input* (`OtherCardNamed`). While the saved session is being
  restored the input is empty and enabled, and the restoration leaves it as it
  is. A card that the user typed there, or the clipboard monitor filled in,
  then goes with every chat message (`impl_chat.h:113`); `ValidateBound` refuses a
  card that is not the session's (`service.go:249`), the handler answers 401, and
  the window ends and deactivates a session that works (`impl_chat.h:569`).
  `GivenUpForCause` names this case as a cause of its own; without it TLC finds the
  behaviour just told.
- *Seats left behind* (`spilled`). The answer to an activation is lost, and the
  client does not know the token; a deactivation is answered with 4xx, 429 among
  them, and not repeated; the program ends while a request is under way; an
  activation replaces a session that still has its seat (after three failed
  heartbeats, or when the user activates within the first half second, before the
  saved session is read); `FlushEnd` overwrites a queue to which something was
  added meanwhile (`session_controller.cpp:109`).
- *Deactivation by the user.* `setUiLocked(false)` disables the button
  (`main_window.h:534`), so that the branch of `onActivate` that deactivates is
  reached only after a later failed activation has enabled it (line 234). The action
  is modelled with that guard, and the design's "explicit logout" (line 200) is
  in effect not offered.

### Runs

| Run | Instance | Shows |
|---|---|---|
| `client` | 1 card with 2 seats, a second one that is only entered (`OnlyEntered`), 2 tokens, 2 requests in flight; 3.36 million distinct states | the four safety properties. The second card is what another text in the input needs; a session of its own would add nothing to the first's, and the proofs cover it. Two tokens are an old session and its successor; two requests are what crosses. `NoneLate` cuts off what follows a late answer, about which nothing is claimed |
| `client_live` | 1 token, 2 requests in flight, `FairSpec`; 570,000 distinct states, those after late answers among them | `DeadSessionNoticed`, `WaitsForRequest` |
| `client_restore` | the same without fairness | the disagreement of section 7 |

Fairness: every request in flight is served or lost and its continuation runs
(WinHTTP has timeouts of 5 and 10 seconds, `http_client.h:95`; the event loop
runs). `SF_vars(PerformHeartbeat)`: the timer fires every 55 seconds as long as
the program runs, and a tick is dropped only if the guard is false then. Strong
fairness is needed since the bound `Slots` lets other requests keep the heartbeat
from being sent at times, which in the program nothing can: weak fairness would
assume less than the code provides. Nothing else is fair, not even the timer
that checks the card's end.

### Proofs (`ClientSessionProofs`)

For any number of cards, tokens, seats and requests in flight. `TypeCorrect`,
`WindowFollows`, `SeatsKept` and `SessionsGivenUpForCause`, all from one inductive
invariant, and `WaitsHold`. The inductive invariant:

- `RequestsInv`: what each request in flight has *found* stays true until it is
  handled: a granted session is on the card asked for or has ended; a refused
  session has ended, or its card has, or it was a chat message with another card; a
  dropped deactivation is recorded. It
  rests on `Forward`: sessions only end, tokens are only issued, cards only
  expire.
- `IssuedInv`: tokens come from the server, so that a new one is in nobody's list.
- `FlushInv`: what the worker has read is still in the file, and what of it has a
  seat is still to be sent or kept.
- `SavedInv`: the controller's session is the saved one. It is why a restart, or an
  activation that fails, forgets nothing.
- `WindowInv`: until a late answer, the window is activated *if and only if* the
  controller is active, with the same token. `WindowFollowsController` needs the
  other direction too, for the handlers that close only one of them.
- `SeatsAccounted` itself.

The proof of a step goes by what the step touches (the outside, a handler of the
window, the worker, a restart).

`WaitsForRequest` is inductive relative to that invariant. A request leaves its slot only
by its own continuation (`SlotKeeps`, `SendKeeps`), so what waits for another one is
not disturbed. Every continuation of a heartbeat clears the flag, and every
continuation of an activation leaves `Activating` and opens, unlocks or blocks the
window; a third failed heartbeat begins to wait anew, together with the activation
it sends. All other steps begin no wait without sending what it is for
(`NoNewWait`). Only model-checked: `DeadSessionNoticed`.

## 6. The chat and its file

### State and actions

`JSONStore` has the file `primary`, its `backup` and the temporary file, and where
`Save` is (`step`). `Save` is a system call at a time: the temporary file is
truncated and filled, the backup removed, the file renamed to the backup, the
temporary file to the file. Each may fail, and the program may end between any
two. `Load` takes a missing file for an empty one, and never looks at the backup.

`ChatService` has the service's members (`nextID`, `messages`, `mutes`), and the
lists that readers last got on their screens. An operation changes the members and
starts a Save of all of them; the mutex is held meanwhile, so that only the
steps of Save, its failure or a restart follow.

| Action | Code |
|---|---|
| `Add`, `AddSystem`, `Delete`, `React`, `Mute` | the operations of `chat.Service` that save |
| `List`, `AdminList` | prune and show, without a save |
| `MuteEnds`, `Age` | time: a mute runs out, a message gets older than a day |
| `SaveGoesOn`, `SaveSucceeds`, `SaveIsLogged` | the steps of Save, its return, its failure, which is only logged |
| `Restart` | the program ends and `NewService` loads |

Abstractions: `post`, a message's place in the order of creation, stands for its
time; nicknames, replies, presence, the users of a reaction and the sending
interval are left out; so are power failures (nothing calls fsync, and a file
system may then lose what was written) and errors of `Load` other than a missing
file; an author is not muted again after a mute ended (bound).

### Properties

- `SaveIsAtomic` (refinement): the files implement `AtomicRegister`, with the value
  read as *the file, or the backup if there is no file*. Save is atomic for such a
  reader at every step, whatever fails. That the store's own `Load` is not
  such a reader is the gap: `docs/architecture/server-module-map.md:43` speaks of
  "atomic JSON files", and between the two renames (`storage.go:52`) they are not.
- `NumberNamesMessage`: a message number that is on a screen names that message in
  the service, or none. Readers delete, answer and react by number, and their
  screens may be old. It needs numbers never to be given twice, across restarts and
  after the messages that bore them have been pruned.
- `DecisionsLast`: a deletion or mute that was answered with success is in force.
- `MessagesLast`: a message whose sender was answered with success is in the service
  until it is older than a day or `MaxMessages` have been posted after it. The file is
  not what the members are: lists prune without saving, so that a restart brings
  pruned messages back, and these must not push out one that should still be there.
- `TypeOK`: also that neither the file nor the backup is ever half written.

The second to the fourth are claimed until the service has been started on a file that
misses an answered operation (`damaged`): the last Save had failed, or the
program ended between the renames. Both happen in the code and in the model; TLC
explores up to there (`Undamaged`).

### Run and proofs

`chat`: one author, the administrator's screen, three posts, a list of at most two
messages; 2.1 million distinct states. Three posts and a list of two make pruning
by size happen, and ageing empties the list; a pruned message, a restart and a
new post are what the reuse of a number needs.

`ChatServiceProofs` proves all five for any number of authors, screens and
messages and any size of the list: `TypeCorrect`, `NumbersHold`,
`DecisionsHold`, `MessagesHold`, `StoreImplementsRegister`. The inductive invariant has three
parts: `StoreInv` ties `step` to what the files hold; `ListsInv` says that numbers
and places are given once and lie below the next, in memory and in both files;
`PromisesInv` says that whatever has been shown or answered is kept by the members
*and* by the file that `Load` would read (`FileKeeps`), and that between two
operations the two are the same but for pruned messages (`FileIsService`).

`MessagesHold` adds `HeldInv`: the members *and* the file that `Load` would read have
every answered message but those too old or pushed out. What it needs of pruning is
`PruneKeeps`: if fewer than `MaxMessages` were posted after a message that is young
enough, `Prune` keeps it, because the records that come after it in a sound list map one
to one into the places after its own (`FS_Injection`, the pigeonhole argument). A
message that is deleted stays in the list and keeps its place.

## 7. Where code and documents disagree

Each is a run that must find a violation.

1. `heartbeat`: the migration plan (line 554) has a heartbeat delete a session it
   refuses. The code deletes it inside a transaction that it then makes fail, so
   that the row stays until the cleanup task. Seats are not affected for long,
   since the session is not renewed.
2. `archived`: the authorization design (line 301) wants archived cards refused
   by session validation. `ValidateBound` has its own list of statuses, without
   `archived`.
3. `spelling`: the migration plan (line 550) wants codes normalised on card
   comparison. `Deactivate` compares raw strings, so a client that names its card
   without dashes keeps the seat occupied until the session expires.
4. `script_delivery`: identifiers have the resolution of a second (the `000` in
   the layout of `generateID` is literal), and the check for duplicates runs
   before the default version is chosen. A draft saved in the second of a
   publication overwrites the published content and is served, against ADR 0005.

5. `client_restore`: the design of the session controller (line 191) has a failed
   restoration clear the saved session and emit `onSessionExpired`. The code calls
   `resetToInactive`, which returns at once because the state is still `Inactive`
   while a session is being restored. The next start tries the same session again.

Not a run of its own: the module map calls the files of the store atomic (section 6).

## 8. Not modelled

- *Code that has no state of its own to get wrong, or none that this repository
  defines*: signatures, encryption, fingerprints, DLL packing, HTML, logging, the
  cut-over proxy. The client's hook runtime and its protections work on another
  process, and what they do is decided there.
- *Third-party code.* By far the largest part of the C and C++ lines here are the
  CEF and Chromium headers under `src/cef` and `src/chromium` and the vendored
  hooking library; they declare interfaces of other programs. The program's own
  C++ is the client, of which the session is the part with a protocol; most of
  the rest is layout and Windows calls. The core logic of the system is the Go
  server.
- *The Java server* repeats the rules of the Go server (its heartbeat, for one,
  refuses without deleting, which is what `HeartbeatRefuse` does); the models
  do not claim anything of it.
- *Not modelled yet*: payloads, agents and invitations, releases, announcements,
  administrators, nonces, rate limiter, exam records. Their hazards are listed in
  `PROJECT.json`.

## 9. Plan

Done: cards and sessions with blacklist and edits, as leases of seats; script versions,
as a library with atomic operations; the JSON store and the chat; the client's session.

Left, in this order:

1. Payloads on top of `JSONStore`: the active version and its file.
2. `AgentQuota`: invitations and daily limits with check and creation apart.
3. `Administrators`: login saving the row it read, last active owner.
4. `Releases`, composed with `ScriptVersions`: a release pins a version that
   stays available; concurrent status changes.
5. `ClientSession` composed with `SeatLease` in place of its own server, now that
   `CardSessions` is known to implement it.

## 10. How to run

In this directory:

    tlc -workers 2 -config CardSessions_seats.cfg MCCardSessions.tla
    tlapm CardSessionsProofs.tla

`PROJECT.json` lists each run with its module, configuration and expected
outcome. The largest, `client`, `client_live` and
`chat`, take two to three minutes.
