# GatherEase: a verification development

TLA+ models of the GatherEase backend (FastAPI, SQLAlchemy, PostgreSQL), TLC runs over
small instances of them, and TLAPS proofs of what matters most for every instance.

GatherEase organises home gatherings. One process image serves REST handlers and one
WebSocket endpoint; all durable state is in PostgreSQL. Every request is an asyncio task
with its own session and transaction, so the questions worth asking are about what
several tasks, in one worker process or in two, do to the same rows between their awaits.

## 1. Inventory

Paths are relative to `src/`.

| Component | State it keeps | Operations | What is hard | What makes it correct |
|---|---|---|---|---|
| **Budget service** `app/api/v1/budget/service.py` | `budgets` row (one per gathering, `version`), `budget_entries` | `get_budget`, `set_budget`, `add_entry`, `delete_entry`; each creates the row lazily | lazy creation race, read-modify-write of an ORM object, update waits on a row lock, failure after the flush, deletion of the gathering | no expense lost, doubled, resurrected or shown before commit; one row per gathering; a failed request leaves no trace; everyone is answered |
| **Real-time sync** `app/api/v1/budget/router.py` | `ConnectionManager._rooms` of each process | `connect`, `disconnect`, `broadcast`; `budget_websocket` | broadcast before commit, await inside an iteration over a live set, several processes, lost peers, crashes | every connection of the room hears every update, in the order of the commits; no dead connection kept, no live one dropped |
| **Reminders** `app/api/v1/reminders/` | `reminders` row: `is_sent`, text | list, create, update, delete, `dispatch_reminder`, `dispatch_reminder_by_id` | check-then-act on `is_sent`, publish before commit, edit against dispatch, delete against dispatch | sent is for good and was attempted; the event shows the committed row; edits survive; nothing after deletion |
| **SNS publishing** `app/services/sns.py` | cached client | `publish_event`, `publish_reminder_fire` | errors swallowed, retries | never fails a request |
| **Gatherings** `app/api/v1/gatherings/` | `gatherings`, `guest_rsvps`, invite token | create under a free-tier limit of 3, list, get, update, delete, `generate_invite`, guest page, RSVP, guest list | count-then-insert, un-archiving, two invites, cascade delete against child inserts | at most 3 active for a free host; one stable invite link; no orphans |
| **Menus** `app/api/v1/menus/` | `menus`, `dishes` | get menu, add, update, delete dish | the first dish creates the menu, no unique key; two SELECTs for the list | a second menu only where first dishes race; an answered list is complete |
| **Shopping list**, **Prep tasks** `app/api/v1/shopping/`, `prep/` | one table each | list with counters, add, update, delete | update by column against update, delete, deletion of the gathering | an edit is not lost to an edit of another column |
| **Authentication** `app/api/v1/auth/`, `app/services/cognito.py` | `users`, the Cognito pool | register, login, refresh, logout, forgot, reset | two stores no transaction spans, lost answers, unique e-mail | one registration per address; only a failure strands one; a login sees the last password |
| **Tokens, JWKS** `app/core/security.py`, `app/dependencies.py` | `_jwks_cache`, `_jwks_fetched_at` per process | `decode_token`, `get_current_user` | overlapping, late and failing fetches of a cache with a TTL, key rotation | no verdict about a key is older than the TTL |
| **Users** `app/api/v1/users/` | profile, `fcm_token` | update, register device token | an object loaded before another request wrote the row | edits of different columns keep each other |
| **Sessions** `app/db/session.py` | engine, connection pool | `get_db` | pool exhaustion by long-lived WebSockets | commit on success, rollback on error |
| **Errors, i18n** `app/core/exceptions.py`, `i18n.py`, `middleware.py` | context variables of a task | pick a locale, turn an exception into a response | ambient state of concurrent requests; ties and broken weights | an error is told in the language its own request prefers |
| Factory, logging, S3, migrations, infra | none at run time | | | |

Interactions: routers call services through `Depends`; every service uses the request's
session of `get_db`, which commits after the handler returned; the budget router calls the
module-global `manager` between the service and that commit; `GatheringService.delete`
removes the rows of all the other services; a dispatch calls SNS between its flush and its
commit.

`PROJECT.json` lists the components with their status and every hazard with its line.

## 2. Modules

| Module | Models |
|---|---|
| `BudgetLedger` | abstract: expenses change in one atomic step per successful request |
| `BudgetStore` | Budget service over PostgreSQL, one gathering |
| `BudgetStoreProofs` | theorems about `BudgetStore` |
| `BudgetSync` | extends `BudgetStore`: workers, rooms, broadcasts, WebSocket handlers, crashes |
| `BudgetSyncProofs` | theorems about `BudgetSync`, on top of those of `BudgetStore` |
| `Reminders` | reminders and SNS, one gathering |
| `Gatherings` | the gatherings of one host, their links and their guests |
| `RemindersProofs`, `GatheringsProofs` | theorems about `Reminders` and `Gatherings` |
| `Lists` | menus and dishes, shopping items, prep tasks of one gathering |
| `Accounts` | registration, login, password reset, profile and device token of one address, over `users` and Cognito |
| `Tokens` | the cache of Cognito's keys in one worker, with time, rotation and restart |
| `Responses` | the locale of a request and the exception handlers |
| `ListsProofs`, `AccountsProofs`, `TokensProofs`, `ResponsesProofs` | theorems about these |
| `MC*` | the instances TLC checks: symmetry where all members of a set are alike, and the headers of `MCResponses` |

The modules share no variables except where one extends another: requests for different
components meet only in the rows of a gathering, whose deletion (`DeleteGathering`) each
module therefore has as an action of its own.

### BudgetStore

One action is one SQL statement with the Python that runs before the next `await`.
`phase[r]` names the statement a request runs next:

    new -Begin-> load -LoadBudget-> [insert ->] (read | find ->) flush -> read -> reply -> done
                                                                       any error ------> failed

| State | Code |
|---|---|
| `gathering`, `budget`, `entries` | the committed rows; an entry is named after the request that added it |
| `lock`, `draft` | the transaction that has written the `budgets` row and what it wrote |
| `loaded[r]` | the `Budget` object of the session (`expire_on_commit=False`, no autoflush) |
| `response[r]` | the object and the entries `_build_response` paired |

PostgreSQL is READ COMMITTED, since `create_async_engine` is given no isolation level:
`VisibleRow`, `VisibleEntries` and `CanLock` are its rules. Every mutator writes the
`budgets` row in its flush (it increments `version`), so a single lock stands for the
row lock that serialises them. A second `INSERT` waits on the unique index for the first
and then fails (`InsertConflict`). The `UPDATE` is by column: the unit of work names the
columns whose value differs from the loaded object (`WrittenSettings`), and matching no
row is `StaleDataError` (`FlushStale`). `Rollback` is the `except` of `get_db`; `Abort`
is any exception or cancellation at an await. `DeleteGathering` deletes the rows of the
budget in one step once nobody holds them.

### BudgetSync

The REST handlers take the steps of `BudgetStore`; a mutator's `BuildResponse` is
combined with the start of `broadcast`, because nothing is awaited between them, and its
`Commit` waits for the end of the broadcast. `cast[r]` holds the locals of `broadcast`
(the room it iterates over, whom it visited, `dead`). `BroadcastNext` sends to one more
connection; CPython compares the size of the set each time the iterator advances, so
`BroadcastBreak` is the `RuntimeError` of a set that changed size, and a connection that
took another one's place may or may not be visited. `intact` is false once `disconnect`
has deleted the room from the dict: later connections are then in another set.
`seat[c]` is the worker and the path spelling of a connection, hence its room.
`WsConnect` registers before `WsLoadBudget` and `WsLoadEntries` read the snapshot that
`WsPush` sends. `PeerClose` is noticed by `WsDisconnect` (from `receive_text`) or by a
failing send. `Crash` takes a worker's rooms and sockets; its requests are `orphaned`
and PostgreSQL rolls them back.

### Reminders

`rows`, `lock`, `draft` are per reminder. `send` is `dispatch_reminder`, `fire` is
`dispatch_reminder_by_id`, which loads the reminder first and the gathering after it
(`LookUp`). A PATCH that changes nothing emits no `UPDATE` and takes no lock
(`SkipUpdate`). A `DELETE` that matches no row is a warning, an `UPDATE` that matches
none an error. `Publish` comes after the flush and the refresh, before the commit; SNS
may accept the event or not, the request goes on. `before` is a history variable.

### Gatherings

    new -Begin*-> flush -(Insert | Update | Delete)-> [refresh ->] commit -> done
                                                     any error ---------> failed

`create` counts the committed active rows in its first `SELECT` (`WithinLimit`) and
inserts an await later. `update` (of `is_archived`, the column the limit looks at),
`delete` and `invite` load the row and write it after waiting for `lock`; `rsvp` finds
the gathering by its link and inserts a `guest_rsvps` row.

| State | Code |
|---|---|
| `rows`, `guests` | the committed `gatherings` and `guest_rsvps` rows |
| `lock`, `draft` | the transaction that has written a row and what it wrote |
| `loaded[r]` | the `Gathering` object of the session |
| `before`, `reopened` | histories: who was over when a request began; an archived gathering became active again |

A foreign-key check locks the gathering `FOR KEY SHARE`. `invite_token` has a unique
index, so an `UPDATE` of it, like a `DELETE`, locks `FOR UPDATE`, which waits for those
shares and holds new ones up (`CanWrite`, `CanShare`); an `UPDATE` of `is_archived` locks
`FOR NO KEY UPDATE` and does neither. A token is named after the request that drew it,
because `secrets.token_urlsafe(24)` does not repeat. A host starts with at most `Limit`
active gatherings.

Nobody who is waited for waits (`HoldersDoNotWait`), which stands in for liveness here: a
request writes one row and flushes once.

### Lists

    new -Begin*-> menu -> [insert_menu ->] flush -> refresh -> commit -> done      add_dish
                  menu -> read -> commit                                           get_menu
        flush -> refresh -> commit        add_item, add_task
        read -> commit                    get_list, list_tasks
        load -> flush -> [refresh ->] commit           PATCH and DELETE, of any of the three

The three services differ in where a request enters this path and in the menu between a
gathering and its dishes, so `Init` chooses `list`, and each `Begin`, `Load` and `Read`
action is named for its own service.

| State | Code |
|---|---|
| `menus`, `rows` | the committed `menus` rows and the rows of the list |
| `lock`, `draft` | the transaction that has written a row and what it wrote |
| `menu[r]` | the `Menu` object; a menu is named after the request that inserts it, so `menu[r] = r` is one not committed |
| `loaded[r]`, `shown[r]` | the ORM object a PATCH assigns to; what a list answers with |
| `unused`, `before` | ids `uuid4` has not given out; history: who was over when a request began |

A PATCH carries a function from the columns it names to their values
(`model_dump(exclude_none=True)`); `Changed` compares with the loaded object, as the unit
of work does. `SelectMenu`, `NoMenuYet` and `SeveralMenus` are the three outcomes of
`scalar_one_or_none`. One `SELECT` feeds both the shopping list and its
counters, so no counter can disagree with the rows shown.

### Accounts

A behaviour has `local_auth` or not. With it the `users` row is the account; otherwise
`SignUp` changes the pool first, and `InsertUser` and `Commit` the row later. `End` rolls
the row back and leaves the pool alone. Calls of Cognito are synchronous and hence one
action each; that their answer may be lost after they took effect is `SignUpRetried` (the
client's retry meets its own first attempt) and the failing alternative of `ConfirmReset`.
`Confirm` is the user and the e-mail, outside this API. Profile requests carry a token, so
`BeginProfile` asks for an account that can be signed in to; `LoadUser` is the `SELECT` of
`get_current_user` in the same session, whose object the handler then assigns to.

### Tokens

`recent[i]` is a history: the key sets published `i` units of time ago. The code's
instants are kept as ages (`age` of the cache, `asked[t]` of a fetch), so that time has
no bound. `Tick` does not pass the timeout of a running fetch: httpx ends it. (Its
`timeout=5` is per phase of a fetch; that a whole fetch is short against the TTL of one
hour, `2 * FetchTime <= JWKS_TTL`, is an assumption of the module.) `Assign` dates the
cache by the start of the fetch, since `now` is read before the request; `Return` reads
the global again after the client has been closed, an await later.

### Responses

`resolve_locale` is an operator over a sequence of parts of an `Accept-Language` header.
A part is what the parser distinguishes: the language, whether a region follows, the
weight (missing, no number, or tenths) and whether a space stands before `q=`. Python's
stable `sort(key=..., reverse=True)` is `Ranked`: a tag goes to the position one after the
number of tags `Before` it, those of greater weight and the earlier ones of equal weight.
`context`
is what structlog's context variables hold in the task of the connection's present
request; `Arrive` may leave what the previous request bound, because a task may start
with a copy. `Escape` is an exception that passes the middleware before Starlette's
outermost handler answers it.

## 3. Runs

All bounds are the sizes of the constant sets (and, in `tokens`, two small numbers);
nothing else is bounded.

| Run | Instance | Shows |
|---|---|---|
| `budget_store` | 4 requests of any kind, 1 column, 2 values, every request may fail | safety of the store, refinement of `BudgetLedger` |
| `budget_sync` | 2 requests, 2 connections, 1 worker | order of broadcasts, rooms, snapshots, an update is the last word |
| `budget_sync_faults` | 2 requests, 1 connection; 1 request may be cancelled, 1 handler meets an error, 1 worker may crash | refinement of the store by the composition; liveness of requests and rooms |
| `reminders` | 3 requests on one reminder that exists or is created, 2 texts, 2 requests may fail | races of edits, dispatches, deletions; every request answered |
| `gatherings` | 3 requests of any kind on 3 gatherings, limit 2, every request may fail | the limit and the link break only where two requests overlap or a gathering is reopened; guest lists, columns and locks never do |
| `lists` | 3 requests on 2 things with 2 columns, of each of the three lists, every request may fail | second menus come of races only, lists are complete, edits stand |
| `accounts` | 4 requests, 2 values, local and Cognito, every request may fail | one registration, stranded addresses come of failures only, logins and edits see the last writer |
| `tokens` | 2 tasks that serve any number of requests, 2 keys, TTL 2, fetch time 1 | verdicts on keys are within the TTL |
| `responses` | 2 connections, some 1700 headers of up to three parts, every outcome of a request | the locale is the one a reference definition picks; errors are told in it |

Why this is enough: a race of the store is between a holder of the row, one that waits
for it and one that read before; four requests give all of these and one that comes when
they are over, and a DELETE of an entry that is being added and deleted by others. One
column suffices because the properties look at columns one by one. Two creates over the
limit need a gathering more than it, and the third request overlaps neither, one or both.
A second menu needs two requests, and a third sees it or comes between. A lost edit needs
the two columns of two PATCHes and a reader of neither. A registration, a reset, an edit
loaded before it and a login are four requests. A late fetch is late with respect to one
other task; with TTL 2 and fetch time 1 the assumption holds with equality, so the
properties are tight. Three parts are the fewest in which a best one stands between
others. A broadcast is disturbed by one connection while it awaits another, hence two
connections, and two requests give one before and one after; a room of up to four keeps
CPython's set iteration independent of resizes, which larger rooms would add to and which
only raise the same error. The proofs remove the bounds for what they cover. Symmetry is
used in safety runs only.

`CHECK_DEADLOCK FALSE` in every configuration: when all requests have been answered and
all connections are gone, the modelled instance is over. (`tokens` and `responses` go on
for ever; their only disabled states would be those of a modelling error, and each task or
connection can always receive another request.)

Fairness (`budget_sync_faults`, `reminders`): `WF` of the steps a request or a WebSocket
handler takes by itself. asyncio resumes every task whose awaited operation has completed,
PostgreSQL grants a row lock when its holder ends, and uvicorn's ping timeout ends a send
to a peer that stopped reading. Nothing is assumed about arrivals, connections, failures,
crashes or the deletion of the gathering. Weak fairness suffices although a waiting
request is disabled while another one holds the row, because finitely many requests hold
it in turn. `Gatherings`, `Lists` and `Accounts` state no fairness: in each a request
writes one row and flushes once, so who holds a row waits for nobody (in `Gatherings`
foreign keys make this worth a property, `HoldersDoNotWait`).

### Where the code departs from what it says

These have a run of their own that TLC refutes.

| Run | Property | The repository says | The code |
|---|---|---|---|
| `version_lost` | `VersionCountsUpdates` | `models/budget.py:47` "incremented on every budget update" | two updates write the same version |
| `across_workers` | `EveryConnectionHears` | `budget/router.py:166` "all connected clients" | rooms are per process, the image starts two; two spellings of the path separate them the same way |
| `double_dispatch` | `SentOnce` | `reminders/service.py:165` "idempotent" | two dispatches that overlap publish twice |

The models have the following as behaviours too; no property asks for the contrary.

- `test_freemium.py:2` "free tier limited to 3 active gatherings": two creates count
  before either inserts, and PATCH `is_archived = false` does not count. This is why
  `LimitUnlessRaced` has its premises.
- `menu.py:1`, `menus/service.py:48` speak of the one menu of a gathering; after a race
  there are two, and every later request for dishes fails.
- `budget/router.py:165-166`: a connection that joins or leaves while a broadcast awaits
  raises `RuntimeError`, and the update is rolled back after clients were told of it;
  `add_entry` and `delete_entry` broadcast the settings they loaded before they waited;
  a client that connects between a broadcast and its commit keeps the old budget.
- `i18n.py:36`: the 500 of an unhandled exception has no `Content-Language`. `i18n.py:10-13`:
  the step that looks at `preferred_language` does not exist. `"pt; q=0.5"`, with a space,
  is not split.
- `exceptions.py:5`: 404 and 405 of the router, and the errors of `HTTPBearer`, are
  Starlette's and lack the envelope. `exceptions.py:205-219`: a rejected body with `NaN` in
  it makes the handler of 422 fail, which is a 500. `exceptions.py:168-171`:
  `translate(code) or message` never falls back, since an unknown code is its own message.
- A registration whose sign-up was retried or whose INSERT failed leaves an account in
  Cognito with no row: it signs in and finds no profile.

## 4. Proofs

Checked by TLAPS for any sets of requests, columns, values, workers and connections,
from the assumptions named in the modules: the default is a value, the sentinels
(`NoRequest`, `NoRow`, `NoMenu`, `NoKid`, `NoLocale` ...) are not members of the sets they stand beside,
`Canonical` is a spelling, the faulty are a part of all, the gatherings are finitely many
(their number is never used), the limit is a natural number, and two fetches fit into
the TTL.

`BudgetStoreProofs`. The invariant `IInv` strengthens `TypeOK`, `EntriesAreLedger` and
`NoDirtyReads` by
- `SessionOK`: what a session must have loaded to be in its phase;
- `LockOK`: the holder of the row is running and has written, and a mutator that has
  flushed holds it; without it two drafts could exist and a commit could overwrite one;
- `DraftOK`: the draft is the committed state with exactly the holder's change, so a
  commit moves the ledger by one request;
- `RowsOK`: entries need a budget, a budget needs the gathering;
- `TargetsOK`: an entry that a `delete_entry` has found was added by a successful
  request, so a delete in `BudgetLedger` is allowed.

`EntriesAreLedger` is not inductive alone: it says nothing of the draft that the next
commit installs. `StoreTyped`, `LedgerKept`, `ReadsAreCommitted` and `NothingOrphaned`
follow from `IInv`; `StoreImplementsLedger` maps each commit to the operation of
`BudgetLedger`, each rollback to `Fail`, and every other statement to a stutter.

`AnswerInv` adds what the sessions know of versions and settings:
- `VersionOK`: a row that is committed or loaded has a positive version, and a draft over a
  committed row is past 1. Only a fresh row has version 1, so none is put in the place of
  another (`RowCreatedOnce`);
- `AnswerOK`: between its flush and its commit a PUT holds the row it wrote, and what any
  mutator answers is its draft, hence what its commit installs (`AnswersAreCommitted`). For
  POST and DELETE only the expenses are claimed, because the settings they answer with may
  be older than the draft;
- `DraftHasASource`: a column of a draft has a source among the successful PUTs, or is what
  its own PUT asks for. `SettingsHaveASource` says nothing of the draft that a commit
  installs (`SettingsSourced`).

`BudgetSyncProofs`. `SyncStoreStep`: every step of the composition is a step of the store
in which any request may fail, or leaves it alone. Hence `IInv` again
(`SyncStoreInvariant`) and the refinement `SyncImplementsStore`. `BroadcastsKeptApart`
rests on `CastInv`: whatever a client heard of an undecided update came from the present
holder of the row (`HeardOfHolder`), which sends to each connection once and which alone
may broadcast (`SendersMutate`, `LockOK`); so when another request sends, all the client
heard before is decided. It needs no assumption on where the requests run: the order
holds across workers because the lock is in the database.

`RoomInv` has `RoomsAreLiveHandlers` with `LostStayLost`: whoever a broadcast gives up, or
whose handler ended, has lost its peer; so removing the dead of a broadcast never removes a
live connection (`RoomsLive`). `WordInv` puts this together with `CastInv`:
- `AudienceOK`: when a broadcast is over, whoever of its audience still has a peer was
  visited;
- `LastWordOK`: since an undecided update was sent to a connection, that connection has
  heard nothing but a snapshot. The lock keeps other updates away (`CastInv`), and a
  connection joins once, so it is sent one snapshot.

`UpdatesAreLastWord` is these two at the commit. `SnapshotsCommitted` needs no more than
that entries read by a handler were committed, and that commits are for good. `SyncAnswers`
carries `SettingsHaveASource`, `CreatedOnce` and `AnswersWhatItCommits` over to the
composition through `SyncStoreStep`.

`GatheringsProofs`. `IInv` adds to the properties of `Gatherings`:
- `LockOK`: the holder of a row has flushed, and its draft is the committed row with its
  own column changed, so a commit moves one column (`ColumnsKept`) and holders do not wait
  (`NobodyWaitsInTurn`);
- `IdsOK`: nobody else knows the id of a gathering that is not committed;
- `SharingOK`: behind an RSVP that is not committed there is a gathering which nobody is
  about to delete; without it a commit could add a guest to nothing (`GuestListKept`);
- `RoomOK`: a create that has passed the check still finds room, unless the gathering it
  overlaps with succeeded since. This is what makes `LimitUnlessRaced` inductive
  (`LimitKept`, with the cardinality of `Active` from `ActiveStep`);
- `TokensOK`: a link is that of an invite that wrote it, an invited gathering keeps having
  one, and who writes a link began before any other invite of the gathering was over.
  Two different answers are therefore the links of two writers, and neither was over
  when the other began (`LinkKept`).

`RemindersProofs`. `IInv` adds to the safety invariants of `Reminders`:
- `LockOK` and `FlushedOK`: the holder of a reminder has flushed, a dispatch that has
  flushed holds its reminder until it ends, and its draft is the committed row marked as
  sent. So a commit of an edit never unmarks a row and one of a dispatch never changes the
  text (`ColumnsKept`), and what is published is there (`EventsHaveRows`);
- `EventsOK`: until its dispatch ends, an event says what the draft says; the draft is
  then the row (`EventsShowRows`);
- `IdsOK`: nothing was sent of a reminder that is not committed, so its `INSERT` cannot
  unmark it;
- `MarksOK`: a dispatch that succeeded left a marked row or none; `RetriesOK` carries this
  from the check of `is_sent` to whoever arrives later (`RetriesSilent`).

The theorems say nothing of dispatches that overlap: those may publish twice (the run
`double_dispatch`).

`ListsProofs`. `IInv` has, beside what a session must have done to be in its phase:
- `MenuOK`: whoever is about to insert a menu, or has, began before any menu that exists
  was committed. A commit of a menu therefore adds one that overlaps all the others
  (`OneMenuUnlessRaced`); `MenusOnlyRaced` itself says nothing of menus in flight;
- `LockOK`: a draft differs from its row only in columns its holder was asked to change;
- `LastOK`: for each row and column there is one witness `w`, the creation of the row or a
  successful PATCH that no other is newer than, whose value the column has; and every PATCH
  in flight either loaded what the column says now, or drafts its own value, or did not
  begin after `w` was over (`Follows`, `Beats`). Commits move the witness, everything else
  keeps it (`EditsStand`). The subtle case is a PATCH that writes nothing because the
  object it loaded already had the value: it counts as successful, and its value may have
  been overwritten since it loaded.

`Current` is the invariant of what a list shows:
- `PathOK`: which kinds of request and which lists pass through a phase;
- `DishOK`: a committed row is of a committed menu, a draft of one that is committed or its
  own, and a draft over a row keeps its menu;
- `EffectOK`: an add holds its thing until it commits, what was added is there until
  somebody deletes it or the gathering, and what was deleted stays away;
- `ShownOK`: whoever is about to read dishes has found the one menu that holds all the
  dishes added before it began. A `get_menu` that found several has failed, so an answer is
  never of one menu of two (`ListsComplete`).

`AccountsProofs`. `IInv` follows one registration through two stores:
- `SignUpOK`: with Cognito, a registration that is past its sign-up has made the account
  there is, so two are never past it;
- `RowOK`: the row is that of the one registration that succeeded. `LockOK` gives the draft
  of the holder: a new row of its own where there is none, else the old row with one
  column changed;
- `KnownOK`: whoever was refused as a duplicate, signed in, or asks for a profile, met an
  account in whichever store decides.

Hence `OneRegistration` and `StrandedByFailure`, with any number of requests.

`Edited` says who wrote what last:
- `DraftOK`: a draft is the row of the registration, or the row with one column assigned,
  that of its holder;
- `ColumnOK`: each column has a witness, `NoRequest` as long as nobody wrote it, or else a
  successful writer of which no other is younger (`Stands`); an edit in flight that began
  after the witness was over loaded its value, and one that writes nothing asked for it
  (`Follows`). This is `LastOK` of `Lists` without deletions (`EditsStand`);
- `PasswordOK`: so too for the password in the pool, whose witness (`SetBy`) may be a
  registration or a reset that is still under way or has failed, since the pool is not
  rolled back;
- `NobodyOK`: a local reset that commits without a write had found no row, so nobody had
  registered before it began; it is not the last word on any password;
- `LoginOK`: what an answered login rests on. Somebody `Vouches` for the password that was
  let in; a password that was refused is `Outdated`: whoever surely set it may have been
  followed by somebody else. Both name requests by the order of beginnings and ends only,
  so they last once established (`RegularLogins`).

`TokensProofs`. The cache and every answer under way are key sets published within the age
the code gives them (`PublishedWithin`). `Assign` keeps this since the cache is dated by
the start of the fetch. `Return` verifies with whatever is cached
then, which another task may have replaced by an older answer, but one no older than the
longest fetch (`CloseOK`): the age is at most that of the own fetch and one more. This is
the place that needs `2 * FetchTime <= JWKS_TTL`.

`ResponsesProofs`. For the locale, headers of any length: `BeforeIsOrder` makes `Before` a
strict linear order on the tags, so `Position` rises along it (`PositionRises`, by the
cardinality of finite sets), hence is a permutation and `Ranked` is sorted
(`RankedIsSorted`). The first supported tag of a sorted sequence is the preferred
supported one (`LocaleChosen`), and the outcome is a supported locale in any case
(`LocaleIsSupported`). For the errors, `Stage` says of each connection what its task and its
response have at each stage: from the middleware's first lines to the response the context
is that of the present request, whatever the task inherited. `ErrorsInLocale` follows.

Only model-checked is liveness (`EveryRequestEnds`, `ClosedLeavesRoom`): it rests on `WF`
and `ENABLED`, which are out of this prover's reach. Every other property of the runs that
pass is a theorem.

## 5. Left out

- The wording of errors, logging, HTTP details and authentication in front of the
  handlers: a caller that is not the host is `Refuse`.
- Not modelled: avatars in S3 (stateless calls), the application factory apart from the
  order of its handlers, the migrations (run by hand, before deployment; the tables they
  create are what the modules rely on), and the CDK stacks (no behaviour of the program).
- The connection pool. Within its limits sessions share nothing; a request that finds no
  connection fails at its first statement, which every module has as `Abort`.
- Signatures, expiry and local tokens (`Verify` takes any outcome of them); `NaN` weights;
  refresh and logout, which change no state of the program.
- The rules of passwords. (`auth/schemas.py:16-21` and `cognito_stack.py` differ on lower-case
  letters; a password the pool refuses is a failed registration.)
- Amounts: sums over the entries a response shows are functions of that set.
- The order of entries in a response.
- The single DELETEs inside the deletion of a gathering, and PostgreSQL's deadlock
  detection between it and `delete_entry`.
- Whether the framework sends the response before or after `get_db` commits: `done` is
  the commit.
- SNS fan-out and repeated delivery of one attempt. A dispatch that fails after
  publishing loses its mark (`reminders/service.py:205-209`); the model has the step, no
  property asks for the contrary.

## 6. Plan

Done: all components that keep rows, rooms, keys or a locale, and the proofs of their
safety. What a further extension would take up, in order:

1. `Accounts` composed with `Reminders`: which device token a dispatch uses.
2. `SessionPool`: `pool_size + max_overflow` connections, requests and WebSockets.
3. `BudgetStore` with a lock per entry row, for the deletion of a gathering in single
   statements.
