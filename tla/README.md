# A formal model of the VPN control plane

`vpn-backend` is the control plane of a small VPN service: a Go server (Gin, gorm,
PostgreSQL) through which administrators manage VPN users, their devices and access
keys, while an Outline server (the data plane) holds the Shadowsocks credentials that
really let traffic through. Two stores therefore have to agree, PostgreSQL and
Outline, and nothing in the code spans both: no transaction, no lock, no queue, no
reconciliation. The services read a row, make one or more HTTP calls to Outline, and
save the row whole. This project is about what remains true when those steps
interleave, fail half-way, or are repeated.

## 1. Inventory

| Component | State it keeps | Operations | Where it is hard | What makes it correct |
|---|---|---|---|---|
| Access key service (`services/access_key_service.go`) | table `access_keys`; credentials in Outline | Create, Revoke, Rotate, Delete, SweepExpired; GetConfig, GetQRPNG, List only read | read – HTTP calls – save without lock or version; partial failure; lost replies | a revoked row names no working credential; no unseen overwrite; an ended key stays ended; failures lose a bounded number of credentials |
| VPN user service (`services/user_service.go`) | table `vpn_users` (soft delete) | Create, Update, Disable, Delete, SweepExpired; all but the first two through the cascade `revokeAllAccess` | the cascade aborts on its first error; its list is stale; `Save` writes preloaded children | a cascade that succeeds has cut off every key it listed; a disabled user has no access |
| Device service (`services/device_service.go`) | table `vpn_devices` | Update, Delete | whole-row save of a stale status | nothing but a PATCH takes a device out of REVOKED |
| Outline client (`vpn/outline_provider.go`) | none | POST, PUT, DELETE of credentials; 404 is an error | timeouts after the effect | – (environment of the above) |
| Expiration sweep, server lifecycle (`cmd/server/main.go`) | ticker | user sweep, then key sweep, every five minutes; shutdown | runs beside requests; aborts on the first error | what has expired ends in the end, once requests leave it alone |
| Admin login, sessions (`services/auth_service.go`, `auth/session.go`) | table `admins`, stateless tokens | LoginWithGoogle, Issue, Verify | login saves the whole row it read | login changes no role or status (it does: finding 4); nobody comes to power by one who was not in it |
| Admin management, authorisation (`services/admin_service.go`, `middleware/auth.go`) | table `admins` | PATCH behind RequireAuth and RequireRole | check, read and save are apart | only an ACTIVE ADMIN, at the time of the check, changes administrators |
| Google ID-token verifier (`auth/google.go`) | cache of signing keys | look-up, refresh without the lock, replacement | two refreshes finish in the wrong order | a withdrawn key is not trusted for long |
| Migrations (`database/migrate.go`) | `schema_migrations`, the schema | Migrate at start-up | overlapping instances, crash between migrations | the schema is always that of a release; nobody serves without its migrations; re-runs succeed |
| Server service (`services/server_service.go`) | `vpn_servers`, `server_metrics` | Create, Update, Delete, Health | whole-row saves of stale copies; deletion against key creation and against saves that re-insert keys | a deleted key or server comes back by no sweep, cascade or rotation; only a PATCH changes a server |
| Rate limiter (`middleware/ratelimit.go`) | map from client IPs to token buckets | limiterFor, Allow, cleanup every ten minutes | the token is taken outside the mutex; the cleanup drops busy buckets too | a bounded number of admissions between cleanups; clients do not share tokens |
| Pagination (`repositories.go`, `handlers/helpers.go`, the `List` methods) | none | parse, normalize, COUNT, SELECT, metadata | two statements without a transaction; offsets shift under the reader; `ORDER BY created_at` leaves ties open; two computations of the page size; int arithmetic | a walk through the pages sees every row without ties and has no gap; page and metadata agree |
| Audit log, usage reports, client configuration, QR, secret box, metrics, configuration | append-only or none | formatting, I/O | – | not modelled, see section 6 |

How they interact: handlers call services in their own goroutines; services share the
tables through repositories and Outline through one client; the sweep calls the same
services from its goroutine; every admin route passes RequireAuth, which re-reads the
administrator; every request passes the rate limiter, a login then the verifier. There are no callbacks and no
messages: interleaving happens through the shared tables, the data plane, and the two maps kept in
memory (signing keys, rate limiters).

## 2. Modules

```
Backend            state shared by all processes: tables, Outline, clock, local variables
  AccessKeyService   the access-key operations, call by call
    UserService        users, devices, cascade, user sweep
    ServerService      servers
      ControlPlane       extends both services: all processes, failures, crashes, time,
                         fairness, properties
        MCControlPlane     symmetry for TLC
        TypeProofs, KeyProofs, StoreProofs
KeyLifecycle       abstract specification of one access key (instantiated in ControlPlane)
AdminAuth          administrators, logins, sessions, PATCH     MCAdminAuth, AdminProofs
GoogleVerifier     the cache of signing keys                   MCGoogleVerifier, VerifierProofs
Migrations         the migration runner                        MigrationProofs
SchemaVersion      abstract specification of the migrations (instantiated in Migrations)
RateLimiter        the rate limiter                            MCRateLimiter, RateProofs
Pagination         the list endpoints                          MCPagination, PageProofs
```

### The control plane

Each request handler and the sweep is a process. `pc[p]` names the call it makes next,
`op[p]` the service function it runs; `snap`, `urows` and `drows` are the rows it has
read into local structs (`srows` the servers), `todo` the listed keys whose credential it has still to
revoke, `cur` the key between its DELETE and its Save, `new` the credential returned by
a POST. One gorm call or one HTTP call is one step; anything may happen between two.

| Code | Actions |
|---|---|
| `AccessKeyService.Create` | CreateKey, PostAccepted / PostReplyLost, LabelKey, InsertKey / InsertRejected, Cleanup |
| `Revoke`, `Rotate`, `Delete` | GetKey, RevokeAccepted / RevokeNotFound / RevokeReplyLost, (Post…, LabelKey), SaveKey / DropKey |
| `AccessKeyService.SweepExpired` | FindExpiredKeys, the revoke and save steps, KeySweepDone |
| `UserService.Create`, `Update`, `Disable`, `Delete` | CreateUser; GetUser, PreloadKeys, PreloadServers, PreloadDevices, SaveUser / SaveUserRejected, and the cascade, DeleteUser |
| `revokeAllAccess` | ListKeys, the revoke and save steps, ListDevices, SaveDevice, CascadeDone |
| `UserService.SweepExpired` | FindExpiredUsers, NextUser, SaveUser and the cascade, UserSweepDone |
| `DeviceService.Update`, `Delete` | GetDevice, PutDevice; DeleteDevice |
| `ServerService.Create`, `Update`, `Delete` | CreateServer; GetServer, PutServer; DeleteServer |
| an error at any call | Fail (no effect) or the ReplyLost actions (effect, then error) |
| panic, kill, shutdown deadline | Crash |

Decisions worth knowing:

* A credential is an opaque member of `Refs`. Outline never gives an id twice; in the
  model an id that is not working and that no row and no request names any more is given
  again (`Fresh`). Nobody can tell it from a new one, and requests may go on for ever
  with a finite pool, which matters for liveness. A row of
  `access_keys` keeps owner, server, secret reference, status and expiry. Names, ports,
  ciphers, traffic limits and encrypted secrets are left out: no decision reads them.
  The PUTs that set the name and the data limit, encryption and the random WebSocket
  paths are the step LabelKey, whose failure (Fail) loses the new credential.
* `doJSON` turns every status outside 2xx into an error, a 404 included. That 404 is
  the only synchronisation between requests, see section 5.
* gorm's `Save` is modelled by what it does: it writes all columns; it inserts the row
  if it has vanished; and with preloaded has-many children it inserts the children that
  have vanished and leaves the others alone (`Reinsert`, external). The same happens one
  level down and in the Saves of Revoke, Rotate and the cascade: a key saved with its
  server loaded inserts the server if it has vanished and leaves it alone otherwise
  (SaveKey, SaveUser; the sweep's keys come without server). `vpn_users` rows are never
  removed, only soft-deleted.
* A Save whose UPDATE finds no row goes on to an INSERT ... ON CONFLICT in a transaction
  of its own; both are one step here. For a key the second never comes: NoLostUpdate
  says that the row is there. A server or device that somebody inserts between the two
  is overwritten by the second, as by the one step. For a user it comes when the row was
  soft-deleted meanwhile; the vanished children are then inserted by the first and the
  user's row written by the second. In the state between them, which the model
  leaves out, the children are back and the user is still deleted. The properties that
  hold do not tell: re-inserted keys are dead either way, and what is said of keys,
  devices and servers does not read the user's row.
* `access_keys.vpn_server_id` is a foreign key with ON DELETE RESTRICT: DeleteServer
  needs a server without keys, InsertKey a server that is there, the Save of a key one that
  is there or comes with it (ServerThere), and the Save of a user
  that would re-insert a key without its server fails as a whole (SaveUserRejected).
  VPNUserRepository.FindByID loads the user, its keys, their servers and its devices in
  separate statements (GetUser and the three Preload steps), so a server may be gone when
  its turn comes. The look-ups of a single key and of a cascade's keys (GetKey, ListKeys)
  read keys and servers in one step: whoever saves such a key holds its row, so that its
  server is still there and the copy of it is not used.
* Rotate passes `key.Server.TLSPort` to Outline. The pointer is nil only if the server
  was deleted between two statements of the look-up, hence the key too; the panic that follows
  ends the request as RevokeNotFound does.
* A request that is refused before it changes anything (unknown id, invalid body, role)
  is not a step. A request to delete a device is one step; the row it checks first is
  not used.
* The order in which a cascade or sweep visits its keys is the database's: any.
* `Crash` stops one process. A crash of the server is a Crash of each in a row, with no
  other step between, so every behaviour of the server is a behaviour of the model.
* No route and no service creates a device; the device table holds any users' devices initially.

### Administrators, verifier, migrations, rate limiter, pages

`AdminAuth`: `FindByGoogleSub`, `SaveProfile`, `Issue` are LoginWithGoogle after the ID
token was accepted; `Authorize`, `Get`, `Update` are PATCH /admins/:id. The check that
RequireAuth and RequireRole make and the row that Update saves are read separately, as
in the code. Name, e-mail, picture and last login are left out.

`GoogleVerifier`: `Verify` and `LookAgain` are the two look-ups of `keyFunc`, `Fetch`,
`FetchFails` and `Install` are `refreshKeys`, which holds the lock only while it replaces the map.
`Fetch` may yield no keys: the status of Google's answer is not checked, and an error in
JSON decodes to an empty list. `Rotate` is Google's. The client's timeout (`FetchTime`)
covers the response and its body. What comes after, decoding and the wait for the write
lock, is bounded by nothing in the code: `LockTime` is an assumption on scheduling.

`Migrations`: `HasTable` and `CreateTable` are AutoMigrate, `Load`, `Apply`, `Conflict`,
`Serve` are the loop. The SQL of a migration creates tables without IF NOT EXISTS, so
applying one twice fails and rolls back. `Start` picks any release: old and new
instances overlap in a deployment.

`RateLimiter`: `LimiterKnown` and `LimiterNew` are limiterFor, under its mutex; `Admit`
and `Refuse` are the call of Allow after the mutex is released, with a limiter that may
have left the map; `Cleanup` is one tick of StartCleanup, at any time (the ticker's period is
not used). The token bucket is the library's: it refills with time up to the burst, and
Allow takes one token or none. Tokens are whole numbers here; Allow reads the clock and takes its
token in one step. Unreachable limiters are used again, as memory is.

`Pagination`: `FromQuery`, `Normalize` and `Meta` are the functions of the code on
integers that wrap at `MaxInt`; `Atoi` ignores the error, so it yields 0 for text and the
nearest int for a number out of range. `Count` and `Find` are the two statements of a
repository's List. `Start` and `Read` are a client that takes pages as long as the
metadata promises more; `Insert` and `Remove` are any other request that makes a row enter or
leave the listing. The statement orders by `created_at`, which is not unique, and has no
second column: `Find` takes any numbering of the rows in which newer ones come first
(`Orderings`), another one each time. A row that shares its `created_at` with another may
therefore be on two pages or on none with nobody writing, and the walk properties are
about the rows that do not (`Untied`). The model is that of `AccessKeyRepository.List`;
the other List methods differ in filters and preloads only.

Operators whose comment starts with "Mutant of" are not part of any specification. Each
is a plausible bug in the code the named definition models; PROJECT.json pairs it with
the property that detects it.

## 3. Runs

| Run | Config | Shows |
|---|---|---|
| keys | MCKeys | two requests on two keys and their owner, two failures: TypeOK, RevokedIsDead, NoLostUpdate, CascadeRevokesListed, LossBoundedByFaults, GhostsHaveCause, the inductive invariant Safe; refinement of KeyLifecycle |
| stale_saves | MCStaleSaves | saves of users, keys, devices and servers from stale copies, servers created and deleted: EndedForGood, OnlyUserSaveReinserts, OnlyPatchUnrevokes, OnlyPatchChangesServer, OnlyUpdateRevives |
| expiry | MCExpiry | without failures, and unless requests delete credentials for ever, expired keys end (KeyExpiryEnforced, liveness), with Safe and GhostsHaveCause for the sweep |
| lockout | MCLockout | OnlyLateLoginRestores: after the last ACTIVE ADMIN is gone only a login that had read its row before brings one back; TypeOK |
| verifier | MCGoogleVerifier | WithdrawnKeyExpires: cache duration, one timeout and LockTime bound the trust in a withdrawn key |
| migrations | MCMigrations | PrefixApplied, ServingComplete, and AllServe (liveness); refinement of SchemaVersion |
| ratelimit | MCRateLimiter | RateBounded, BurstKept, and Accounted, the inductive invariant of the proofs |
| pages | MCPagination | WalkSeesAll, WalkHasNoGap, NoRowTwice, ReplyConsistent, PageFull, and Walk, the inductive invariant of the proofs |
| create_for_disabled | MCDisable | violated: DisabledHasNoKey |
| poisoned_sweep | MCPoisonedSweep | violated: KeyExpiryEnforced after one lost reply |
| user_sweep | MCUserSweep | violated: UserExpiryEnforced, without any failure |
| admin_race | MCAdminRace | violated: OnlyPatchChanges |

GhostsHaveCause is about *ghosts*: ACTIVE rows whose credential is gone. Revoke, Rotate,
Delete, cascades and sweeps all start with a DELETE at Outline, which answers 404 for
ever, so such a row can be removed only by hand. The property says where ghosts come
from: a failure between the two stores, or the Save of a user that re-inserts a key
deleted meanwhile; interleaving alone makes none. Run expiry shows that
without either cause the sweep gets through in the end, on one condition that the code
does not enforce: requests stop deleting credentials. A Rotate, Revoke or Delete between
the sweep's list and its DELETE makes the sweep abort with a 404, and if there is one for
every sweep, an expired key is never reached; a Rotate even gives an expired key a new
credential. TLC finds that behaviour when the condition (`RequestEndsCredential` only
finitely often) is taken out of KeyExpiryEnforced. Run poisoned_sweep violates the
property with the condition.

### Findings

The violated runs show disagreements between the code and its own comments or README:

1. *Disable* promises that the user "must lose VPN access immediately", but Create never
   looks at the user: a key made during or after Disable works.
2. One DELETE whose reply is lost leaves a ghost. The sweep returns on Outline's 404,
   and keys behind it never expire. A failed Save after the DELETE, or an Update of the
   owner that re-inserts a deleted key, does the same.
3. The user sweep marks a user EXPIRED before the cascade. When the cascade aborts, for
   instance because an administrator revokes one of the keys at that moment, no later
   sweep selects the user again.
4. A login that read its row before the administrator was disabled or demoted writes the
   old role and status back, against "disabling an admin takes effect immediately".

Met while modelling, without a violated run of their own:

* The cascade asks for 1000 devices and gets at most 200 (`Pagination.normalize`); older
  ones stay unrevoked. `DevicePage` models it. No code creates devices.
* StartCleanup's comment says that it "drops idle per-IP limiters"; the code drops
  all of them. RateBounded is stated for the code: the bound starts anew with each cleanup,
  and `late` counts requests that were caught with an old limiter in hand.
* With `page_size` above 200 the metadata promises fewer pages than there are, since
  `metaFromPagination` knows no cap: a client that follows it stops early. `openapi.yaml`
  gives 200 as the maximum, but nothing rejects more. A `page_size` near the largest int
  makes `total_pages` zero or negative; a huge `page` makes the offset negative, which gorm
  leaves out, and the reply is the first page. These are the preconditions of
  WalkSeesAll and ReplyConsistent; WalkHasNoGap and NoRowTwice hold for every size: such a
  walk stops early, but it skips and repeats nothing.
* `ORDER BY created_at DESC` has no tie-breaker. Without the restriction to untied rows
  TLC finds walks that miss a row, or return one twice, in a table nobody writes to.
* A row added between COUNT and SELECT of the last page, or removed during the walk, makes a
  walk miss rows that were there all the time. Both are excluded in WalkSeesAll, and each
  exclusion is needed, as is the one of ties.
* An Update of a user writes back the whole row it read: one that overlaps Disable, Delete
  or the sweep restores the old status and undoes the soft delete. OnlyUpdateRevives says
  that this is the one way back: no cascade, sweep or deletion revives a user.
* No code writes `traffic_used_bytes` or the bandwidth columns, so usage reports are zero.

### Bounds

`MaxTime`, `MaxFaults` and the pools (`RefsSuffice`, `KeysSuffice`: a request that needs
a fresh credential or UUID starts only if one is left for it; UUIDs are used up, credentials come back, see `Fresh`) are guards. Two keys are needed to
let one key's error hide another's; three credentials let a key be rotated while another
is created; two handlers, or a handler and the sweep, are the two concurrent writers of one row that
the races take; the proofs cover more. Time has two values, before and after an expiry. Two failures
are enough for a failure during the handling of the first, and for LossBoundedByFaults to
count. `PageCap` stands for the code's 200. For the verifier
the clock runs past a full cache duration, a timeout and the wait for the lock; the bound of
WithdrawnKeyExpires is tight: with one unit less TLC finds a counterexample. For the rate
limiter two requests let one hold the old and one the new limiter, four limiter objects
are as many as can be reachable at a time, and a burst of 2 at rate 1 over three units
lets a bucket fill, empty and refill. For the pages, four rows, the first two with the same
`created_at`, a cap of 2 and a requested size of 3 make walks of several pages within and
above the cap, and put a tie across a page boundary; `MaxInt = 31` is small enough for offsets and page
counts to wrap, and the input 99 is out of range. Three
instances and two releases let one instance lose a race against two others and meet a
schema newer than its own. The theorems of section 5 hold for all values.

Deadlock checking is off where the model may come to rest: no sweep in `Ops`, so requests end
and pools are used up; all instances serving.

### Fairness

`FairSpec` asks for weak fairness of each process's next step (goroutines are
scheduled; Outline calls end by the client's timeout), of the start of a sweep (the
ticker never stops) and of the clock. Requests need never come. Failures and crashes are
never fair. In `Migrations` each instance proceeds and is restarted after an exit, which
is `restart: unless-stopped` in docker-compose.yml.

## 4. The abstract specification

`KeyLifecycle` says of each access key: new, then working, then ended, each step once.
`Phase` maps the control plane to it: a key is *ended* when its row names no working
credential and no process is between the DELETE of its old credential and the record of
a new one. `ImplementsLifecycle` is checked in run keys, failures included, and proved: a
key in rotation whose POST fails ends, it does not hang between.

`SchemaVersion` says of the migrations that the schema has a version, which grows by one
at a time, and that nobody relies on a version that has not been reached. The mapping:
`version` is the newest migration in force, `needs` the newest one that an instance now
serving ships. `ImplementsVersion` is checked in run migrations and proved; a conflict,
and whatever an instance does before it serves except Apply, is a stutter.

## 5. What is proved

TLAPS checks these for every number of users, keys, credentials, devices, servers,
handlers, clients and failures.

| Theorem | States |
|---|---|
| TypeProofs!TypeCorrect | `Spec => []TypeOK` |
| KeyProofs!SafeAlways | `Spec => []Safe`, the inductive invariant |
| KeyProofs!RevokedIsDeadAlways | no credential works under a REVOKED or EXPIRED row |
| KeyProofs!NoLostUpdateAlways | no unlocked Save overwrites an unseen change |
| KeyProofs!CascadeRevokesListedAlways | a cascade that reaches the devices has ended each listed key |
| KeyProofs!EndedForGoodAlways | a key recorded as ended is dead, and no request holds a credential for it |
| KeyProofs!LifecycleImplemented | `Spec => ImplementsLifecycle`, the refinement |
| KeyProofs!RevocationFinal | an ended key never works again (temporal) |
| KeyProofs!CascadeFinal | a key that a cascade has ended never works again (temporal) |
| StoreProofs!OnlyUserSaveReinsertsAlways | deleted keys and servers come back only with an owner, or by the server's own PATCH (action property) |
| StoreProofs!OnlyPatchChangesServerAlways, OnlyPatchUnrevokesAlways | only its own PATCH changes a server that is there, or takes a device out of REVOKED (action properties) |
| StoreProofs!LossBounded | each failure loses at most one working credential |
| StoreProofs!GhostsAlwaysHaveCause | where ACTIVE rows with dead credentials come from (action property) |
| StoreProofs!OnlyUpdateRevivesAlways | only an Update brings back a user that was disabled, expired or deleted (action property) |
| RateProofs!AccountedAlways, RateAlwaysBounded, BurstAlwaysKept | the invariant of the rate limiter, the bound on admissions, and that no client spends another's tokens |
| AdminProofs!AdminTypeCorrect, OnlyLateLoginRestoresAlways | type correctness; who can end a lockout (action property) |
| VerifierProofs!WithdrawnKeyExpiresAlways | the bound on trust in withdrawn keys, given LockTime |
| MigrationProofs!PrefixAlwaysApplied, ServingAlwaysComplete | the schema is that of a release; whoever serves has its migrations |
| MigrationProofs!VersionImplemented | `Spec => ImplementsVersion`, the refinement |
| PageProofs!WalkAlways | the inductive invariant of the pages |
| PageProofs!WalkAlwaysSeesAll, NeverRowTwice | for rows without ties: with a page size within the cap, nothing removed and no insertion between the two statements of its last page, a walk sees every row that was there at its start; it sees none twice while nothing is inserted |
| PageProofs!WalkNeverHasGap | for rows without ties and every page size: what a walk has not returned comes after all of its pages, while nothing is removed |
| PageProofs!ReplyAlwaysConsistent, PageAlwaysFull | metadata and rows of one reply agree; a page before the last is full |

Assumptions are the named ASSUMEs of the modules: `None` differs from all ids and rows,
`Refs` and the requests of the rate limiter are finite, the sweeper is no handler, releases ship 1..n,
rate and burst are natural numbers, a table has finitely many rows, and their number plus the
page cap is below the largest int (`RowsAssumption`; an int has 64 bits). They are evaluated by TLC in every run.

The argument for the keys. None of the properties is inductive, because the code has no
lock. What takes its place is Outline's answer: of all callers that DELETE one
credential exactly one gets a 2xx, and only that caller goes on to write the row. `Safe`
makes this precise:

* *Ownership*: a credential is named by (copies of) one key, or held by the one request
  that made it, never both;
* *FreshCopies*: a copy that names a working credential equals the current row;
* *WritersHold*, *HoldIsExclusive*: whoever is between DELETE and Save has deleted the
  credential its copy names, and is the only one for that key;
* *NoLostUpdate*: while it holds the key, the row is still the one it read;
* *EndedStaysDead*: a key that anybody has read as ended, or that a cascade is done
  with, is dead, so a Save that re-inserts it brings back a row and no access;
* *Control*: which local variables are set at which label.

DELETE preserves FreshCopies because it removes the credential from `live`; Save
preserves NoLostUpdate of others by exclusiveness; re-insertion preserves RevokedIsDead by
EndedStaysDead. The mutant that treats a 404 as success (an idempotent revoke, a natural
"fix" of finding 2) breaks NoLostUpdate, ImplementsLifecycle, EndedForGood and OnlyUserSaveReinserts:
that change needs a lock or a version column with it.

The refinement follows from the same invariant, one lemma per kind of step: a step
either leaves a key's phase alone, or issues it (InsertKey), or ends it (the DELETE that
nobody follows up, the Save, the failure). That a dead key stays dead rests on
EndedStaysDead and on FreshCopies.

OnlyUserSaveReinserts needs `Safe` and the foreign key: whoever is about to save a key
finds the row it read (NoLostUpdate), so its Save inserts no key, and the row has kept its
server (`KeysHaveServers`, an invariant of the proof only, since the database enforces it),
so its Save inserts no server. Ids in `minted` and `opened` were given out before, which
excludes Create. What is left is the Save of a user and the PATCH of a server.

LossBounded compares, step by step, the set of lost credentials with the count of
failures: a step without a failure adds none, a failure at most the one credential its
process holds or has just been given. The set is finite because `Refs` is.

A ghost needs a row, its credential or its holder to go away. The DELETE that
succeeds makes its caller the holder, a holder that goes on writes the outcome, and one
that does not has failed; Ownership keeps the steps on other keys apart.

OnlyPatchChangesServer needs one more invariant, ServersOpened: whatever UUID the table or
a request knows was given to a server before, so CreateServer overwrites none.

RateBounded is not inductive, for the requests that hold a limiter no longer in the map
are to come yet. `Budget` adds them and the tokens left to the admissions; `OneOwner`
says that a token taken is charged to the right client. Time adds Rate to both sides, a
cleanup turns the requests in flight into stragglers and counts them in `late`.

The verifier's invariant bounds, for each fetched set still in flight, how long ago
Google served it, and the cache's expiry by MaxAge from its installation. That a
refresh is installed within LockTime of the timeout is the one assumption it takes. The
migrations' invariant is that records and schema agree and that an instance's list
contains all it ships that is not in force. With it the refinement is short: the schema is
1..n for some n, an Apply that succeeds is the migration n + 1, and every other step leaves
the schema alone.

CascadeFinal joins two facts: a key that a cascade went past is dead (EndedStaysDead), and no
step revives a dead key. OnlyUpdateRevives goes through the writers of `vpn_users`: the
Saves of Disable and the sweep carry DISABLED or EXPIRED, Delete sets the mark, Create takes a
fresh id, so the step is the Save of an Update and its copy says ACTIVE.

The pages need facts about ordering and about arithmetic first. ORDER BY numbers the rows
0..n-1 without gaps, so a page has as many rows as numbers between its two offsets, whoever
they are. In every ordering the rows newer than a row come before it, and nothing else does
if it has no ties: its number is `Newer`, the same in each statement, and it is on a
page exactly if that lies between the offsets. `Meta` rounds up in arithmetic that wraps; where the
sum overflows the count it promises is not positive, so a walk never goes on because of it.
`Walk` then says what an offset means: while nothing is inserted, all rows already seen come
before it; while nothing is removed, all untied rows not yet seen come after it; and a page
that leaves old rows unseen is not the last one promised (LastPage). Insertions and removals
shift rows across the offset in one direction each, which is why either half survives one of
them and neither survives both.

Only model-checked: liveness (KeyExpiryEnforced, AllServe). Fairness and ENABLED are
outside the prover.

## 6. Not modelled

* Health samples of the server service: `Health` appends the host's load to
  `server_metrics` and returns it; only reports read the table.
* Usage reports: read-only sums over columns nobody writes.
* The audit log's writes: every caller ignores their errors and no decision reads them. Its
  listing is like that of `Pagination`.
* Client configuration and QR codes: formatting of one row, without state.
* Host metrics (readings of /proc), Prometheus counters, CORS and security headers, configuration,
  request logging: I/O and formatting.
* AES-GCM, JWT and RSA signatures: libraries. A failure to encrypt is one of the causes
  of Fail at the label step. Certificate pinning of Outline.
* `UserService.Enable` has no caller.
* A database error is taken to mean that the statement was not applied.

## 7. Plan

1. Done: the control plane with keys, users, devices and servers, its abstract
   specification, invariants and proofs; administrators; verifier; migrations; rate
   limiter; pages. Every invariant and action property of a passing run is proved.
2. The path of a login as a whole: verifier and AdminAuth composed, so that a token signed
   with a withdrawn key reaches a session.
