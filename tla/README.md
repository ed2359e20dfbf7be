# Wormhole Token Service: a TLA+ development

The Token Service (`src/token_service`) is a FastAPI application over one SQL
database. It hands out long-lived *tokens* (`id.secret`), trades them for
short-lived JWTs, lets a user attest that tokens are still wanted and lets the
holder of an attested token rotate its secret, derives *subtokens* for
delegation, and ties subtokens to *sessions* opened through MFA.

The modules here model the parts where the service's guarantees are decided: the
life of a token, from creation to deletion, the directory of users, groups
and admin tokens, the cache of keys behind the MFA endpoint, the ways a user is
authenticated, and the migrations of the database, all under several processes
and failures. TLC checks it on small instances; TLAPS proves the invariants for
every number of processes, users, groups and tokens, and that the handlers and the
directory's services implement specifications in which each of them is one step.

## 1. Inventory

| Component | Source | State | Operations | Hard part |
| --- | --- | --- | --- | --- |
| Token table | `store/orm.py`, `store/repository.py`, `models.py` | rows; UNIQUE key, foreign keys, ORM cascades | get, get_subtoken, get_session_token, add, remove | several writers; cascades computed in memory, checked at the flush |
| Unit of work | `service/uow.py` | one SQLAlchemy session per `with UOW()` | commit, rollback | which exception becomes which answer; nested use shares one session, sequential use does not share a transaction |
| Token creation | `services.create_token`, `routers/shared.py`, `internal/tokens.py` | the request being served | POST /token, POST /krb/token, POST /admin/token/{uid} | retry after AlreadyExists, in a second transaction |
| Token authentication | `dependencies.TokenAuthenticator`, `services.authenticated/valid/matches` | rows read so far | GET /token/jwt, and the first half of PUT /token/rotate | three reads, a clock, a fallback when the parent is missing |
| Rotation, attestation | `services.rotate_token`, `make_rotatable` | `rotatable`, `value`, `exp` of a row | PUT /token/rotate, PATCH /token/attestation | read, decide, write without a lock; two transactions per rotation |
| Deletion | `services.remove_token_by_*`, `remove_user` | rows marked by the cascade | three DELETE endpoints | insertions that race with the cascade |
| MFA session | `routers/mfa.py`, `services.update_session` | one session row per user | GET /mfa/jwt | the clock is read before the transaction |
| Directory | `services.py:350-463, 572-614`, `internal/*.py`, `command.py` | users, admin flag, groups, members, admin tokens | create, remove, grant, revoke, join, leave, seed-dev-user | races of add and remove; collections loaded before the flush that relies on them; the last admin |
| Scopes | `services.py:466-495` | scopes | create_scope, remove_scope | nothing calls them |
| JWKS cache | `utils.timed_lru_cache`, `dependencies.JWTAuthenticator` | key set per process, expiry | get_jwks, authenticate | a blocking fetch on the event loop; stale keys |
| Kerberos | `auth/kerberos.py`, `routers/krb.py` | acceptor credential, per process | POST /krb/token: step, principal_to_uid | a keytab that breaks or is put right while the process runs; several legs; names of several realms |
| OIDC, local_dev | `dependencies.py:161-304` | the session, a signed cookie in the browser | guard, GET /auth/login, GET /auth/callback | several tabs with one cookie; logins given up; a user who is removed; the page to return to, in a query that nobody encodes |
| Audit | `services.py:498-569` | audit rows | audit_event, audit_cleanup, list_audits | foreign key to token; nothing calls it |
| Migrations | `alembic/`, `scripts/migrate-db`, `orm.py:235-257` | schema, `alembic_version` | upgrade, downgrade, create_all | commands of several pods at once; servers that start before them; rows a constraint no longer admits |
| Server, command line, configuration | `server.py`, `command.py`, `config/` | settings | make_app, run | a configuration that must be refused |

How they interact: every handler is an `async def` that makes synchronous
database calls and never awaits between them, so **one process serves one
request at a time**. Interleaving comes from several processes (replicas, or
uvicorn workers) and the command line, all on one PostgreSQL database at its
default isolation, READ COMMITTED. A handler uses one or more units of work; each
SELECT sees what was committed before it, and the ORM keeps the attributes it
first loaded for a row (its identity map) until the commit. Writes are flushed at the commit,
which is where the database checks constraints.

What makes it correct, and where it is at risk, is listed line by line under
`hazards` in `PROJECT.json`.

## 2. Modules

| Module | Contents |
| --- | --- |
| `TokenStore` | the table `token` as a function from ids to rows; its constraints, cascades and queries as pure operators |
| `TokenLifecycle` | the processes, the requests and the database: variables, one action per read or commit of each handler, `Spec` |
| `TokenProperties` | the type invariant and the properties, stated apart from the actions |
| `MCTokens` | model values and symmetry for TLC |
| `Directory` | users with their flag, groups, members, admin tokens; one action per read or commit of each handler and of `seed_dev_user` |
| `DirectoryProperties` | its type invariant and properties |
| `MCDirectory` | model values and symmetry for TLC |
| `TokenProofs` | type correctness, no orphans, revocation, JWTs of subtokens |
| `SerialProofs` | the UNIQUE key, one session per user, and that with any number of processes `TokenLifecycle` implements `AtomicTokens` |
| `RotationProofs` | no top-level token is stranded; how many rotations an attestation pays for; what one process alone guarantees |
| `AtomicDirectory` | the abstract specification of the directory: each service one step |
| `DirectoryProofs` | types, members, answers and the lockout of the directory, and that it implements `AtomicDirectory` |
| `JwksCache` | the timed cache of verification keys in each process, the blocking fetch and what answers it |
| `JwksProperties` | its type invariant, action and liveness properties |
| `MCJwks` | model values for TLC |
| `JwksProofs` | types, and the bound on the age of a trusted key |
| `AtomicTokens` | the abstract specification of the tokens: each endpoint one step, with rotations either one at a time (`Exclusive`) or not |
| `AtomicProofs` | with one process, `TokenLifecycle` implements `AtomicTokens`, and answers are sound |
| `Assembly` | what make_app makes of the settings, and the request that each authenticator shares: a user, then a token |
| `Kerberos` | the acceptor, its credential and the legs of a handshake, over `Assembly` |
| `NextUrl` | the page a login returns to: what each conversion on its way does to a URL |
| `OidcLogin` | the session cookie and the login of one person in several tabs, over `Assembly` and `NextUrl` |
| `UserAuth` | the composition: the authenticator that the settings choose, with Kerberos beside it |
| `UserAuthProperties` | its type invariant, safety and liveness properties |
| `AuthProofs` | its types, one principal per uid, and where a login leads |
| `MCUserAuth` | nine deployments for TLC |
| `Migrations` | the ten revisions, the alembic commands, the servers that create tables and write tokens |
| `MigrationProperties` | its type invariant and properties |
| `MCMigrations` | model values and symmetry for TLC |
| `MigrationProofs` | the properties of the migrations, for any commands, servers and tokens |

`TokenLifecycle` and `Directory` are not composed: they share the uid of a user
and nothing else that either decides on. Deleting a user is in both, once with
its tokens (`TokenLifecycle!RemoveUser`) and once with its memberships and its flag
(`Directory!RemoveUser`); the two cascades touch different tables and are
refused independently, and a refusal by the other one is an instance of `Crash`.
`JwksCache` is what stands before `TokenLifecycle!BeginMfa`: that a token was
verified says nothing about the database, so the two share no state. In the same way
`UserAuth` stands before `TokenLifecycle!BeginCreate`: it ends with the transaction
that creates the token, of which it keeps whether the user still exists and
whose token it is. `Migrations` is about the time before and between servers; `TokenStore`
describes its `Head`.

Three properties are refinements. `TokenProperties!HandlersAtomic` and `HandlersSerial` are
`AtomicTokens!Spec` under one refinement mapping: the
users, ids and the counter map to themselves, a row to its owner, parent, secret, permit and
mark, and what clients hold to pairs of an id and a secret. They differ in the constant
`Exclusive`. In `HandlersAtomic` (one process) a rotation needs the permit and the current secret, and
a client is told no other. In `HandlersSerial` (any number) it needs a token of which the client was told
*some* secret, since two processes can rotate on one attestation (finding 1) and an answer
may arrive after a second rotation; every other step is the same in both. `DirectoryProperties!ServicesAtomic`
is `AtomicDirectory!Spec`, with the tables of `Directory` mapped to themselves and requests hidden.

### State

| Variable | Code |
| --- | --- |
| `users`, `tokens` | the tables `user` (uids) and `token` |
| `now` | `pendulum.now()` |
| `fresh` | the next value `uuid4()` or `make_token()` draws |
| `req` | one frame per process: endpoint, program counter, and the handler's local variables (`row` is the ORM object, `at` a clock reading, `snap` the rows an attestation has read, `gone` what `session.delete` marked, `todo` the ids or the marked rows that await a SELECT of their own) |
| `creds` | strings clients have received (the environment) |
| `permits`, `lost` | ghosts: rotations attested for and not yet made; tokens with a response lost after the commit |

`Directory` keeps `users` (uid to `is_admin`), `groups`, `members`
(`user_group_association`), `keys` (the table `admin_token`), `fresh`, `req` (a
frame per process or command: `was` is the flag of the ORM object as loaded,
`mark` the collection a relationship has loaded) and one ghost, `held`: has what a
success would tell the client been so at some moment of this request?

`JwksCache` keeps `keys` (what each address behind `jwks_url` lists), `age` (how long
ago a key was last listed anywhere), `cache` (per process: what the `lru_cache` holds, and
the time left to `func.expiration`) and `req` (the request whose fetch blocks the
process). Times are relative and run down to zero, or up to an `Old` that no property can tell
from more, so no clock bound cuts a behaviour short and liveness can be checked.

`UserAuth` keeps `config` (the settings, and for each client how it authenticates), `proc`
(down, up, or refused by make_app), `req` (per client: where its request is, at which process,
for whom), `users` and `tokens` (the tables), `keytab` (the file), `creds` (`_creds` of
each acceptor), `cookie` (the browser's session), `carried` (the session each request was sent with),
`landed` (the page the last login led to), `faults` (how many were spent) and one ghost, `alone`: has no
other tab logged in since this one's login began?

`Migrations` keeps `schema` (the names in the catalogue), `version` (`alembic_version`),
`rows` (the tokens of one user), `cmd`, `owner` and `work` (the commands, the one that holds the
locks and what its transaction sees), `server`, and one ghost, `spoilt`: has
create_all, or `downgrade base`, left behind what a revision will create again?

### Actions

| Handler | Actions |
| --- | --- |
| POST /token, POST /krb/token | `BeginCreate`, `InsertToken`, `InsertRefused` |
| POST /admin/token/{uid} | `BeginAdmin`, `InsertToken`, `InsertRefused`, `RetryLookup` |
| GET /token/jwt | `ReadToken`, `CheckWindow`, `IssueJwt` |
| PUT /token/rotate | the same three, then `LoadForRotation`, `SaveRotation`, `RotationStale` |
| PATCH /token/attestation | `BeginAttest`, `ReadAttested` (once per id), `CheckAttested` (once per id, which reads its parent), `SaveAttestation`, `AttestationStale` |
| DELETE /token/..., DELETE /admin/token/... | `BeginDelete`, `RemoveToken`, `Cascade` (once per marked row, whose subtokens it reads and marks), `DeleteMarked`, `DeleteRefused` |
| GET /mfa/jwt | `BeginMfa`, `ReadSession`, `RemoveToken`, `Cascade`, `ReplaceSession`, `SessionRefused`, `IssueSessionJwt` |
| POST, DELETE /admin/users | `AddUser`, `BeginRemoveUser`, `Cascade`, `RemoveUser`, `RemoveUserRefused` |
| any response; any failure; time | `Reply`; `Crash`; `Tick` |

| Handler (`Directory`) | Actions |
| --- | --- |
| POST, DELETE /admin/users | `BeginUser`, `CreateUser`; `GetUser`, `Load`, `RemoveUser` |
| PUT, DELETE /admin/users/{uid}/admin | `BeginAdmin`, `GetUser`, `SaveFlag` |
| POST, DELETE /admin/groups | `BeginGroup`, `CreateGroup`; `GetGroup`, `Load`, `RemoveGroup` |
| POST, DELETE /admin/groups/{name}/members/{uid} | `BeginMember`, `GetGroup`, `GetUser`, `Load`, `SaveMember` or `RemoveMember` |
| POST, DELETE /admin/token | `BeginToken`, `CreateToken`; `GetToken`, `RemoveToken` |
| seed-dev-user | `BeginSeed`, `CreateUser`, `Look`, `GetUser`, `SaveFlag` |
| a constraint or a missing row; any response; any failure | `Refused`; `Respond`; `Crash` |

| Step (`JwksCache`) | Action |
| --- | --- |
| a request with an access token: clock, `cache_clear`, hit or fetch | `Begin` |
| GET /.well-known/jwks.json | `Answer` |
| `requests.get` returns; raises; times out | `Receive`; `FetchFails`; `TimesOut` |
| keys change at the identity provider; a process starts anew | `Rotate`; `Restart` |
| time | `Tick` |

| Step (`UserAuth`) | Action |
| --- | --- |
| make_app; a process ends | `Start` (`MakeApp`, `NewAcceptor`); `Stop` |
| POST /krb/token: first without credentials, then with a token, then with a second one | `Negotiate`; answered by `Challenge`, `Unavailable`, `Reject`, `Continue`, `Accept` |
| GET of a page; the guard | `Open`; `Guard` |
| GET /auth/login | `Login`, `LoginAnswer` |
| the provider; GET /auth/callback | `SignIn`; `Callback`, `Mismatch` |
| POST /token | `Post`, `PostGuard`; with local_dev `AskLocally`, `LocalDev` |
| create_token_for_user, for all of them | `Create` |
| users; the keytab; the provider and the browser | `AddUser`, `RemoveUser`; `WriteKeytab`; `ProviderFails`, `Close`, `Expire` |

| Step (`Migrations`) | Action |
| --- | --- |
| `alembic upgrade` or `downgrade`: read the version; first lock | `Ask`; `Lock` |
| one revision, with its UPDATE of the version | `Upgrade`, `Downgrade` |
| the end of the transaction | `Commit`, `Abort` |
| make_session_factory: which tables are there; create the others | `Look`; `CreateAll` |
| tokens are written and deleted; the server ends | `Insert`, `Delete`; `Stop` |

In `Migrations` a revision is a set of names it needs, drops, adds, or handles
with `checkfirst`; `Accepts` there says when PostgreSQL refuses it. Ten revisions are ten constants, and
each is checked as soon as `Upgrade` and `Downgrade` walk the chain.

In `Directory`, `Accepts` says what the database lets a flush do, from three sides: keys stay
unique (`UniqueKept`), an UPDATE or a DELETE of associations matches the rows it is for (`Matched`; SQLAlchemy
raises StaleDataError otherwise), and no association loses its user or its group (`Referred`).

`Crash` stands for a process that dies, a connection that drops and a database
error alike: what was not committed is undone, what was committed stays, the
response is lost. It may happen at every program counter.

Operators whose comment begins with "Seeded fault" are not part of `Spec`. Each
is a plausible mistake in one definition, kept beside it to show that a property
notices it (`mutants` in `PROJECT.json`).

### Abstractions

- A secret and an id are numbers, drawn from one counter at the commit. bcrypt is
  a tag on the stored value. That two draws never collide is assumed. In `AtomicTokens`
  a secret and its hash count as one (see section 5).
- `Token.valid` is always true: only `invalidate_token` clears it, and nothing calls that.
- Scopes, groups, paths, `iat` and `last_used` are left out. No branch of the
  modelled handlers depends on them, except that a missing scope fails a creation
  (an instance of `Crash`).
- A client chooses `exp` (as a lifetime) but not `nbf`, which is the time of the
  request. The clock is shared and monotone: skew between processes is not modelled.
- Steps of a handler that read only what no other request can change between
  them are one step: the clock and the parent's row in `BeginAdmin`; the two
  clock readings of GET /mfa/jwt.
- `Cascade` looks below the marked rows in any order, where the ORM has one of its own, and `CheckAttested` takes
  the ids in any order as well.
- Deletion by value, by name and by id all remove one of the user's own tokens:
  `BeginDelete` takes any of them.
- A request whose first read fails (401, 404) changes nothing and is no step.
- The callers of `Directory` are not logged in one by one: an admin can call when
  some user has the flag (`Admins`), an identity admin token when one is in the
  table (`Identity`). They are read in the step that begins the request, in a
  transaction of their own, so the flag or the token may be gone when the
  handler commits.
- The value of an admin token is left out: it never repeats, and its bcrypt
  check is the presence of the row. `duid` and `remote_id` are left out as well.
- SELECTs that a deletion's flush sends for collections it then deletes by key are
  one step (`Load`) with the set they return.
- In `JwksCache` reading the clock and looking the result up in the cache is one
  step, and takes no time. `timeout=5` bounds the whole fetch; `requests` applies it to
  the connection and to each read, so that an answer which trickles in takes
  longer. An identity provider lists at least one key.
- GSSAPI is modelled by what the acceptor relies on: the keytab is read to acquire
  the credential and again for every token; a mechanism needs one or two legs; a token
  that continues a handshake means nothing to a new context. A principal is a record of
  name, instance and realm, and a realm setting is a string with commas or a list, so that `as_realm_tuple`
  and `principal_to_uid` do what they do to the parts.
- Each client of `UserAuth` wants one token of a name of its own; once it has it, it
  asks no more. Clients with a bad header are `Challenge`. A browser is one
  person's; the provider always vouches for that person.
- A page is a URL: a sequence of characters, each with how often it is percent-encoded, or of runs of characters
  that nothing is done to. The blank stands for all that `RedirectResponse` encodes. A page that names `next` in its
  own query is left out, and a session without `next` counts as one with `/`, its default. The browser keeps no fragment.
- A response of Starlette's SessionMiddleware may set the cookie although the
  handler changed nothing (releases differ in this): `MaySet` allows both. The state of a login is named by its tab.
- settings.toml asks for `same_site = "strict"`: a browser then sends the cookie to
  /auth/callback only if the provider is of the same site as the service, which `SignIn` supposes.
- The time between two steps of a browser is unbounded; `Expire` is the cookie's `max_age`.
- In `Migrations` a constraint, a column or a type is its name. Users' duids are left
  out: the downgrade of 0e1ef5458f74, which makes them unique again, may be refused
  by the rows, and so may any revision (`Abort`). The tokens are those of one
  user, without external ids, of which the constraints treat the parent alike.
- bcrypt raises on a stored value that is not a hash (a session's is not);
  `Matches` is then false, as both end in a response other than success.

## 3. Runs

A cfg gives the constants their values and replaces nothing. Deadlock is checked in every run: a state without
successors never occurs, since a response, a crash or a tick is always possible.

| Run | Instance | Shows |
| --- | --- | --- |
| `SoloRotation` | 1 process, 1 user, 2 names, 3 draws, 3 ticks, attestations of up to 2 ids, 1 lost response | `OneRotationPerAttestation`, `RotationAnswerSound`, `AttestationSticks`, `HandlersAtomic` |
| `SoloAdmin` | 1 process, 2 users, 1 name, 3 draws, 3 ticks; admin creation with null, "" or any parent | `AdminAnswerSound`, `SessionAnswerSound`, `DeletionNeverRefused`, `SessionReplacedWhenOver`, `HandlersAtomic` |
| `PairRotation` | 2 processes, 1 user, 1 name, 3 draws, 2 ticks, 1 lost response | `TopLevelReachable`, `RevocationIsFinal`, `RotationsBounded` |
| `PairDelete` | 2 processes, 1 user, 2 draws, 1 tick; subtokens, JWTs, sessions, deletion of tokens and users | `TypeOK`, `JwtDecidedOnParent`, `OneSessionPerUser`, `NothingLeftBehind`, `HandlersSerial` |
| `DirectoryPair` | 2 processes, 2 users, 1 group, 1 admin token name, 2 roles, 2 draws; every service | `TypeOK`, `NoDanglingMember`, `AnswersHeld`, `SavesAccepted`, `LockedUntilSeeded`, `ServicesAtomic` |
| `JwksPair` | 2 processes, 2 keys, lifetime 2, timeout 2; keys at a provider or at the processes | `TypeOK`, `TrustBounded`, `Unblocked`, `NewKeyTrusted`, `Authenticates` |
| `Migrations` | 2 commands, 2 servers, 2 tokens, 2 names; eight of the eleven versions as targets | `TypeOK`, `VersionTold`, `Synced`, `UpgradeAccepted`, `RowsApart`, `TokensKept` |
| `UserAuth` | 1 process, 1 user, 2 clients, 2 faults, nine deployments: Kerberos with two principals of every kind of difference, with two legs, beside local_dev, with settings that must be refused; OIDC with two tabs behind a proxy that sets X-Target, and with one tab and no X-Target beside Kerberos | `TypeOK`, `OnePrincipalPerUid`, `NextHonoured`, `KeytabPickedUp`, `OthersServed`, `LoginEnds` |
| `JwksSelf` | 1 process that fetches from itself | no access token is ever checked (`dependencies.py:384`) |
| `DoubleRotation` | 2 processes | two rotations on one attestation (`services.py:333`) |
| `SubtokenRotation` | 1 process | a rotated subtoken accepts no credential any more (`services.py:338`) |
| `SubtokenOfSubtoken` | 1 process | a subtoken two levels down outlives the window of the top (`services.py:58`) |

The bounds, and why they are enough. Two processes already give every race of
the code: each is between one reader that has not yet written and one writer.
Three draws are two tokens and a rotation, or a chain of three (token, subtoken,
subtoken of it), which is what the cascades need: more than one level below the
root. Two ticks with a lifetime of 2 cover before, inside and after a window
whose ends are strict; three allow a session to end and be replaced. `PairDelete` has one tick, which is
what it takes for a window to be entered: at its start a token or a session is not live yet, and what is not live is
refused or replaced in the same branches as what is over (that it comes to an end is in the other three runs). `MaxLost = 1`
allows one lost response, which is the case that `Reachable` excepts; `MaxAttest = 2` is the first size at
which a set can be read half before and half after a change, and at which one id
can be the parent of another. `MaxFresh` only stops a request from *beginning*,
so that nothing under way is cut short. In the directory one group and two
users give each race its row and a bystander; `SavesAccepted` speaks of a handler
nobody has written beside, which a run of two processes reaches as well as one of one. Two draws
let an admin token be deleted and its name used again. For the keys, two
processes can wait for each other; a lifetime of 2 has a hit before the expiry and one at its
edge, and a timeout as long lets a fetch outlast the expiration that was set before it. For the migrations two commands are one that holds the locks and one that waits or has read an old
version; the targets are those around each revision that others depend on, and every
revision is on the way to one of them; two tokens and two names are the least that can collide, or be a token and its
subtoken. For the authenticators, one process that may restart is the case in which
a credential is lost; two clients are two principals or two tabs; each of the two faults is
a restart, a failing provider or an expired cookie at any step, and the keytab
and the users change without a bound. Symmetry is over processes, users,
commands, servers, ids and names, which the specifications treat alike; no run with symmetry checks liveness.

The properties come in two groups. The first holds for any number of processes.
The second (`OneRotationPerAttestation`, `AttestationSticks`, `AdminAnswerSound`,
`RotationAnswerSound`, `SessionReplacedWhenOver`, `SessionAnswerSound`,
`DeletionNeverRefused`) is what the service promises to one client after the
other; it is checked with one process, as is the refinement `HandlersAtomic`. `DoubleRotation` shows
one of them fail with two processes, and so does `SessionReplacedWhenOver` (see section 5), so the split is not a matter of convenience.
What is left of two of them with several processes is in the first group: `RotationsBounded` (as many
rotations as processes, where `OneRotationPerAttestation` says one) and `HandlersSerial`. `PairDelete`, the run of
`HandlersSerial`, has every way in which the rows of one commit are decided on by earlier reads, except
that of an attestation; the theorem covers that one as well.

### Fairness

The specifications of the tokens, the directory and the migrations state no fairness, and
nothing is claimed of them that needs any: their handlers are straight lines of reads and a
commit, so that a request that is served ends, and no client is promised that it is.

`UserAuth!FairSpec` is weakly fair to `Start` of each process (the platform starts a
process again) and to `Proceed` of each client: the event loop runs a handler to its end, and a
client that waits for an answer or has been refused asks again until it has its token.
It is not fair to anything in `Environment`: no administrator adds a user or
repairs a keytab, no tab is ever closed, and the provider never fails. `KeytabPickedUp`,
`OthersServed` and `LoginEnds` therefore have such premises: the keytab is put right for good, the user
exists for good, the other tabs are done with. `LoginEnds` does not hold
without the last: two tabs that log in over and over can take each other's state for ever.

`JwksCache!Spec` is weakly fair to `Tick` (time passes), `Receive` and `TimesOut`
(`requests.get` returns or raises). `Unblocked` and `NewKeyTrusted` need no more:
no client has to ask and no address to answer. `ServedSpec` adds what
`Authenticates` is about: clients keep asking (weak), and an address that is
free again and again answers in the end, in time (strong, since a process is free only in between its own
fetches). It claims a decision by *some* process: with two processes that
fetch from each other, one can starve, always asking while the other one is blocked.
Rotation, restarts and failures are never forced.

## 4. Theorems

Every theorem holds for arbitrary constants that satisfy the assumptions
`StoreAssumption` (NULL and the empty string are no ids and no names),
`LifecycleAssumption` (bounds are naturals, lifetimes are integers), `DirectoryAssumption` (services and
roles are those of the code) and `JwksAssumption` (lifetime and timeout are naturals,
and known addresses are behind `jwks_url`), `MigrationAssumption` (targets are versions; NULL is neither a command nor
an id) and `AuthAssumption` (`None` is neither a user nor a process, a tab's page is a URL, a principal is a
name, an instance and a realm, and a realm setting comes to a sequence). None assumes
that a set is finite, except `RotationsAreBounded`, which is about the number of processes.

| Theorem | Module | States |
| --- | --- | --- |
| `TypeCorrect` | `TokenProofs` | `Spec => [](TypeOK /\ Drawn)` |
| `NothingIsLeftBehind` | `TokenProofs` | `Spec => []NothingLeftBehind` |
| `RevocationFinal` | `TokenProofs` | `Spec => RevocationIsFinal` |
| `JwtOnParent` | `TokenProofs` | `Spec => []JwtDecidedOnParent` |
| `KeysAreUnique` | `SerialProofs` | `Spec => [](Shaped /\ KeysUnique)` |
| `OneSession` | `SerialProofs` | `Spec => []OneSessionPerUser` |
| `SerialRefinement` | `SerialProofs` | `Spec => HandlersSerial` |
| `NeverStranded` | `RotationProofs` | `Spec => []TopLevelReachable` |
| `RotationsAreBounded` | `RotationProofs` | with finitely many processes, `Spec => []RotationsBounded` |
| `OneRotation` | `RotationProofs` | with one process, `Spec => []OneRotationPerAttestation` |
| `AttestationIsKept` | `RotationProofs` | with one process, `Spec => AttestationSticks` |
| `DirectoryTypes` | `DirectoryProofs` | `Spec => [](TypeOK /\ ArgsKept)` |
| `NoDangling` | `DirectoryProofs` | `Spec => []NoDanglingMember` |
| `LockedOut` | `DirectoryProofs` | `Spec => LockedUntilSeeded` |
| `AnswersTrue` | `DirectoryProofs` | `Spec => []AnswersHeld` |
| `SavesGoThrough` | `DirectoryProofs` | `Spec => []SavesAccepted` |
| `DirectoryAtomic` | `DirectoryProofs` | `Spec => ServicesAtomic` |
| `TypeCorrect` | `JwksProofs` | `Spec => []TypeOK` |
| `TrustIsBounded` | `JwksProofs` | `Spec => TrustBounded` |
| `AdminAnswers` | `AtomicProofs` | with one process, `Spec => []AdminAnswerSound` |
| `RotationAnswers` | `AtomicProofs` | with one process, `Spec => []RotationAnswerSound` |
| `SessionAnswers` | `AtomicProofs` | with one process and a positive `SessionLifetime`, `Spec => []SessionAnswerSound` |
| `SessionsEnd` | `AtomicProofs` | with one process, `Spec => SessionReplacedWhenOver` |
| `DeletionsGoThrough` | `AtomicProofs` | with one process, `Spec => []DeletionNeverRefused` |
| `Refinement` | `AtomicProofs` | with one process, `Spec => HandlersAtomic` |
| `MigrationTypes` | `MigrationProofs` | `Spec => []TypeOK` |
| `VersionIsTold` | `MigrationProofs` | `Spec => []VersionTold` |
| `SyncedAtHead` | `MigrationProofs` | `Spec => []Synced` |
| `RowsStayApart` | `MigrationProofs` | `Spec => []RowsApart` |
| `UpgradesAccepted` | `MigrationProofs` | `Spec => []UpgradeAccepted` |
| `TokensAreKept` | `MigrationProofs` | `Spec => TokensKept` |
| `AuthTypes` | `AuthProofs` | `Spec => []TypeOK` |
| `OnePrincipal` | `AuthProofs` | `Spec => []OnePrincipalPerUid` |
| `LoginLeadsBack` | `AuthProofs` | `Spec => []NextHonoured` |

The argument.

- *Frames and the table are treated apart.* `StepKinds` shows that a step of a
  request either is one of nine actions that touch shared state or changes its own
  frame only. Each invariant about the table then has nine cases instead of
  thirty, and each invariant about frames has one lemma (`FrameTypes`,
  `FrameNumbers`, `FrameShapes`, `CurrentKept`, `JwtFrames`).
- *Numbers.* `TypeOK` is not inductive alone: an inserted row must not overwrite another.
  `Drawn` adds that every secret in the table, in a client's hands or in a
  frame is below `fresh`. `RowsKept` follows: an id keeps owner, parent and key as
  long as it exists, and is never used again.
- *Revocation* then needs no further invariant: a stored value changes only to
  the hash of a number that nobody holds (`ValuesKept`).
- *Orphans.* `NothingLeftBehind` is inductive with the types, because each of the
  writes is checked by the database at the commit.
- *JWTs.* `Anchored` is the strengthening: a handler that fell back to a
  subtoken's own dates did so because the parent's row was gone; the
  subtoken's row is then gone too (`NothingLeftBehind`), its id never comes back (`RowsKept`), and the second
  read of the token fails.
- *Sessions.* Two session rows of a user would have equal keys, as sessions have
  no parent, no external id and the configured name (`Shaped`).
- *Reachability.* A response is delivered, lost or under way (`ResponsesKept`), and a
  top-level value that changes is in a response (`NewValuesAnswered`).
- *Rotations.* `Covered` strengthens `RotationsBounded`: what may still be written on one
  attestation is at most one rotation for each process that has loaded the row as rotatable, so that rotations made and
  rotations to come together never exceed the processes. Once the first is committed the flag is down, and
  no process joins those; only an attestation, which starts the count anew, puts it up.
- *Any number of processes.* `Lineal` is the strengthening of the refinement `HandlersSerial`: what a deletion has marked is kin
  of what it was asked to delete (`Kin`, though the marks are made row by row), what an attestation has read is of the caller, and every row is `Older` than what is
  derived from it. What a deletion marked may be out of date when it commits: other processes add subtokens or
  take some away. A commit that the database accepts nevertheless deletes one family as it is then. It is
  closed, because a row that refers to a deleted one has the commit refused; and it holds nothing
  else, as any marked row that is still there is kin of the root, whose row goes too or has gone, in which case nothing
  of the family is there (`NoOrphans`, by the least of them). For sessions the
  UNIQUE key adds that the insertion leaves no other.
- *One process.* `Undisturbed` says that what the only request under way has read
  is still so, and that permits and flags agree. `AllFaithful` adds, kind by kind of request, what a frame says of the
  tables: the credential it carries has the row's secret, the cascade has marked all that is below the rows it is
  done with, so that in the end what is marked is closed, what an answer names is there, the session about to be replaced is over. `Past` (no clock reading and no
session is of the future) goes with it. The answers' soundness follows, and so does
  each step of the refinement `HandlersAtomic`: that of `HandlersSerial` for everything but a rotation and an answer
  (`ManageAlike`); for these two, the tables are still those that the handler has read.
- *Directory.* `ArgsKept` says that a frame has the arguments its service needs;
  with it `NoDanglingMember` is inductive, because whatever another
  process did since the reads, the commit is checked by `Accepts`. For the lockout,
  `FlagsKept` says that `create_user` and `remove_admin` never carry the flag, so that
  of the requests under way only a grant can make an admin. For the answers, `Seen` says that a handler
  that answers, or is going to answer without a write (the flag is as asked, the
  member is there already), has seen what it claims; `CommitClaims` shows it for the commits and
  `ReadClaims` for the reads. For `SavesAccepted`, what a handler left alone has loaded is the table's.
  For `ServicesAtomic`, `MarksOwn` says that the collection a deletion has loaded is of the user or group it deletes; that an
  accepted deletion takes the whole of it as it is then (`WholeCollections`) follows from
  `Accepts`: a membership too many would have lost its row, one too few would not match.
- *Keys.* `Recent` ties the age of every key in the cache to the part of the
  lifetime that has passed, and of every key in an answer to the time waited;
  `TrustBounded` by itself says nothing about keys not used yet. It survives
  because the expiration is always set before the fetch it covers.

- *Migrations.* `Good` says of what is committed, and of what the transaction that holds the
  locks sees, that the version tells the schema and that the constraints in it hold of the
  rows; each revision takes a good world to a good one (`UpGood`, `DownGood`), and only the
  holder of the locks changes its own. `Clean` and `Empty` say that nothing else is there unless a server or
  `downgrade base` spoilt it, and that no server can have written a token before revision 8823466cec2e;
  no upgrade then meets a name that exists or rows that break its constraint.
  The downgrade of 8823466cec2e drops a constraint without a name, which no schema has: every
  command stops there, and no downgrade from above it ends below.
  For `TokensKept`, `OnItsWay` says of the transaction that holds the locks that it goes from the version it
  found straight to its target, and that its tokens are those of the table with what the lowest version so far can
  hold of them (`Portion`). `Bare` says the same of the table and its own version: a server writes parents and
  marks only where every column is there. Without it an upgrade from below could be said to lose what was never there. It excepts a
  table that create_all made before any revision, where no upgrade gets past the first.
- *Authenticators.* `Named` says that a Kerberos client is known, and has its token, as what
  `principal_to_uid` makes of its principal; `Upright`, that a process that is up, and one that has made a token, was not
  refused, so that exactly one realm is allowed. Two principals with one uid then have the same name,
  no instance and that realm (`UidNamesOne`). `NextHonoured` is about the pages that
  come through the conversions unharmed (`Returnable`; `Survives` follows one on its way). `Followed` says that a state a tab has not
  drawn yet is in no session, and that as long as the tab logs in alone every session with the state of its login, in the cookie
  or with a request, has its page. A response to another tab may still set the cookie back to an older session; the state of
  the login is then gone, and it ends in `Mismatch`.

Every safety property and every refinement that a passing run checks is proved. Out of reach of the prover and left to TLC for good: liveness (`Unblocked`, `NewKeyTrusted`, `Authenticates`,
`KeytabPickedUp`, `OthersServed`, `LoginEnds`), and the value of a recursive definition for all inputs (there
is none: the cascade is a sequence of steps, and what it has marked an invariant).

## 5. Findings

1. `rotate_token` tests and clears `rotatable` without a lock or a condition in the UPDATE: one
   attestation pays for two rotations (`DoubleRotation`). `RotationsAreBounded` shows that it never pays for more
   than there are processes, `NeverStranded` that the token stays usable.
2. A rotated subtoken is stored hashed and compared in the clear; it is dead from
   then on (`SubtokenRotation`).
3. The parent's lifetime binds direct subtokens only (`SubtokenOfSubtoken`).
4. As configured, the service verifies access tokens with keys fetched from
   itself, in a call that blocks the loop which would answer it: no fetch
   succeeds (`JwksSelf`). With two processes it works (`JwksPair`).

Observed while modelling, without a run of its own:

- With two processes `SessionReplacedWhenOver` fails: a session that another process has just
  created is replaced, with its subtokens, because `services.py:147` reads the clock before the
  transaction (`routers/mfa.py:34-35` says "If the session is expired when this API is called, it
  is refreshed."). `PairDelete` with that property as its PROPERTY shows it.
- An admin retry for a top-level token that exists is answered with the stored value, a bcrypt hash
  (`internal/tokens.py:79-88`), which authenticates nobody: a secret is not told twice. `HandlersAtomic` does
  not see this, as a secret and its hash count as one there.
- A Kerberos mechanism of two legs never completes: `step` makes a new context for each
  request (`kerberos.py:201`). `Continue` is always followed by `Reject`.
- `README.md:157-167` runs the API before `alembic upgrade head`. create_all then makes
  every table, `alembic_version` stays empty, and the first revision is refused. That is the
  exception (`spoilt`) in `UpgradeAccepted`.
- The downgrade of 8823466cec2e passes no name to `drop_constraint` and can never succeed
  (`8823466cec2e_...py:43`), and `downgrade base` leaves its types behind.
- A downgrade below 237acb29e460 and an upgrade after it turn a session into an ordinary token (`TokensKept` says
  exactly what is lost, and that nothing else is). `get_session_token` no longer finds it (`repository.py:66-79`), and its name keeps the
  next session out (`services.py:155`) until its owner deletes it. In the same way
  fb5b063e37a1 turns a subtoken into a token of its own.
- `dependencies.py:216` puts an exception into `detail`, which cannot be encoded as JSON: OIDC
  answers 500 for an unknown user, where `tests/integration/test_dependencies.py` speaks of
  "a 401, matching every other authenticator". `Guard` treats the two alike.
- The guard redirects a POST with 307, which keeps the method, and /auth/login has only a GET: a
  login succeeds only from a page opened with GET (`PostGuard`).
- X-Target or the path is put into `?next=` as it is (`dependencies.py:197-208`), read as a query parameter, and
  decoded once more (`:227-229`). A page with a `&`, a `+` or an escape that the second decoding undoes is not returned to as it
  was, nor is a fragment; without X-Target any query is lost. `Returnable` names the pages that are.
- Two tabs that log in at once share one `next` in the cookie: one may land on the other's page, or on
  `/`. `NextHonoured` excepts them (`alone`); `LoginEnds` says that both get in.
- `same_site = "strict"` in settings.toml:24 makes a browser withhold the cookie on the
  redirect from a provider of another site; every callback then fails (`Mismatch`).

## 6. Plan

Done: the token table and the lifecycle with its refinements, the directory with its own, the cache of keys, the
authenticators of users, the migrations, and the theorems above. Next:

1. A downgrade of the schema under servers of the newer version, composed with `TokenLifecycle`.

### Not modelled

- Scopes and audit records: `create_scope`, `remove_scope`, `audit_event`, `audit_cleanup` and
  `list_audits` are called by no handler, so their tables stay empty, and no branch reads them.
- The GSSAPI mechanism, Authlib, the identity provider and the browser are environment.
- Claims of an access token (`dependencies.py:395-413`) and the signing of JWTs (`models.py`): pure
  computation in libraries.
- `generate-jwks`, `generate-openapi`, offline migrations, versioned route prefixes, GET /config and
  the lists of users, groups and tokens: no state that another operation decides on.
