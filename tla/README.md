# Verification of doc-mgmt in TLA+

doc-mgmt is a small quotation system: four FastAPI services behind nginx, each
with its own PostgreSQL database, a Meilisearch index, an object store, and one
web page. This directory holds TLA+ models of the parts where several requests,
a crash or a second system can make the code go wrong, the TLC configurations
that check them on small instances, and proofs that TLAPS checks for every
instance. `PROJECT.json` lists components, runs, mutants, hazards and the source
lines that each definition stands for.

## 1. Inventory

| component | state it keeps | operations | hard behaviours | what makes it correct |
|---|---|---|---|---|
| login sessions (auth-service) | `refresh_tokens`, `users.is_active/is_approved/hashed_password` | login, refresh (rotation, replay detection), logout, revoke one or all, suspend, change password, approve; `/verify` | requests race; account changes end sessions in a second commit; tokens presented twice; time | a session has one hard end, is closed for good, and outlives neither limit, suspension nor a new password |
| login rate limit | `login_attempts` | check three windows, record a failure, prune | check and record are apart; windows slide | limits hold up to requests in flight; a lock only drains, and heals |
| accounts, groups, roles, project access | `users`, `groups`, `user_groups`, `roles`, `role_access`, `user_roles`, `group_project_access`, `user_project_access` | register, approve, deny, create; groups and members; roles; pools and grants; `/verify` levels; seeding at each start | checks go stale before the commit; cascades; restarts repeat the seeding | nothing dangles; roles stay within members, delegated grants within pools |
| documents | `documents`, `line_items`, `audit_log_entries`, the index `documents` | create, edit, trash, restore, purge, status, view | an edit writes only changed columns; items are replaced; the index is pushed after the commit, may fail, and carries out later what it accepted | one end user, total = items, stamp = trashed, index follows, purge is final |
| customers, projects | their rows | create, purge; rename, trash, restore | the ORM clears references on a purge | no dangling reference |
| companies, directors | `companies`, `company_directors` | create, edit, primary flag, trash, restore, purge; directors | the flag is cleared by a bulk update that holds rows; foreign keys refuse a purge | at most one primary company, the flag never just lost; nothing a document names disappears |
| numbers and files | `doc_number`, `sku`, file columns, the object store | generate or type a number; upload a file, logo or seal | a number is chosen before the commit and given again after a purge; the store is written before the row | a row's file is the one uploaded for it |
| visibility | none (reads of `documents`, `line_items`) | list and open documents, products visible to a caller, search with a project filter | two statements per read; the index lags | a restricted caller is shown what the projects allow, and finds it once the index has caught up |
| catalogue | `products`, `categories`, `product_sub_items`, the index `products` | create, edit, duplicate rule, bulk import, bundles, rename of a category | rules without a constraint; two commits; max + 1 | no new active duplicates, order of components kept, no stranded product |
| gateway | none | `auth_request`, routing, shared secret | - | forwards what `/verify` answered |
| web application | tab state, `localStorage` | silent refresh, idle logout, cross-tab logout | several tabs share one cookie | see "not modelled" |
| the rest | - | exports, schemas, migrations, scripts, tests | - | no state to interleave |

The components meet in few places. The gateway asks auth-service `/verify` for
every request and forwards the answer as headers; catalogue and search ask
document-service which products a caller may see, and show nothing when it does
not answer; document-service asks catalogue-service for the products of line
items; documents and products are pushed into the index by their own service;
deletion of a customer or project reaches into documents through the ORM.

What holds for all services and shapes every model: requests run in parallel (a
thread pool, possibly replicas); a request has one database session at READ
COMMITTED, with `autoflush` off; no row is locked explicitly and none carries a
version; an ORM `UPDATE` writes only the columns that differ from what was
loaded (module `Columns`) and fails when the row is gone, a `DELETE` of a row
that is gone only warns; a bulk `UPDATE` holds the rows it wrote until its
commit; unique constraints and foreign keys make a commit fail.

## 2. Modules

| module | models | of |
|---|---|---|
| `SessionLifecycle` | the abstract session: opened once, closed for good | the promise of `refresh_tokens.py` |
| `Sessions` | tokens, accounts, requests in flight | `refresh_tokens.py`, `auth.py`, `admin.py`, `deps.py` |
| `SessionsAlone` | `Sessions` with a history of overlaps and crashes | - |
| `RateLimit` | the three windows | `rate_limit.py`, its callers in `auth.py` |
| `AccessControl` | accounts, groups, roles, pools, grants, seeding | `admin.py`, `auth.py`, `authz.py`, `seed.py`, `models.py` |
| `Columns` | what the ORM writes of a loaded row | the `UPDATE`s of all services |
| `Documents` | documents, items, index, purge of customers and projects | `documents.py`, `customers.py`, `projects.py`, `search_client.py`, `audit.py`, `models.py` |
| `Visibility` | reads of a restricted caller, over `Documents` | `documents.py`, `core/document_client.py` of catalogue and search, `search.py` |
| `Companies` | companies, the primary flag, directors, the documents naming them | `companies.py`, `documents.py`, `models.py` |
| `Files` | document numbers, SKUs, the object store | `documents.py`, `products.py`, `companies.py`, `storage.py` |
| `Catalogue` | products, the duplicate rule, import, categories, sub-items, index | `products.py`, `categories.py`, `duplicates.py`, `search_client.py`, `models.py` of catalogue-service |
| `SessionsProofs`, `RateLimitProofs`, `AccessControlProofs`, `DocumentsProofs`, `VisibilityProofs`, `CompaniesProofs`, `FilesProofs`, `CatalogueProofs` | theorems about the module they are named after (`SessionsProofs` also about `SessionsAlone`) | - |
| `MCSessions`, `MCSessionsAlone`, `MCRateLimit`, `MCAccessControl`, `MCVisibility`, `MCCompanies`, `MCFiles`, `MCCatalogue` | instances for TLC | - |

`SessionsAlone` extends `Sessions`, `Visibility` extends `Documents`;
`Sessions` refines `SessionLifecycle`.

**How a handler becomes actions.** Every module has a set of `Handlers`, the
slots of requests in flight, and `req[h]` says where the request of a slot
stands and what it remembers of what it read. A handler is one action when its
reads are still true at its commit whatever ran in between, or when a constraint
makes the commit fail if they are not. It is split into a check and a commit
when they may be stale, and again after a first commit when a second one
follows. `Crash(h)` ends a request between its steps: an open transaction is
rolled back, a first commit stays. Single-action requests need a free slot, so
that an instance with one slot is the service that handles one request at a
time. An operator whose comment says *faulty* is not part of any specification:
it is the definition below it with a plausible mistake, kept to show that the
properties notice it.

**Sessions.** `rows[t]` is the row of `refresh_tokens` for token `t` (any token
ever issued can be presented again). `LoginCheck`/`LoginIssue` are `POST /login`
before and after the password hash is verified; `RefreshRead`, `RefreshUser` and
`RefreshRotate` are `rotate_refresh_token`: the token's row, its account in a
second statement, the commit. `RefreshReplay` is its answer to a revoked token,
found before expiry is looked at; `Logout`, `RevokeSession`, `LogoutAll` end
sessions; `SetUserActive`, `RecheckActive`, `RevokeTokens` are the two commits
of a suspension (the second looks at the column as it is by then) and
`EditPassword` the first of a password change. Legacy rows (no session id) are
in the initial state only. An access token is its expiry: `Accepted` is what
`/verify` and `require_live_session` accept. `openedWith` is a history variable.
`SessionLifecycle` calls a session open while it is live or a rotation that read
its token live may still continue it; a session that is closed in that sense
stays closed.

**SessionsAlone** adds `overlapped`, true once a request waited while another
took a step, or crashed. What the comments promise of tokens, suspensions and
passwords is conditioned on it, so that one instance checks these promises
together with everything that holds under races.

**RateLimit.** A row of `login_attempts` carries its age, so time needs no
bound. The three counts of `check_login_rate_limit` are one action: rows that
arrive between them can only make a later count larger. `Free` are the row
identities left; an instance has more of them than rows can be kept.

**AccessControl.** Tables are sets of pairs; a role carries its access rows.
A superuser can do everything, so only a group administrator is an actor.
`ApproveCheck`, `DenyCheck`, `AssignCheck`, `DelegateCheck`, `RevokePoolCheck`,
`DeleteGroupCheck` and their commits are the handlers whose checks may be stale.
The end of a pool or a group has a step between: `StripGrants` is the `DELETE`
of the grants of a project. It removes those there are by then, which others see
gone only after the commit; until then the rows are `Locked`, and statements
that need them wait. A grant inserted after it stays.
`VerifyAccess`/`VerifyLevel` are the two queries of `/verify`;
`SeedDefaults`/`MigrateOperation` are the two commits of a start. `origin` is a
history variable: who gave a grant, and whether its holder has left a group
since.

**Documents.** `row[d]` has the columns that the rules are about or the index
takes; a batch stands for the line items of one submission. `UpdateRead` loads
the row and computes the changed columns, `UpdateLoadItems` loads the items that
will be replaced (after calls to catalogue-service), `UpdateCommit` writes. What
follows a commit is `Refresh` (the row is read again), `Gather` (its line
items), `Push` or `PushFails`, and `Log`. `index[d]` is the record the index has
of a document followed by those it will have after each task it accepted: `Push`
and `Remove` append one, `CarryOut` is Meilisearch carrying out the next.
`behind` is a history variable, the documents whose record may be left behind:
a push was lost, or a commit fell between another request's read and its push.
A later commit that none crosses takes the document out again, as its push will
make up for it. `UpdateStatus` (`PATCH .../status`), `TrashRead` and
`RestoreRead` are written by `WriteCommit`, which pushes nothing.
`PurgeParentRead`/`PurgeParentCommit` are the deletion of a customer or a
project: the ORM loads the documents of the relationship and empties their
reference. A file upload writes columns nothing else is computed from; it is
`WriteOther` here, and uploads are in `Files`.

**Visibility.** A read is two steps, as in the code: the documents a caller may
see (`ReadVisible`, `OpenDocument`), then their line items (`Answer`). `watch`
is a history variable that collects what was visible all the time, and what was
visible at some time, since the read began. `Found` is the filter of a search
over what the index has now, tasks not carried out left aside. A restricted
caller has at least one project: `/verify` answers `ALL` for an account without
grants.

**Companies.** `BeginFlag` is the start of the bulk `UPDATE` that clears the
flag: it sees the rows that exist then. `Clear` is its end: from then on the
request holds those rows, and the actions that write one of them wait
(PostgreSQL's row locks); two such requests wait for each other. `FlagCommit`
makes both statements visible at once. `raced` is a history variable: a company
was inserted while another request was setting the flag.

**Files.** One map `store` for the object store, one prefix and one file name:
others give other keys. `Number` chooses a number, typed or generated, that is
free when it is read (an import always takes `NextSku`, the highest plus one);
`Insert` commits (or the unique constraint refuses); `UploadRead`,
`Store` and `Attach` are an upload, the row last. `overtaken` is a history
variable: keys of rows that were purged while an upload for them was still to be
stored.

**Catalogue.** A name is a spelling and `Norm` says which spellings are one
(`duplicates.norm`). `CreateCheck`, `UpdateRead` and `RestoreCheck` ask the
duplicate rule, the commits that follow do not repeat it. An import remembers
the keys it read and the rows left; each row is inserted, refreshed and pushed
like a creation, then the file goes on, and it may be given up between any two
rows. `RenameRead`, `RenameCommit`, `RenameReread` and `Carry` are the two
commits of a category's renaming. `RemoveRead`, `RemoveCommit`, `Sort` and
`Renumber` are those of a sub-item's removal: the numbers of the rows go out in
the order of the primary keys, and `Sendable` says whether the unique constraint
lets all of them pass. Sub-item ids are numbers for that reason. `filed` is a
history variable: the category that a product was put under. `index[p]` is the
record the index has of a product once it has carried out the tasks it accepted;
nothing here reads it before.

## 3. Runs

| run | instance | what it shows |
|---|---|---|
| `sessions_concurrent` | 1 user, 2 sessions, 3 tokens and a legacy one, 2 requests, clock to 3 (idle end 2, hard end 3), crashes | types, one hard end, limits, only logins open sessions, rotation leaves no gap, a suspension settles, the refinement of `SessionLifecycle`, under races and crashes; and, until requests overlap or one is cut short, one live token per session, and no session that outlives a suspension or an old password |
| `sessions_revoke_race` | 1 session, 3 tokens, 2 requests | *violated*: a rotation that passed its checks revives a session that was ended |
| `ratelimit` | 2 addresses, 1 name, 2 requests; limits 2, 1, 3; windows 2, 1, 1 | limits up to requests in flight, housekeeping loses nothing that counts, a full limit only drains, locks heal |
| `access_serial` | 1 account, 2 groups, 1 role, 1 project, 1 request, restarts | nothing dangles, holdings rest on membership (roles within members, delegated grants within pools), no covered grant is stripped, an outsider gains no role |
| `access_restart_grants` | 1 account, 2 groups, 1 project | *violated*: a start takes grants away again |
| `access_deny_race` | 1 account, 1 group, 2 requests | *violated*: a denial deletes an account that was approved meanwhile |
| `documents_concurrent` | 1 document, 2 projects, 2 requests, failures, up to 2 tasks of the index | references hold; a purged document never comes back; the index follows, and a search agrees with what may be opened, but for documents it was left behind on |
| `visibility` | 1 document, 1 customer, 2 projects, 1 company, 1 director, 2 batches, of which one names a product; 1 request that edits and 1 that reads, failures; an index that accepts nothing | the columns of a row agree with each other and with its items, a restricted caller is shown what the projects allow |
| `companies` | 3 companies, 1 director, 1 document, 2 requests, failures | one primary company unless an insert races, the flag is never just lost, references hold |
| `files` | 2 documents, 2 products, 1 owner, numbers to 2, 2 requests, failures | files are their row's own |
| `catalogue_serial` | 2 products, 3 spellings of 2 names, 1 category with 2 names, 3 sub-items with numbers to 4, a file of 2 rows, 1 request | no new exact duplicates, a rename takes every product along, the index follows, components keep their order and exist |
| `catalogue_gap` | 2 products, 3 sub-items, 1 request | *violated*: removing a component leaves a gap in the numbers |

**Why the bounds are enough.** Two slots reach every pair of handlers in every
order; a third adds orders but no new kind of stale read (in `companies`, where
requests wait for each other's rows, two slots are two that wait in turn). One
more token than a rotation needs lets a rotation race its own repetition; the
clock passes the idle end and the hard end of a session that was rotated in
between. Limits are 1 to 3 because only "below" and "at" differ. One account and
two groups let one membership cover what another loses. A document with two
batches can have its items replaced, and one names a product and the other none,
so that the mixture of two states can be told from either; a second project lets
a document leave what a caller sees. Two tasks of the index, beside the record
it has, are a push that overtakes another and a removal between;
`documents_concurrent` leaves customers and line items to the proofs, and
`visibility` has no tasks, as nothing it checks reads the index. Three companies
are one that loses the flag, one that gains it and one that is inserted
meanwhile. Two documents and two numbers are enough for a number to be given
again. Three sub-items are the least with which a renumbering can be refused;
numbers to 4 leave room for an addition above the gap that this leaves. The file
repeats a row in another spelling. What the small instances leave open is proved
for all of them, see section 5.

The sets of identities are symmetric, except legacy tokens and the company of
the director; the run with a liveness property, `ratelimit`, uses no symmetry,
and the properties that relate two states treat the permuted identities alike.
Deadlock is not checked except in `ratelimit`: identities and the clock are
bounded, so an instance stops when they run out.

**Fairness.** The only fairness assumed anywhere is that time passes
(`WF_vars(Tick)` in `RateLimit!FairSpec`): clients owe the service nothing and a
request may die at any step. `LocksHeal` holds with no more than that, although
the blocked client keeps trying, because refused attempts are not recorded.

## 4. What the code does not do

Four runs find the code doing other than its comments say.

* `sessions_revoke_race`: `refresh_tokens.py:105` inserts the successor of a
  token whose session was ended after the check; the session lives on.
* `access_restart_grants`: `seed.py:112-114` calls the migration a no-op after
  its first run; it deletes the project grants of the members of Operation at
  every start.
* `access_deny_race`: `admin.py:377-379` says that an approved account can never
  be deleted; `admin.py:128` deletes by id the row that was pending when it was
  read, be it approved by then.
* `catalogue_gap`: `models.py:51-52` (and `products.py:640-642`) say that the
  numbers of a bundle stay contiguous. `_renumber_sub_items` sends the new
  numbers in the order of random primary keys, so a row may be given a number
  that another row has not left yet; `uq_parent_sequence` refuses it, the
  request fails after the removal was committed, and the gap stays. It takes
  three components, no second request and no crash.

The following are the same kind of consequence and have no run of their own. They
show when a configuration with one request is given a second handler, or a crash,
or when a condition of a property is dropped:

* a customer or project that documents refer to: `customers.py:119-121` and
  `projects.py:151-153` say its purge is refused; the ORM empties the references
  first, so the foreign key never refuses (`PurgeParentCommit`). Those of
  a project are then everyone's;
* two requests: `OneLiveTokenPerSession` (two refreshes of one token),
  `NewPasswordEndsOldSessions` (a login with the old password past its check is
  not among the sessions that the change ends), `AssignedAreMembers` (a member
  removed between `assign_role`'s check and its insert keeps the role),
  `DelegatedGrantsCovered` (a grant delegated from a pool while the pool's end
  is past its `DELETE` stays), the parts of `RowsConsistent` (`models.py:94` of
  document-service: two edits, one with a customer and one with a typed end
  user; two that each replace the items; trash crossing restore), `NoNewTwins`
  (also one edit of a name and one of a description), `AdditionOrderKept` (an
  addition between a removal and its renumbering), `IndexFollows` of the
  catalogue; two primary companies, which docs/data-model.md:303 and
  docs/glossary.md:16 exclude (`OnePrimary` without `raced`: a company inserted
  with the flag while another request sets it, as the other's bulk update does
  not see the inserted row); a file of one document shown with another
  (`FileIsOwn` without `overtaken`: an upload overtaken by a purge writes under
  a number that was given again);
* `/verify` (`auth.py:286`): an account that held "view" at the first query and
  lost its last role before the second is answered "edit", as
  `get_user_access_level` answers that when it finds no grant. `EditIsHeld`
  fails so with two requests;
* logins in flight: a limit may be exceeded by those that passed the check
  together, which is what `LimitsUpToRequestsInFlight` bounds. With the shipped
  limits (5 for a pair, 15 for a name, 20 for an address) fifteen of them from
  one address lock the name for everybody, which `config.py:51-54` says one
  address cannot. Nobody can prolong the lock (`LocksOnlyDrain`);
* the index of documents: what it accepted it carries out later
  (tests/test_search_smoke.py:1), and until then a search shows what a document
  was, in the project it was in. A push that is lost, by a failure or a crash,
  or that another commit crosses leaves an older record until the next edit,
  even of a purged document; `behind` has these documents and `IndexFollows` and
  `SearchAgrees` leave them out. Trash and status changes are never pushed: a
  search shows a trashed document, contrary to docs/workflows.md:158-160, and an
  old status. The names that a record copies of its customer and project are not
  renewed when these are renamed;
* a crash: `SuspensionEndsSessions` (between the two commits),
  `FiledProductsFollow` (the same for a rename); and a bulk import that is cut
  short, also by a unique violation, which it does not catch: rows done stay,
  the answer is a 500;
* by design: leaving a group keeps its project grants, and losing the last grant
  means no restriction at all; a start gives removed access back to Editor and
  Viewer; purging a project makes its documents visible to everyone, which
  search does not know before their next push; a category's new name is not
  pushed to the index; a product that is a component of another cannot be purged
  (the request fails in the database, as docs/known-issues.md:167 says, though
  products.py:666 still expects it), nor a company or director that documents
  name; any foreign key that fails in `create_document` is answered with
  "doc_number already exists"; a product whose catalogue file could not be
  stored is skipped by the next import of the same file; a read of a document,
  of the products of visible documents or of the documents of a product is two
  statements and may mix two states, which `ShownInBounds` bounds.

## 5. Proofs

TLAPS checks the theorems of the eight `*Proofs` modules for every value of the
constants, under the named `ASSUME`s of the modules (positive times and limits,
null values distinct from rows and from each other, bounds that are numbers, a
finite set of handlers for the rate limit).
None of the invariants is inductive alone. Each module states a strengthening,
shows that it holds initially, has one lemma per action that the action
preserves it, and ends in theorems of the form `Spec => []Inv` or
`Spec => [][A]_vars`.

* `SessionsProofs`: `TypeOK`, `OneHardEndPerSession`, `LiveWithinLimits`,
  `OnlyLoginsOpenSessions`, `RotationKeepsSessionsLive`, `SuspensionSettles`;
  and that `Sessions` refines `SessionLifecycle`. The strengthening says that
  every token of a session agrees with the others on user and login time, that
  its activity lies between login and now, that it expires at the earlier of
  idle end and hard end, that a session has a token issued at its login, and
  that a request past its checks remembers a token that was issued and belongs
  to a session. The successor a rotation inserts copies user, session and login
  time from such a token, which is what every step needs. Revoking changes none
  of these columns. `PromisesKeptAlone` rests on `AloneInv` for `AloneSpec`:
  until the history records an overlap or a crash, the tables are `Calm`, that
  is, one request is in flight at most, what it read is still so, a session has
  at most one unrevoked token, and a suspended user's tokens are revoked and all
  others are of the current password, but for the user whose revocations the
  request in flight still owes. `AloneSpec` implements `Spec`
  (`AloneImplements`). `OverForGood` and `AloneEndings` say what remains of
  `EndedStaysEnded`, which a race refutes: a session that is over is over for
  good unless a rotation that read its token before, whether or not it has read
  the account, is still to commit; and so always while requests do not overlap.
* `RateLimitProofs`: `TypeOK`, `LimitsUpToRequestsInFlight`,
  `CountedFailuresStay` and `LocksOnlyDrain`, for any limits. The counts are not
  inductive: the invariant adds, for each window, the requests past the check
  that aim at it, and bounds rows plus those requests. A check passes below the
  limit, a record turns a request into a row, and time only removes rows from a
  window. Row identities are distinct, which is what makes an insertion count
  once. `CountedFailuresStay` needs the types alone. `LocksOnlyDrain` is the
  safety half of `LocksHeal`: while a limit is full and nobody past the check
  aims at it, it lets nobody pass and counts nothing new, and what it counts
  grows older or goes. What is left to TLC is that time passes.
* `AccessControlProofs`: `TypeOK`, `ReferencesHold` and `OutsidersGainNoRole`
  for every interleaving and crash. `AccessInv` is the first two together: what
  a request inserts is checked by the foreign keys once more at its commit, and
  what a deletion leaves is what the cascades leave. With one request at a time,
  crashes and restarts included: `HoldingsRestOnMembership` and
  `CoveredGrantsStay`. `AloneInv` says that what a request read between its
  steps (the membership, the pool, the grants to strip and those stripped so
  far) is what the tables still have, and that the history names an
  administrator only for grants that exist: the end of a pool strips the grants
  it finds, and would leave the name of any other behind.
* `DocumentsProofs`: `TypeOK`, `ReferencesHold`, `VanishedStaysVanished` and
  `IndexFollows` for every interleaving and failure. `DocumentsInv` adds the
  shape of what requests remember, above all that the writes no foreign key
  looks at (trash, restore, status and the columns left out) carry no column
  that has one. `IndexInv` is what the index needs: of a document that is not in
  `behind`, whatever a request gathered or is about to push agrees with the row,
  and the last task accepted does too or some request has its push, or its
  removal, still to come; and only a purged document is removed. A commit either
  finds no such push of another request, and then its own will follow, or puts
  the document into `behind`.
* `VisibilityProofs`: `ShownInBounds` (`ReadersOK`: what is visible now is among
  what was visible at some time, what was visible all the time is visible now)
  and `SearchAgrees` (from `IndexInv`: between requests a record without tasks
  agrees with the row) however documents are edited; and, while one request
  writes at a time, `RowsConsistent`. `RowsInv` says that the rows agree and
  that what the request has read is what the tables still have; crashes and
  failed pushes leave it alone, as every rule on rows is kept within one commit.
* `CompaniesProofs`: `TypeOK`, `OnePrimary`, `PrimaryLostByChoice` and
  `ReferencesHold` for every interleaving and crash. `CompaniesInv` adds that a
  company to be inserted is not there yet and has one creator, that held rows
  exist, and that unless a race was recorded the snapshot of a request that sets
  the flag has every company that exists.
* `FilesProofs`: `TypeOK` and `FileIsOwn` for every interleaving and failure.
  `FilesInv` adds that no two rows have one key, that a row to be inserted is
  not there and has one creator, and that an upload has the key of its row while
  the row exists; once the row is purged, the key is noted as overtaken, or the
  object was stored before.
* `CatalogueProofs`: `TypeOK` and `ReferencesHold` for every interleaving,
  failure and crash; and, with one request at a time, `NoNewTwins`,
  `FiledProductsFollow`, `IndexFollows` and `AdditionOrderKept`, for bundles and
  files of any length. `CatalogueInv` adds the two unique constraints and the
  shape of what requests remember. `ReadsInv` adds that a request's reads are
  current (an import has seen the key of every active product, an addition has
  the highest number plus one, a renumbering the positions), which is enough for
  `NoNewTwins` and `AdditionOrderKept` whatever crashes or fails. `AloneInv`
  adds that the index is right about every product but the one its request is
  about to push or remove, and that a product that left its category's name has
  a request about to carry it there: `IndexFollows` and `FiledProductsFollow`.
  That order survives a renumbering is because positions rise with numbers
  (`PositionsRise`), whether the constraint lets it pass or not.

`OneAtATime` (there are no two handlers) is a hypothesis of the theorems that
need it. All theorems are about the specification with every crash, restart and
failed push, except `FiledProductsFollow` and `IndexFollows` of the catalogue,
which say what a second commit or a push owes, and which are about the one
without them. Section 4 says what breaks them otherwise.

Model-checked only: `LocksHeal`, as liveness is beyond this prover.

## 6. Not modelled

* **Web application**: tabs share one cookie, space their refreshes by a
  timestamp in `localStorage` and log out when idle. What a tab does between two
  timers is up to the browser (throttling, order of storage events), which the
  source does not settle; a model would be of those guesses. What tabs can do to
  the services, any call at any time with any token ever issued, is in
  `Sessions`.
* **Gateway and trust between services**: routing and the constant-time
  comparison of a secret; the answer it forwards is `/verify`'s.
* **Quotation exports**: layout of one read-only request. The read it starts
  with is `OpenDocument`.
* **Schemas, migrations, start-up, deployment, tests, scripts**: field
  validation, framework wiring and one-time work. The seeding at each start is
  in `AccessControl`. `logo-square-fix` is an older copy of document-service
  files.
* Parts of modelled components: hashing, signing and the refusal of weak secrets
  (pure calls); the byte-level checks of uploads and signed URLs; ranking and
  the limit of a search; renaming and the recycle bin of customers and projects;
  prices, names, addresses, dates and short terms, from which no rule is
  computed.
