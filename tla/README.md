# TLA+ models of the tuition-matching service

The repository is a small marketplace: parents post tutoring cases, invite tutors,
accept one of them, and both sides exchange documents. A NestJS backend over Postgres
(Prisma) and an S3-compatible object store serves a JSON API with bearer tokens; a Next.js
frontend keeps the tokens in httpOnly cookies and calls the API through route handlers
(the "BFF"). Both processes run in one container.

Everything below is translated from the code. Paths are relative to the repository root.

## 1. Inventory

### Components, their state and operations

| Component | State | Operations | Talks to |
|---|---|---|---|
| Token service, `backend/src/auth/token.service.ts`, `auth.service.ts`, guards | rows of `oauth_access_token`, `oauth_refresh_token` | `login`, `issuePair`, `rotate`, `revokeFamily`, `verifyAccess`, `logout` | Postgres; called by every guarded endpoint |
| Registration, `auth.service.ts:17-44` | rows of `user`, `tutor_profile` | `register` | Postgres |
| Cases and invites, `backend/src/cases/cases.service.ts`, `case-access.service.ts` | rows of `case`, `case_invite` | `create`, `update`, `list`, `findOne`, `invite`, `revokeInvite`, `listInvites`, `acceptTutor`, `recommend` | Postgres |
| Documents, `backend/src/documents`, `backend/src/storage` | rows of `document`, objects of the bucket | upload, list, soft delete, presigned download, on cases and on profiles | cases (`getViewableCase`, `getUploadableCase`), object store |
| Tutor profiles, `backend/src/tutor-profiles` | rows of `tutor_profile` | `upsertOwn`, `getOwn`, directory, `getById` | Postgres |
| Recommendations, `recommendations.service.ts` | none | score, sort, first five | reads profiles and invites |
| Pagination, file checks, `common/pagination.ts`, `documents/mime.ts`, `frontend/src/lib/uploads.ts` | none | pure functions | |
| BFF, `frontend/src/app/api`, `lib/auth-server.ts` | two cookies in the browser, nothing on the server | `login`, `logout`, `me`, `refresh`, `register`, proxy with silent refresh | backend over HTTP |
| Client session, `middleware.ts`, `lib/use-auth.ts`, `components/auth-gate.tsx` | React Query cache, current page | redirects, login, logout | BFF |
| Signed-in pages, `lib/use-cases.ts`, `app/cases`, `components/invite-tutor.tsx`, `recommendation-panel.tsx` | filter and page number, cached queries, mutations in progress | show, search, invite, revoke, accept, close | BFF proxy |
| Uploads, `components/file-dropzone.tsx`, `case-documents.tsx`, `app/profile/page.tsx` | selected files, progress list, cached list of documents | select, upload, delete | BFF proxy |
| Container boot, `start.sh`, `main.ts`, `railway.toml` | two processes | migrate, start, wait for health, exit together, restart | Postgres |
| Seed, `backend/prisma/seed.ts` | all tables | wipe, upsert a fixed file | Postgres, object store |

### What is hard here

* **No transaction spans a decision and its write.** Every operation reads a row, awaits,
  and writes later without a condition on what it read. Only the two writes of a
  revocation are in one `$transaction`. Any two requests of the backend interleave at
  every await.
* **A request may die between two awaits** (a rejected query, a restart). Nothing is
  compensated: a rotation that dies has revoked the old pair and issued no new one, an
  upload that dies has left an object without a row.
* **The BFF is stateless and concurrent.** Each handler works with the cookies of the
  moment its request left the browser; answers arrive in any order or not at all, and each
  may overwrite both cookies.
* **Two stores without a common transaction**: the bucket and the `document` table.
* **Every page works on old data.** A mutation and the queries it changes are separate
  requests; React Query joins, restarts or forgets fetches depending on what is mounted,
  and buttons are disabled by their own mutation only.
* **Rules written twice**: visibility in `list` and in `getViewableCase`; sessions in
  `middleware.ts` and in `AuthGate`.

What makes each component correct, in a sentence: *tokens* that were logged out, rotated
away or revoked stay dead and a live pair is traded for exactly one; *cases* change only by
their owner and are matched once, to an invited tutor; *documents* appear only where the
upload matrix allows, always with an object, and go only by their uploader; the *BFF* never
acts for another user, never runs a request twice and keeps a session until it is ended;
a *page* at rest shows what the server has and
offers nothing that will be refused (a delete and a revoke are where the code falls short of
this); a *seed* leaves exactly its file and a *container* serves with both processes or gives up.
`PROJECT.json` lists each hazard at its line with the properties that would notice it.

## 2. Modules

| Module | Models | Role |
|---|---|---|
| `TokenService` | token service, one action per awaited statement | detailed |
| `Sessions` | what D3 promises: a live pair is traded for one pair, reuse kills the family | abstract |
| `TokenServiceProofs` | inductive invariant of `TokenService` and theorems, the refinement of `Sessions` among them | proofs |
| `CaseWorkspace` | tables `case`, `case_invite` and the owner's operations | detailed |
| `CaseContract` | what D8 and D10 promise, one atomic step per endpoint | abstract |
| `CaseWorkspaceProofs` | inductive invariant of `CaseWorkspace` and theorems, a refinement proof among them | proofs |
| `CaseDocuments` | documents and the object store, **composed with** `CaseWorkspace` | detailed |
| `Bff` | cookies and route handlers, **composed with** `TokenService` | detailed |
| `SessionGate` | one browser tab: middleware, redirect effects, the cached session; a backend abstracted to the sessions it accepts | detailed |
| `Accounts` | registration, the tutor's own profile, the paged directory | detailed |
| `BffProofs` | inductive invariant of `Bff` and theorems | proofs |
| `CaseDocumentsProofs` | inductive invariant of `CaseDocuments` and theorems | proofs |
| `AccountsProofs` | inductive invariant of `Accounts` and theorems | proofs |
| `SessionGateProofs` | inductive invariant of `SessionGate` and theorems | proofs |
| `PagesProofs` | inductive invariants of `CaseBoard`, `CaseList`, `Uploads` and `Recommendations`, theorems of the tab | proofs |
| `DeploymentProofs` | inductive invariants of `Boot` and `Seed` and theorems | proofs |
| `CaseBoard` | the owner of a case in one tab: the case page, the list, their queries and mutations | detailed |
| `CaseList` | the list of cases: filter, pager, cached pages, a server that changes | detailed |
| `Uploads` | dropzone, batches of uploads, list of documents and its deletes, on a case or a profile | detailed |
| `Recommendations` | scoring and ranking of tutors over profiles that change | detailed |
| `Boot` | `start.sh`, the backend's start, the platform's restarts | detailed |
| `Seed` | the seed's file, its wipe and upserts, by several processes | detailed |
| `MCPages`, `MCDeployment` | instances in which a behaviour is one of the four pages, or a boot or a seeding | model checking |
| other `MC*` | symmetry sets and views for TLC | model checking |

### How the models correspond to the code

**TokenService.** An access token (a JWT whose `jti` has a row) and the refresh token issued
with it are one value of `Pairs`; `access[p]` and `refresh[p]` say whether each row is absent,
live or revoked, `aExpired` and `rExpired` whether it is past `expiresAt`. `pc[r]` is the await
that request `r` is at; `reqUser`, `reqPair` and `reqIds` are the local variables that survive
it. `IssueAccess` and `IssueRefresh` are the two `create` calls of `issuePair`;
`RotateReuse`, `RotateAccept` are the outcomes of `rotate`'s read, `RotateRevoke` its write;
`FamilyRead` and `FamilyRevoke` are `revokeFamily`'s `findMany` and `$transaction`;
`VerifyAccess` is the guard. Requests that are refused without a write have no action.
`Fail` may end any request at any await. `issued`, `parent`, `condemned`, `doomed` and
`loggedOut` are history that the properties speak about; no action reads them except that a
client can only present a pair that was issued.

**CaseWorkspace.** A request past `getEditableCase` holds the snapshot it read
(`foundStatus`, `foundMatched`). `AcceptCheck` reads the invite and decides on the snapshot,
`AcceptWrite` writes unconditionally, as `acceptTutor` does. `update` sets any status, because
the DTO allows any. `MayView` is the visibility rule as a predicate, `Listed` is the `where`
clause of `list`.

**CaseDocuments.** A document request of a tutor reads the case (`CaseRead`), then the invite
(`InviteRead`), then acts; an upload is `Put` (object store) then `Insert` (row). A tutor
stands for his profile too. Deletion is soft and leaves the object. Requests of
`CaseWorkspace` and document requests share the slots `Reqs`.

**Bff.** Request `r` of the browser and the backend request its handler makes share the slot
`r`. `call[r]` is the stage of the handler with the cookies the request carried and what its
answer will do to the cookies; `Receive` applies it, `Lose` drops it, `Failed` is a backend
call that answers 5xx or 429 or throws. Requests are distinguished by `kind` only as far as
handlers treat them differently: `me` clears the cookies when its retry fails and the proxy
does not; a `post` (any request with a body) throws when the proxy reads the body a second
time for its retry; a `delete` throws when its 204 is rebuilt with a text (`Rebuilt`),
at the first call as at the retry, after the backend has done it. `mishaps` is a
ghost that records what went wrong since the browser signed in.

**SessionGate.** `page` is `usePathname` up to three classes, `nav` a navigation on its way
through the middleware (`Gate`), `due` whether a `useEffect` has dependencies that changed:
an effect whose redirect is bounced to the page it came from does not run again. `session` is
the data of the `AUTH_ME_KEY` query, `Unknown` before the first answer and `NoLogin` for
`null`. `inflight` holds the requests to `/api/auth`; an answer writes the cookies when it
lands (`Arrive`), also that of an *orphan*, a me whose query was refetched meanwhile. `ReceiveLogin`
is `onSuccess` with `invalidateQueries`, which joins a fetch that is on its way when there is
no data yet (`Join`) and otherwise gives it up for a new one (`AskAnew`). "Log out" is never
disabled, so any number of logouts is on its way (up to the bound `MaxLogouts`, told apart by
`nr`), of which only the latest still runs its `router.replace`; a sign-in form waits for its own
login only, and one that was left (`FormUnmounts`) no longer holds anything back: a new form can
submit while the old login is on its way and takes the user to `/cases` when it is done. `held`
says that somebody still listens. React, React Query and the Next router are modelled from the way the code uses
them and marked external. A tab is followed up to its first mishap (a failed request, or an
answer that overwrote the cookies of another sign-in) and again after a reload. There is one
tab, and a user who keeps reloading a spinner is left out.

**Accounts.** A registration holds its arguments across the awaits of `register`: `Register` is
the look-up of the e-mail, `InsertUser` and `InsertProfile` the two `create` calls, which the
unique indexes may refuse (`Fail`). There is no transaction, so a user row may be left without
its profile; the tutor can still sign in and `UpsertOwn` one. `tour` is a client that reads
`GET /tutor-profiles` from page 1 to the `totalPages` of the page it has. Under Postgres's
default isolation the two statements of `listDirectory`'s transaction see two snapshots, so
`CountRows` and `ReadPage` are two actions; rows with the same name come in any order
(`Orders`). `owed` and `steady` are the ghosts that say which tutors a tour may not miss.
A profile is its display name, and names are numbers in collation order.

**CaseBoard.** `flight[k]` is the fetch of the query `k`: sent, then read at the server, then
received, or failed. A mutation is served, its answer runs the first of its `Rounds` of
`invalidateQueries`, and `NextRound` the following ones, each when the fetches of the last have
ended (`Changes` are the keys it owes that to). A revoke is served, but its answer is a 204 that
throws in the proxy (`Outcome`), so it always ends in an error and has no rounds. The update of
`useUpdateCase` awaits none and releases its button with the answer
(`held`). What is mounted follows from the data (`Mounted`): an error of the case hides the
panels, a case that is not `OPEN` has no suggestions. React Query is modelled from how the code
uses it: an invalidation restarts the fetch of a mounted query that has data, joins a first fetch,
leaves a fetch of an unmounted query alone, and a query that mounts is fetched when it was
invalidated. `drift`, `sure` and `hasty` are ghosts: queries behind a change the tab was not told
of, or shown again with data that was invalidated meanwhile (`Outdated`), until they are fetched;
buttons pressed when the user could rely on what he saw (`Sure`: nothing else in progress, no
fetch failed, nothing in `drift`); revokes that were not.

**CaseList.** A query key is filter and page number; `last` is the key whose data
`placeholderData` shows in the meantime, so the pager may still be that of another filter. `Count`
and `Find` are the two statements of `list`. `lost` and `jumped` are the ghosts that say when an
empty page behind the last one has a reason.

**Uploads.** `mode` tells the two pages apart. A batch number stands for a mounted section and its
selection: `Mark` is the closure that marks line `i`. `picked` is the dropzone's own state, `file`
the profile page's. A request is answered, or its connection is lost and the server may store the
file later. A delete that was done is answered with an error as well, for the same 204, and the
list is not fetched again: `gone` are the documents it may go on showing. `ServerTakes` has multer's limit, the size check and the magic bytes; whether multer
accepts a file of exactly the limit is left open.

**Recommendations.** Texts are sets of tokens, display names places in their order. The rows come
in any order and the sort is stable.

**Boot.** `step` is the line of `start.sh`, `proc` its two processes. `CallWait` may forget a
process that ended before (`missed`): whether `wait -n` reports it depends on the shell's version.

**Seed.** The file's 3 parents, 10 tutors, 12 cases, 14 invites and 9 documents with their
references, in the order `main` writes them; `rows[i]` says whether row `i` is absent, as in the
file, changed, or an account registered under its e-mail. Any seeder may die before any row. An
upsert is two steps: `Look` finds the row of its `where` or not, `Upsert` then writes what that
asks for (`plan`). For an invite, whose update is empty, the first is a query of its own
(`seed.ts:637`), so a row that another seeder creates in between is refused (`MustClash`), and one
he wipes is missed; for the other tables, native upserts, only a second unique key can clash
(`MayClash`). `joined` is the ghost that says whether another seeder has written since the last
wipe.

### Abstractions

Passwords, roles inside tokens, hashing, DTO validation, what a search filter matches, formatting, names and
file contents are left out: no property depends on them. A user's role never changes (no
endpoint does). A database statement, and an array `$transaction`, is atomic. Time is the
nondeterministic `Expire*` actions. The refusals 400, 401, 404, 409, 413, 415 appear only where
they end a request that had begun; a refusal on arrival changes nothing and has no action.
In `Bff` the expiry of a revoked token that is in no cookie is left out.

## 3. Runs

| Run | Bounds | What it shows |
|---|---|---|
| `token_concurrent` | 1 user, 3 pairs, 2 requests | Overlapping requests, failures and expiry: dead pairs stay dead and admit nothing. Three pairs allow a rotation, its overlap with a second rotation or login, and a reuse. |
| `token_serial` | 2 users, 3 pairs, 1 request | Without overlap `TokenService` implements `Sessions` (a refresh token is spent once, and only a user's own requests revoke his tokens), and a family revocation is complete. |
| `token_family_race` | 1 user, 3 pairs, 2 requests | **Violation** of `FamilyRevocationIsComplete`: see findings. |
| `case_two_accepts` | 1 parent, 2 tutors, 1 case, 2 requests | **Violation** of `MatchIsFinal`. |
| `docs_concurrent` | 1 parent, 2 tutors, 1 case, 1 document, 2 requests | A matched tutor was invited, rows have objects, uploaders are participants, deletes are the uploader's, under every overlap of two requests, document requests and the owner's alike. Requests touch one case each, so one case is enough. |
| `docs_serial` | 2 parents, 2 tutors, 1 case, 2 documents, 1 request | Without overlap the case endpoints implement `CaseContract` (a match is final and goes to an invited tutor), only the owner changes a case, `list` and `findOne` agree, and the upload matrix and the visibility rules hold when a case is shown or a document inserted. |
| `bff` | 2 users, 2 pairs, 2 requests, kinds me, get, logout, post | A request is never served as another user nor run twice, with failed calls and lost answers; the silent refresh keeps the browser signed in, and only a logout, the expiry of the refresh token or a mishap ends the session. Two pairs give either a rotation that overlaps another request or a change of user. |
| `bff_retry` | 1 user, 3 pairs, 1 request, every kind | **Violation** of `SilentRefreshKeepsSession`. |
| `gate_tab` | 2 sign-ins, 2 logouts at once, any number of reloads | The cached session and the cookies agree whenever no me is on its way, and every spinner ends. Two sign-ins let an answer meant for the first user land in the session of the second, or the login of a form that was left overlap that of the next; two logouts let the earlier land after the later. |
| `accounts` | 3 e-mails, 3 names, 2 registrations, pages of two | Overlapping registrations of one e-mail have one winner, whose role is stored; a profile saved before `register` has finished stays; a client that pages through the directory misses nobody. Three accounts fill a page and a half, two registrations race for an e-mail or shift the pages together. |
| `tab_pages` | case: 2 tutors, 2 buttons pressed, 1 fault; list: 2 cases, pages of one, 1 change, 2 requests; uploads: 3 files, 2 selections or mounts, 2 faults; suggestions: 3 tutors, best two | One page at a time. At rest it shows what the server has, but for what was deleted or revoked; what is pressed on data that missed nothing is not refused; a matched tutor keeps his invite; a line of the progress list tells of its own file; the file named is the file sent; an empty page of the list is the first one; nobody left out of the suggestions should have been in. Two buttons are enough for an overlap of two mutations, a fault for a lost answer, a failed fetch or a page that is left; two pages and two filters for a stale pager; two files for answers out of order; a third tutor for the cut. |
| `deploy` | 30 probes, 10 restarts, 3 outages; 2 seeders, 1 repetition, 1 write of the application to a row of any table | With the limits of the code a container ends up with both processes or has spent its restarts, and waits for nothing for ever; the seeder that wiped last leaves exactly its file, whoever died or still runs, and has a row refused as a duplicate only when another one writes next to it. |

Sets are symmetric in every run but `gate_tab`, `deploy` (both check liveness) and the three pages
of `tab_pages` that have no tutors. `bff` uses a view that hides the history variables of
`TokenService`: no guard of `Bff` and no property of the run depends on them. The view of
`gate_tab` identifies states that differ only in what can no longer have an effect
(`MCSessionGate.tla` says why). In `tab_pages` and `deploy` a behaviour is that of one module
while the variables of the others keep one initial value: their queries have different keys, and
a container and a seed share nothing but the tables, so the run is the sum of its parts.
Every property of a passing run has a mutant in `PROJECT.json`, a plausible bug that the run
then reports.

Two runs assume fairness, and only weak fairness. In `gate_tab` the browser runs a due effect and
resolves a navigation, the BFF answers a me request and the answer arrives. Nothing in the code
blocks these steps; a request that never ends is `Lose`, after which nothing is claimed. In
`deploy` the shell goes on with its script (`Script`; `wait -n` is enabled only when there is
something to report), the backend's `bootstrap` ends, and the platform restarts a container that
failed. Users, clocks, crashes and failures are free. All other properties are safety properties
and their requests may stop anywhere (`Fail`, `Lose`).

Nothing here waits for anything else, so deadlock is checked in all runs but two: the user of
`tab_pages` stops when his bounded number of buttons, selections and faults is used up, and in
`deploy` a container that gave up and seeders that are done stop.

### Findings

* `token_family_race`: `revokeFamily` revokes refresh rows by ids it read before its
  transaction. A pair issued in between keeps a live refresh token, against the comment
  "Revoke every access + refresh token belonging to a user."
* `case_two_accepts`: `acceptTutor` decides on a snapshot and writes unconditionally, so two
  overlapping accepts of different tutors both answer 200, where D10 says 409.
* `bff_retry`: the proxy reads the request body again for its retry, which throws after the
  rotation; the comment says bodies are forwarded on the retry. The first write after the
  access token expired fails and costs the session.

Three more disagreements are in the models and no run of their own reports them:

* **No DELETE is ever answered with success.** The three DELETE endpoints answer 204
  (`documents.controller.ts:79`, `tutor-profiles.controller.ts:99`, `cases.controller.ts:122`), and
  the proxy rebuilds every answer as `new NextResponse(text, {status})` (`route.ts:87-88`), which
  the `Response` constructor refuses for a 204 even when the text is empty. So every delete and
  every revoke, not only a retried one, is done and reported as a 500: `api.ts:31` rejects, no
  `onSuccess` runs, nothing is invalidated. The document stays listed where
  `docs/frontend.md:104` says that it "disappears from the list immediately", and the tutor where
  `invite-tutor.test.tsx:124` says that "the row disappears". A second Delete or Revoke is refused
  with 404 and an Accept with 400, until something else has the list fetched. The tests mock the
  API above the proxy. After a silent refresh the throw loses the rotated pair as well. The model
  takes this path and no other (`Uploads!DeleteAnswered`, `CaseBoard!Outcome`, `Bff!Rebuilt`);
  the ghosts `gone` and `drift` keep the rows that stay out of `ShownIsCurrent` and
  `OffersAreHonoured`, which say that nothing else is shown or refused.
* **Who may upload.** The comment of `uploadToCase` says "Allowed for anyone who can view the
  case" (`documents.service.ts:53`); the matrix it calls (`case-access.service.ts:54-58`) turns
  away every viewer of a closed case, its owner and matched tutor included, and on a matched case
  every tutor but that one. `UploadsAreStillAllowed` is about the matrix, which the code follows.
* **An upload onto a closed case.** `uploadToCase` asks the matrix, puts the object and inserts
  the row without asking again (`documents.service.ts:59-61`), so a case closed meanwhile receives
  the document although `case-access.service.ts:55` says that "nobody may upload".
  `UploadsAreStillAllowed` therefore fails as soon as two requests overlap, and is checked and
  proved of requests that do not.

Four more interleavings break what holds without overlap; the passing serial runs state the
properties and these remarks say where they stop: two overlapping rotations of one refresh
token both succeed (against `ImplementsSessions`); an accept can overlap the revocation of its
invite (against `ImplementsContract`); the two reads of `getViewableCase` can straddle a change of
status and an invite (`ShownToEntitled`); two overlapping silent refreshes sign the user out
(`NoSpuriousSignOut` excuses them as mishap `overlap`).

Three remarks on the client, found while writing `SessionGate` and excused there as mishaps or
left out: a me that answers 502 leaves a tab with cookies and no user, which AuthGate sends to
`/login` and the middleware back, on its spinner until the window gets the focus; a first me
still on its way at a sign-in answers 401 after it and clears the new cookies
(`use-auth.ts:49`, `me/route.ts:13`); and logout resets the session query only, so cached cases
of the previous user are shown to the next one of the same tab for up to a minute
(`use-auth.ts:56`, `query-provider.tsx:12`).

Four on accounts: overlapping registrations of one e-mail answer 500 where the documents say
409, and so does a registration whose tutor saved a profile meanwhile (`auth.service.ts:23`,
`:34`); a registration that dies between its inserts leaves the tutor without the profile that
`docs/decision.md:143` counts on; a row inserted between a page's count and its rows pushes
another beyond `totalPages` (`PagingMissesNobody` excuses it); and `app/tutors/page.tsx` offers
no way past the first page of the directory.

On the pages, found while writing `CaseBoard`, `CaseList`, `Uploads` and `Recommendations`, and
excused there by ghosts or left out:

* a tutor whose list shrinks while he is on page 2 is told that there are no invitations, and the
  pager has gone with the second page (`lost`); Next on the pager of another filter, shown as
  placeholder, leads to the same place (`jumped`, `app/cases/page.tsx:75`, `:123`);
* an invalidation that meets a first fetch joins it, and one that meets a fetch of a page that was
  left does not restart it: an answer read before the change then counts as fresh for a minute
  (`drift`);
* accept and revoke are disabled separately (`invite-tutor.tsx:149`, `:157`): pressed one after the
  other they leave a matched case without the invite, and its page says "No matched tutor"
  (`hasty`); the panel of suggestions and the search have an invite mutation each;
* closing releases its button before the case is fetched again, so Accept is still offered on a
  case that was closed, and reopens it as `MATCHED`;
* a page of a case that is left during a mutation and opened again shows the data it had while what was invalidated meanwhile loads, and its buttons are enabled (`invite-tutor.tsx:133`):
  after an accept that was answered on the other page a second tutor can be accepted there, and is
  refused (`drift` by `Outdated`);
* a file of exactly 10 MB passes the check in the tab, and whether it passes multer's is the
  library's choice; the two pages differ in whether a batch with a failure fetches the list;
* "Deterministic" (`recommendations.service.ts:13`) does not hold for namesakes of equal score at
  the cut of five, as the query has no order;
* the profile page takes every error of its query for a profile that does not exist
  (`app/profile/page.tsx:59`): after a failure it shows an empty form, and saving it blanks the
  profile.

On deployment: the header of the seed says that re-running is safe, which holds of one seed after
another; of two at once either may exit 1, on a row the other has wiped or on an invite the other
has created after it was looked for (`seed.ts:637`), and the last to wipe may be that one
(`SeedIsRepeatable` allows it a duplicate when `joined`). The loop of probes falls through after thirty although its comment says to wait, so
the frontend may be exposed before the backend (`start.sh:23`); a backend that dies between its
last probe and `wait -n` may go unnoticed, depending on the shell (`missed`). The header of the seed
counts 5 open and 4 matched cases, its file has 6 and 3; `S3_FORCE_PATH_STYLE=false` is false for
the seed (`seed.ts:503`) and true for the backend, whose `z.coerce.boolean` takes any non-empty
text for true (`env.ts`).

## 4. Proofs

All proofs hold for any number of users, pairs, parents, tutors, cases, files and overlapping
requests, and for every value of the bounds. They rest on the named assumptions of the modules
only: `TokenConstants`, `WorkspaceConstants`, `PlacesAreDistinct`, `AccountConstants`,
`BffConstants`, `GateConstants`, `PagesConstants`, `DeploymentConstants`. These say that "no row"
is not a row, parents are not tutors, cases are not tutors, names and cases are numbers, e-mails,
tutors, tokens and cases are finitely many, there is a case to page through, a page and the loop of
probes have at least one place, bounds are numbers, and a token is not one of the words for what
a response does to the cookies; `FileIsPlausible` is about the file of the seed, which is not a
parameter.

* **`TokenServiceProofs`**. `IndInv` strengthens the promises about dead pairs by `RowsInv`
  (which rows exist), `RequestInv` (what a request may rely on at each await: for instance
  that a request about to issue a pair has already killed the one it was given) and `FreshInv`
  (no two requests issue the same pair). The promises alone are not inductive: that
  `loggedOut` pairs are dead is kept only because a write that makes a row live goes to a pair
  that was never issued, which is `RequestInv`. The step theorem has a lemma per part; a
  central one, `RowsMoveForward`, says that rows never move from revoked back to live.
  Theorems: type correctness, `LoggedOutPairsAreDead`, `DoomedPairsAreDead`,
  `RotatedPairsAreDead`, `RefreshDiesWithAccess`, and the action properties
  `NoAdmissionOnDeadPair` and `RevokedByOwnRequest`; and, assuming that requests do not overlap
  (one slot), `FamilyRevocationIsComplete` and the refinement `ImplementsSessions`: every step of
  `TokenService` is a step of `Sessions` or leaves its variables alone. Both need
  `ReadsAreCurrent`: what a request has read of the rows is still so when it writes. What is owed
  is a `Cardinality`; with one slot it is one or nothing (`OneIsOwed`).
* **`CaseWorkspaceProofs`**. `IndInv` is type correctness, `JobInv` (a request in flight acts
  for the owner of its case, because owners never change), `InviteInv` and
  `MatchedWasInvited`. Theorems: type correctness, `MatchedWasInvited`, `ListAgreesWithView`,
  `ChangedByOwnerOnly`, and, assuming that requests do not overlap (one slot),
  `ImplementsContract`: every step of `CaseWorkspace` is a step of `CaseContract` or leaves
  its variables alone. `SnapshotIsCurrent` is the extra invariant that proof needs.
* **`AccountsProofs`**. `AccountsInv` strengthens type correctness, `CreatedMeansStored`,
  `SavedProfileKept` and `PagingMissesNobody` by `BootstrapInv` (between its two inserts a
  registration is the only one for its e-mail, and nothing was answered for it), `FreshInv` (an
  e-mail without a user has left no trace) and `PagingInv` (whatever a tour has not shown yet has
  at least as many rows before it as the pages it has read could hold). Without `BootstrapInv` a
  second registration could answer for the same e-mail. The paging argument rests on three
  lemmas: `PlaceIsRank` (in every order `findMany` may return, a row's place is one more than the
  number of rows before it), `LastPage` (the rounding of `totalPages` reaches the last row) and
  `WriteStep` (an insert or a move towards the front takes nobody from before a row).
  Theorems: type correctness, `CreatedMeansStored`, `SavedProfileKept`, `PagingMissesNobody`.
* **`CaseDocumentsProofs`**. `DocumentsKeepWorkspace` says that `DocSpec` implements `Spec`, so
  that the theorems of `CaseWorkspaceProofs` hold next to documents. `DocInv` adds to the
  invariant of the cases what a request is about at each await (`GoalInv`), that an upload in
  flight has its key to itself and, past the checks, a user who took part in the case
  (`UploadInv`), that a delete about to write holds its own row (`DeleteInv`), and what a row says
  of itself (`RowInv`). None of the stated properties is inductive without them: a row is written
  long after what it relies on was checked. Participation is kept by the owner's steps because
  owners and `everInvited` are never taken back (`ParticipantsStay`). Theorems: type correctness,
  `RowsHaveObjects`, `UploadedByParticipant`, `DeletedByUploader` at any concurrency, and, with
  one slot, `ShownToEntitled` and `UploadsAreStillAllowed`, by `SerialInv`: the snapshot a request
  took is still the row.

* **`SessionGateProofs`**. `GateInv` is type correctness (with one me at most, and one login and
  one logout at most that are still listened to), `RequestsInv` (what each kind of request may
  answer) and `CacheInv`, which says under which conditions the cache may be behind the
  cookies while a me is on its way. `CacheAgreesWithCookies` speaks of quiet moments only and is
  not inductive: what makes the next quiet moment right is that a me on its way carries the
  cookies of now, or that the document waits for its first answer and its spinner keeps the user
  from everything else (`Fresh`). Theorems: type correctness, `CacheAgreesWithCookies`.

* **`PagesProofs`**, one part per page.
  *Uploads*: `UpInv` adds to types and `UploadsReported` that an upload the tab waits for owns an
  open line of its batch or belongs to one that was left (`RequestsInv`), that on the profile page
  one upload holds the button (`ProfileInv`), that the list shown is, but for the deleted, what is
  stored or an answer is due that will have it read again (`ListInv`), and that what was deleted is
  not stored and no request still on its way stores it again (`GoneInv`).
  *Suggestions*: `SuggestionsAreBest` is inductive; its proof rests on `PlacesInOrder` (the
  numbers of predecessors in a total order on `1..n` are exactly `1..n`), from which the sort of
  the answer is a permutation in order.
  *List*: `CasesInv` adds that the pager of a cached or requested key never counts more pages than
  its filter has, unless cases left it (`PagerInv`), and that a key is fetched once at a time.
  *Case page*: `BoardInv` adds what each cached query and each fetch may hold: what the server has,
  or something a mutation past the server has yet to invalidate in one of its remaining rounds
  (`QueriesInv`, `Owes`); that what is shown though it was invalidated is what the round of some
  mutation waits for, so that its button is held back (`Awaits`), or is in `drift` or failed; and
  that a mutation pressed when `Sure` is alone and will be taken (`OffersInv`). A revoke that was
  served leaves its keys in `drift` and owes nothing, as no round of it will ever run. `PageIsCurrent` says nothing while a mutation settles, so it is not inductive;
  the debt is what carries over. `RoundsReach` shows that each mutation that succeeds owes every query it
  changes, which is the point of the lists of keys in `use-cases.ts`.
  Theorems: type correctness and all seven properties of `tab_pages`.

* **`DeploymentProofs`**. `SeederInv` says of the seeder that wiped last, while it runs, that the
  rows behind it are those of the file and the ones before it are absent or put there by another
  seeder, that what it has found is still there, and that what it has not found is there by now
  only if another seeder has joined (`Ahead`). So it misses no row, and a duplicate has a cause:
  every row refers to rows that come before it
  (`RefsComeFirst`, proved table by table with `Layered`). `ScriptInv` says what the lines of
  `start.sh` may rely on. Theorems: type correctness, `SeedIsRepeatable`.

* **`BffProofs`**. `BffKeepsTokenService` says that `BffSpec` implements the `Spec` of
  `TokenService`, so that the theorems about tokens hold behind the cookies. `BffInv` adds to
  their invariant what a handler may rely on between two calls of the backend while other
  answers rewrite the cookies (`HandlerInv`): both cookies are of one pair or one of them is gone
  (`IsJar`), which request of the backend is its own and whose pair it carries (`StageOK`), and
  how often it ran (`KindOK`). `ServedAsSender` needs it: the pair a retry runs with is one the
  rotation issued for the owner of the refresh cookie. What a browser without mishaps (no overlap,
  failed call, lost answer, retry that threw, or token that expires on its way) may hope for is
  `SessionInv`: one request in flight, what it found is live until it rotates, and what it brings
  back is live (`SoundCall`). It is proved relative to `BffInv`.
  Theorems: type correctness, `ServedAsSender`, `AtMostOnce`, `SessionSurvives` and the action
  property `NoSpuriousSignOut`.

The inductive invariants, `RefreshDiesWithAccess`, `RevokedByOwnRequest`, `ReadsAreCurrent` and
`SnapshotIsCurrent` are proved and no run checks them; each was model-checked before it was proved.

Two attempts failed for a good reason. The invariant that `OffersAreHonoured` needs was false with
two faults, where the run allows one (the page that is opened again, under Findings): the property
was right only because of the bound. That page is now in `drift` until it is fetched, and the
theorem holds for every bound; to excuse all invalidated data instead would have been too weak, as
a mutation that awaits none of its queries (`AnsweredIsOver`) then breaks nothing. And the refinement mapping `PairState` had a `CASE` whose guards were exclusive only by
`RowsInv`; TLC takes the first that holds, the logic any. They are now exclusive as written.

Every invariant, action property and refinement that a passing run checks is also a theorem, for
every value of the constants. With TLC alone stay liveness under fairness (`SpinnerEnds`,
`ContainerSettles`), which like `ENABLED` is out of the prover's reach, and the three violations.

## 5. Not modelled, and what could follow

Not modelled: the throttler (library code with two numbers of our own), rendering, generated
types, DTO validation (declarative, no state), `safeFilename` and the byte patterns of `mime.ts`
(a file is magic or it is not), and the forms: creating and editing a case, the profile form.
Their state is react-hook-form's, and what the repository adds is a `defaultValues` and a
`values` object.

What could follow, in this order:

1. **Tabs together**: several tabs with one cookie jar, and the caches of cases next to
   `SessionGate`, where a sign-in as someone else finds the cases of the previous user.
2. **`SessionGate` over `Bff`**: the gate's abstract backend shown to be what `Bff` implements.
3. **Forms**: an edit form whose `defaultValues` are those of its first render, a profile form
   whose `values` follow every refetch.
