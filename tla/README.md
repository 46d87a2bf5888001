# Verification of the permissioned KYC blockchain system

TLA+ modules, TLC configurations and TLAPS proofs for the system in `src/`: a
Hyperledger Fabric smart contract, the Express/MongoDB API in front of it, the
file wallet of Fabric identities, and the two React frontends.

    tlc -workers 2 -config BackendLive.cfg MCKYCBackend.tla    # one run
    tlapm FabricLedgerProofs.tla                               # one proof module

Paths below are relative to the repository; `.../` abbreviates
`src/fabric-samples/decentralized-kyc/`. `PROJECT.json` maps every definition to
the lines it stands for.

## 1. The system

| Component | State | Operations | What is hard about it |
|---|---|---|---|
| Smart contract `.../fabric-network/chaincode/kyc-contract/src/kycContract.ts` | world state: documents, credentials and audit entries under string keys | CreateDocument, SignDocument, IssueCredential, RevokeCredential, the queries | one key space for three kinds of value; statuses that no function writes |
| Fabric as the API uses it, `src/src/services/fabric.service.js` | transactions on their way | endorse, order, validate, notify | simulation and commit are apart; the client may stop waiting |
| Document workflow `document.controller.js`, middlewares, models | MongoDB documents and audit log, upload directory | upload, sign, reject; lists, history, download | every `await` lets another request run; three stores, no transaction |
| Certificates `regulator.controller.js` | `certificateStatus` of users | revoke, reactivate; reports | the same, and a ledger call that names no key |
| Public verification `verify.controller.js`, `pki.controller.js`, `credential.service.js` | none | verify, fetch a certificate, list the revoked ones | reads only MongoDB |
| Accounts `auth.controller.js`, `ca.service.js`, `jwt.service.js` | users, Fabric wallet, sessions | register, login, profile, change, forgot, reset | two stores; bcrypt between a check and its save |
| Undo window `useUndoableAction.js`, used by both frontends | one timer, one pair of callbacks, the snackbar | trigger, undo, the time-out | several actions share the one timer |
| Signer's list `SignerDashboard.jsx` | rows, dialogs, poll | load, poll, sign, deny, undo, leave | stale and lost answers, optimistic removal |
| Certificate management `CertificateManagement.jsx` | rows | load, revoke with undo, reactivate | the same hook; a row that says "Revoking..." until an answer comes |
| Customer's list `UserDashboard.jsx`, `NotificationsContext.jsx`, `NotificationBell.jsx` | rows, notifications and their read marks | load, poll, upload, announce, open the bell | decisions are recognised by comparing two answers that may overtake each other |
| Tables and dialogs `PendingDocuments.jsx`, `usePagination.js`, `DocumentHistory.jsx`, `DocumentPreview.jsx` | rows with their animation, search, order, page; what was fetched, blob URLs | mirror, fade, search, sort, page; open, load, preview, close | an effect that runs a rendering late, a transition that never ends, answers for a dialog that was closed |
| Regulator's reading pages `AllDocuments.jsx`, `AuditTrail.jsx`, `ReviewUser.jsx`, `Overview.jsx` | the content and its filter, the statistics | load, filter, clear, review, preview, the 30 s refresh | requests that overtake each other; a rendering that throws |
| Sessions `AuthContext.jsx`, `axiosClient.js`, `SessionExpiryWatcher.jsx`, the forms and routes | token and user in a storage, user and page in a tab | log in, log out, requests and their 401, profile update, reload | two tabs over one storage, late answers, expiry |
| Network scripts `network.sh`, wallet `setupWallet.js`, `ca.service.js` | crypto material, channel block, package, volumes, wallet | up, down, reset, import, enrol | interrupted commands; pieces that survive a reset and pieces that do not |
| Layout, PKI, rate limiter, mock server, start-up, `seed.js` | little | | layout, libraries, wiring |

How they interact. A browser calls the API over HTTP. A handler loads MongoDB
documents, submits a transaction through a wallet identity, waits for the commit
event, saves to MongoDB, writes the audit log, and answers. The contract never
calls back; the frontends poll. With `FABRIC_MOCK=true` (the default) the ledger
is replaced by a made-up transaction id, so that only MongoDB is left.

What makes each part correct:

- contract: an anchored hash never changes; a decision is made once and is final;
  the audit trail agrees with the documents;
- ledger: concurrency of endorsement and validation is invisible to the
  contract's clients;
- document workflow: MongoDB never claims a decision that the ledger did not make;
  a positive answer stays true; every request is answered; a decision reaches
  MongoDB unless its request failed; a credential belongs to its signer; an
  acknowledged upload keeps its file;
- accounts: one account per email; the ledger identity fits the role; a reset
  token proves its request and is gone afterwards; only the regulator changes a
  certificate;
- frontends: a table shows the rows there are; what is on screen under a name is about it;
  page, storage and token belong to one account, and a dead session leaves the screen;
- deployment: what is on disk fits what the containers hold; "up" is said only when the
  chaincode's definition is in force on a channel all nodes have joined; a completed reset makes a start possible; every account
  acts as a member of its own organisation;
- lists with actions: what was undone is never sent, nothing is sent twice, the list
  converges to the documents that are pending; a notification never claims a
  decision that was not made, a row never lies about a certificate.

## 2. Modules

| Module | Models | State and actions against the code |
|---|---|---|
| `KYCChaincode` | the transaction functions, as functions of the world state | guards `Can...` are the `throw`s in their order, `NewValue` and `writeAudit` the two `putState` calls. Documents and credentials share `Ids`; the audit key `audit_<txid>_<action>` is the transaction id, because a transaction writes one audit entry. Titles, remarks, timestamps and list formatting are left out |
| `KYCContract` | the abstract specification: every accepted invocation is one atomic step | `Invoke(t, x)`; `world` is the world state |
| `KYCQueries` | the read-only functions, as functions of the world state | the range queries tell the kinds of value apart by their fields, as the code does; a file hash may be empty (`NoHash`), which `CreateDocument` accepts and the queries take for no document; timestamps are left out, so a credential may always have expired |
| `FabricLedger` | endorsement, ordering and MVCC validation around the same functions; `LedgerSpec` | `Endorse` simulates and remembers what it read, `Commit` and `Invalidate` are the peer's version check `Fresh`, `Refuse` the `throw` that rejects `submit`. Fabric is external; the single-peer view is enough because validation is deterministic |
| `KYCBackend` | upload, sign, reject, revoke, reactivate; MongoDB, files, ledger | `reqs[r].pc` is the position of a request between two awaits: `pin`, `read`, `submit`, `wait`, `save`, `audit`, `done`. The documents a handler holds in memory are not kept apart from MongoDB's: `save()` writes the assigned paths only, so `Signed` and `Rejected` update those fields of whatever is stored by then. `verifyDocument`, `getCertificate` and `getRevocationList` are the public reads, `VerifiedOutside` what a holder of a credential concludes from the last two without the API's verdict. `ContractSpec` maps `chain` to the contract's world state, `ServiceSpec` what MongoDB shows (`StatusShown`) to `DocumentService` |
| `Accounts` | accounts, wallet, sessions, reset tokens | steps `find`, `enroll`, `put`, `save`; `mod` is the set of paths the handler assigned. A reset token is the request that made it. `Live` is chosen once, when the server starts |
| `UndoableAction` | the hook's operations on its refs and state | `trigger`, `undo`, `startCommit`, `endCommit`; the countdown is left out |
| `SignerDashboard` | the page, its poll, the dialogs, the undo window, the server seen from it | a request and its answer are two steps. MongoDB statuses other than pending are one value, since the page shows only pending rows. The page's state goes when it unmounts |
| `UserDashboard` | the page, its polls and loads, the upload form, the notifications | a refresh is a slot: `Tick` or `StartLoad` sends it, `listMyDocuments` is the server's side, `Polled` and `Loaded` take the answer. `tell` goes through the rows of an answer one by one, as the `forEach` does; `addNotification` cuts the list each time, `handleOpen` marks what is on it as read |
| `CertificateManagement` | the page, its dialogs, revocation through the undo window, reactivation | as `SignerDashboard`; the list is loaded once. `touched` records the users another regulator or a lost answer put out of step, for the property only |
| `DocumentTable` | the signer's table and its pagination | `rows[d]` is the row's place in its animation: `new` before the frame that makes it opaque, `shown`, `fading` while the transition runs, `stuck` when it leaves without one. `Render` is a rendering followed by the effect that resets the page, so an element may be missing for one rendering. The DOM decides what `handleExited` hears |
| `Lookups` | what is fetched on demand: history, review, audit trail, table of all documents, file previews | one visit to one of them; `load` asks, `Answered` shows whatever arrives, since nothing is cancelled. `superseded`, `overlapped`, `carried` record the events in which the pages show or lose something else, for the properties only |
| `Overview` | the statistics page, its interval, its error boundary | `Render` is a rendering and throws without statistics; `Serve` takes a snapshot of the server |
| `Sessions` | tabs, storages, tokens, requests of either frontend | `Route` is what `ProtectedRoute` and `GuestRoute` do to an address, `Unauthorized` the response interceptor, `Watched` the expiry watcher, which sets no timer for a token that is `ending` (in its last two minutes), `Refusable` what the server may answer 401: with `MongoFails`, anything, `LoadPage` a mounted `AuthProvider`. The signer's storage is per tab, the console's is `Shared` |
| `Deployment` | `network.sh` command by command, the containers' volumes, the wallet and its two writers | `pc` is the next command, `cmd` the subcommand, `last` the one that came to its end. Crypto material is known by its generation, the chaincode by its build; a piped command may fail unseen, an install on each peer by itself |
| `ReadingPages` | a frontend on one of its reading pages | instantiates `DocumentTable`, `Lookups` and `Overview`; `shows` says which of the three the visit is to |
| `DocumentService` | the abstract specification of the document workflow: what the API promises of its documents to whoever only looks at them | one status per document; `Create` and `Decide` are the saves that become visible; `Final` says whether a decision that was shown is ever replaced by another. No request, failure or ledger is left |
| `MC...` | instances for TLC | |
| `...Proofs` | theorems | section 5 |

`KYCContract` extends `KYCChaincode`, and `FabricLedger` extends `KYCContract`: the two
share `world`, and the ledger is shown to implement the contract's `Spec`. `KYCBackend` uses what the contract
then promises: its `chain` is the documents of `KYCContract`, and the check of
`OrderAndValidate` is the contract's guard at the time of validation, which by the
refinement is when an endorsed transaction takes effect. `SignerDashboard` and
`CertificateManagement` extend `UndoableAction`; `KYCQueries` extends `KYCContract`, and `ReadingPages` instantiates
`DocumentTable`, `Lookups` and `Overview`, of which a visit uses one. The pages see the API as a server
whose answers may be late or lost. What its documents do meanwhile is the action `Others` of a page;
`DocumentService` stands between the two sides: `KYCBackend` implements it, and each of its steps
is one that `Others` allows (`OthersCoverTheService`, section 5).
`KYCBackend` and `Accounts` share the user's certificate but not its details: the
first needs the status, the second how saves to one user record interfere.

Definitions named "Variant" in comments are mutated forms of the operator after
them. No specification uses them; each shows, with its property, what kind of
mistake the property would notice.

## 3. Runs

| Run | Instance | States | Shows |
|---|---|---|---|
| `ledger` | 2 ids, 4 transactions that may overlap, a hash and the empty one; callers of every role | 34 k | refinement of `KYCContract`, and with it the contract's promises and what its reports say; a fresh read set means the result is still right |
| `backend_live` | 3 requests about 1 document and 1 certificate, 2 signers, a customer and a regulator, live ledger, failures and crashes | 94 k | refinement of `KYCContract` and of `DocumentService`; MongoDB against the ledger; answers; liveness |
| `backend_mock` | 4 requests, mock ledger, failures and crashes | 318 k | refinement of `DocumentService` without `Final`; what is left when only the handlers order the requests |
| `backend_revoke` | 1 revocation on a live ledger without faults; violated | | section 4 |
| `accounts` | 3 requests, 1 free email and 1 registered signer, both modes | 271 k | accounts, wallet, tokens, certificates |
| `pages` | 3 documents, 2 searches, 2 page sizes; 2 subjects, 3 requests, 2 files, 2 previews; 2 overlapping refreshes | 20 k | the reading pages, one visit each |
| `signer_dashboard` | 2 documents, 2 denials, 1 poll beside the first load | 466 k | the undo window and the list |
| `signer_undo` | the same, without fairness; violated | | section 4 |
| `user_dashboard` | 2 documents, 2 polls, 1 load at a time, 2 notifications kept, the bell opened at any time | 164 k | the customer's list and what is announced |
| `certificates` | 2 users, 3 revocations | 50 k | the undo window with rows that show it |
| `sessions` | either frontend: 1 signer tab, or 2 console tabs; 3 accounts, 2 tokens, 2 requests in flight; a database that may fail | 867 k | who is signed in, on screen, in the storage and with the server |
| `deployment` | 2 organisations, an imported identity of each, 1 account that shares one, sequences 1 and 2, 2 mishaps | 416 k | what a message, a ledger, a wallet entry and a completed reset are good for |

Why the bounds are enough. A conflict in this code is between two requests, or a
request and the transaction an earlier one left on its way, about one record. One
document, an upload and two decisions show each such pair; the fourth request of
`backend_mock` adds a decision after a race, or a reactivation. Four
transactions in `ledger` are an upload, two decisions that overlap, and a revocation of what they decided; two keys let
`IssueCredential` and `RevokeCredential` use a key of the other kind. Two denials
are what it takes for one window to take over from another; a poll beside the load
gives two answers that may overtake each other. The customer's polls start every 8 s and give
up after 15 s, so two are in flight at most; one visible load is out at a time, which leaves
out a second upload answered within the first one's refresh; two notifications fill the list of
two; `Decisions` has one value in the run because the page treats both alike. A third revocation
is one that finds the window taken over a second time. `Reqs`, `TxIds`, `Denials` and
`Revocations` bound the run: each slot serves one request (or one denial); the slots of
`Polls` and `Loads` are used again. For that reason the runs switch the deadlock check off: when
the slots are used up, or the user has left, nothing is left to do. `deployment` keeps the check on.

A page of one row and a third document is what it takes for a row to fade on one page while
another page is open. Three lookups give one that is superseded twice. In `sessions` two tokens are
an old session and a new one, and two requests in flight an old answer and a new one; the
signer's tabs have storages of their own, so one is enough, while two of the console's meet in theirs.
Two mishaps in `deployment` (an interrupt, a power cut, `down`, `reset`, a
rebuild, an edit of `CC_SEQUENCE`, an emptied database) give each pair of them, such as a reset that is
interrupted, and an `up` may be started again freely. The package and the sequence 2
that are checked in with the script are part of `Init`; so is the sequence set back to 1, because no
channel accepts a first definition with sequence 2. The script treats its organisations alike; two of the three show
one that failed beside one that did not.

Symmetry is used for request slots, and in `ledger` for ids, transactions and hashes, in runs without liveness properties.

Fairness. `KYCBackend!FairSpec` assumes weak fairness of each request's next step (the
event loop resumes a handler whose promise has settled; promises to MongoDB
settle or fail) and of `OrderAndValidate` (the ordering service delivers). Nothing is
assumed of clients, failures and crashes. `SignerDashboard!FairSpec` assumes that
timers fire, that the server serves and answers, and, strongly, that a poll that
is sent again and again does succeed at some point; the signer and other
users need not do anything. `UserDashboard!FairSpec` is the same for the customer's polls;
loads and uploads may never be answered. `CertificateManagement!FairSpec` lets the timer fire and
revocations be answered, if only with an error: this console's axios client has no
timeout, so it relies on the API answering every request, which is what
`KYCBackend!Answered` says, or on the connection breaking. `ReadingPages!FairPages` lets requests end and, in a
visible tab, frames be drawn and transitions end; polls of the overview succeed now and then (strongly
fair). `Sessions!FairSpec` is about the signer's badge alone, which `Navbar.jsx` polls on every page: it
is polled, answered, and a refusal the server owes (the token is gone or expired) comes through at some point, while one it does not owe, a 401 for its own failure, need never come; the console
polls nothing, and nothing is claimed for it. `Deployment!FairSpec` has the script go on when it is not
interrupted, `up` started again until it succeeds, and assumes strongly that all nodes join and
approve in one attempt at some point. The Fabric contract modules have no liveness: refusing is always
possible.

Properties worth a remark:

- `ServiceSpec` has two meanings: with a live ledger a decision that was shown stays, in mock mode it may give way to
  an overlapping one (`Final <- Live`). In neither does a document vanish, come back or become pending again, which
  the action property `NeverReopened` said before; that one, `DecidedOnce`, `CredentialMatches` and `StatusFinal` are now
  proved only.
- `LedgerLeads` and `AnswerHolds` (and the proved `DecidedOnce`, `StatusFinal`) hold with a live ledger only: the
  handlers read `pending`, await, and save without a condition, so that it is the
  contract's guard, repeated at validation, that orders the decisions. Their mutant
  removes that guard, or the handler's attention to the commit event.
- `AuditExplains` and `DecisionReachesMongo` except requests that were answered with
  an error or lost in a crash. Those may leave a decision on the ledger that
  MongoDB shows as pending for ever (no later request can repair it: the
  ledger refuses it), or a decision in MongoDB without its audit entry. README line 523
  promises that the audit trail shows all actions.
- `LedgerRoleMatches` leaves out emails for which registrations with different roles
  were made: `enrollUser` writes the wallet before the user is saved, and
  the first to reach the wallet decides for both.
- `AccountsSound` is the type invariant with `OneAccountPerEmail`, `ResetProvesToken` and `UsedTokenGone`, each with a mutant; the other
  properties below that end in `True`, and `SentAsConfirmed` (undone denials are not sent, none twice, the one held is timed), `InStep`, `FilesFit`, are conjunctions of named parts in the same way.
- `UsedTokenGone` says that a used token is not stored any more. It does not say that it
  was used once: two resets that overlap both find it and both set a password.
- `Announced` lists what it takes to miss an announcement: a visible load takes the news first
  (it replaces the rows and compares nothing), or a stale answer drops the row in between.
- `RowsTrue`: its `RowsAreRight` leaves out certificates others have changed, since the page never
  refreshes, and those whose request was answered with an error after the server had acted.
- `RevokingEnds` leaves out a revocation whose undo window was taken over by another: its row
  says "Revoking..." until the page is loaded again. It is the same fault as in `signer_undo`.
- `ReportsAgree` says how the statistics and the audit trail fit together: the total, and the pending and
  rejected documents while nothing was revoked, are those on record. It counts documents with a hash, as the
  queries do, and claims nothing of the counter `signed`: see section 4.
- `UploadKept` is about uploads answered with success. One answered with an error may lose the file
  of a document that is stored and audited: see section 4.
- `TableTrue` has `PageNotEmpty` (a page is not empty while there are rows) and `EachOnOnePage` (each row that matches is on
  one page); the rendering before the effect that resets the page is part of the step that follows it.
- `LookupTrue` excuses what the pages do not prevent: content whose request was superseded
  (history of a closed document, a filter cleared while it loads), a preview that was on its way when a
  user's dialog was closed, the URL of a file fetched together with another. `QueueEmpties` excuses rows
  that left while they were not on screen (another page, a search, a hidden tab): they stay, invisible,
  and the notice "no documents" does not come.
- `InStep` excuses `mixed` tabs and `crossed` storages: another tab of the console signed in
  somebody else, or a profile update was answered after its session had ended. `SessionKept` names
  what ends a session from outside: a login elsewhere, a wrong PIN, a request made with an older token,
  and a failure of the database under one of its own requests, which `requireAuth` answers 401.
- `WatchesItsToken` (in `InStep`) claims a timer until the moment to warn. Two minutes before the token ends the
  watcher sets none any more (`SessionExpiryWatcher.jsx:22`), so after a reload or a login in that time nobody
  is warned, and the session ends with a 401.
- `ServesOnceSetUp` is about the first network only. After a reset the wallet keeps the old
  entries: see section 4. It and `DeploymentKept` speak of a chaincode that is installed (`Deployed`); `FilesFit`, about the
  message, of one that is defined, because the script does not know more.
- `UpAfterReset` wants `CC_SEQUENCE = 1`.
- `VerifiedIsApproved` is what a third party relies on: the verify page reads only MongoDB. Its second
  half compares that page with the check `pki.controller.js` offers instead, a credential verified with the
  published certificate unless the revocation list names its issuer.
- `Announced` wants an unread notification: that an older one about the same document was read does not count.

## 4. Disagreements found

Run `signer_undo` checks what `useUndoableAction.js:7` says, "once the countdown reaches zero, onCommit
fires": a second denial confirmed within ten seconds of the first drops the first
(`ConfirmedIsCommitted` is violated). The regulator's copy of the hook does the same to a
revocation, whose row then says "Revoking..." for good (`RevokingEnds`).

Run `backend_revoke` checks what `regulator.controller.js:104` means, "CA-level revocation + on-chain record", and
`regulator.routes.js:79` says, "Revoke a user's certificate (CA + on-chain)": a revocation takes effect. With a live
ledger that works and no failure at all it does not (`RevocationTakesEffect` is violated): `fabric.service.js:168` submits a user's id,
which is no key of the ledger, `RevokeCredential` throws, and the handler fails before it saves the user.

The following are properties with a configuration each, which TLC finds violated in seconds. They are run by hand
(`tlc -workers 2 -config AccountsReset.cfg MCAccounts.tla`). `CC` is
`.../fabric-network/chaincode/kyc-contract/src/kycContract.ts`, `SF` and `RD` are the two frontends' `src/`.

| Configuration, module | Property | Says | Does |
|---|---|---|---|
| `ContractCredential.cfg`, `MCFabricLedger` | `ApprovedSuffices` | "Verify source document is approved" (CC:341) | `IssueCredential` wants the status `signed` (CC:348), which nothing writes, so no credential is ever issued |
| `ContractStatistics.cfg`, `MCFabricLedger` | `ApprovedCounted` | "renamed from approved" (CC:292) | `signed` counts the same status (CC:307) and is always 0: an approved document is counted in the total only |
| `BackendFile.cfg`, `MCKYCBackend` | `PendingHasFile` | the download is there "so a signer can review it before signing/denying" (`document.controller.js:206`) | when the audit write fails after the save, or is applied and answered with an error, the catch of `uploadDocument` (line 89) removes the file of a document that stays stored, can be signed and is then reported trustworthy |
| `BackendRace.cfg`, `MCKYCBackend` | `DecidedOnce` | "409: Document already handled" (`document.routes.js:89`; `documents.test.js:98`) | in mock mode two decisions that both read `pending` (`document.controller.js:149`) are both answered 200 |
| `AccountsReset.cfg`, `MCAccounts` | `TokenUsedOnce` | "a short-lived, hashed, single-use token" (`User.js:32`) | two resets that overlap both succeed (`auth.controller.js:202`) |
| `DeploymentInstalled.cfg`, `MCDeployment` | `UpMeansDeployed` | "Network is UP and chaincode is deployed" (`network.sh:150`) | installs are piped, so one that failed goes unseen (line 109); approval and commit need none |
| `DeploymentRebuilt.cfg`, `MCDeployment` | `UpPackagesTheBuild` | "Rebuild and redeploy chaincode ... bump CC_VERSION in network.sh and run ./network.sh up" (`README.md:656`) | the package is reused while it exists (`network.sh:97`), whatever its version; with the sequence unchanged the commit fails besides |
| `DeploymentWallet.cfg`, `MCDeployment` | `SetupRepairs` | "Re-import wallet identities (crypto was regenerated)" (`README.md:546`, `:577`) | `setupWallet.js:43` skips every label the wallet holds, with whatever certificate |

Met while modelling, and stated by a property that excuses it or by none.

- `requireAuth` answers 401 "Invalid or expired token." to whatever is thrown after the header was read
  (`auth.middleware.js:29`), so also to a good token when `User.findById` fails. The interceptors take a 401 for the end of the
  session ("A 401 here means the token is missing/expired", `RD/api/axiosClient.js:13`) and empty the storage: a short outage
  of MongoDB signs out whoever polls. `SessionKept` excuses it; without its last line it is violated.
- `CreateDocument` accepts an empty hash, and such a document is in none of the lists and counters (CC:270, CC:305), though
  its submission is on record. `GetStatistics` lacks the users and certificates that the mock
  branch of `getStatistics` reports. `VerifyCredential` answers `valid: true` for the key of a document.
  `RevokeCredential` gives a document the undocumented status `revoked` (CC:426).
- A failed first load followed by a tick of the interval breaks the overview (`RD/pages/Overview.jsx:28`);
  the comment at line 42 means the refresh to be silent.
- `PendingDocuments.jsx` keeps rows that left unseen; previews leak a blob URL or open over the next
  user's dialog; the error of a superseded history request stays over a later success; the signer's
  first-load error is never cleared although polls go on.
- Sessions: a wrong PIN is answered 401, which ends the session; `Register.jsx` shares the loading flag of
  the login form; a profile update answered after the logout stores the user again; the tabs of the console hear
  nothing of each other; notifications survive a logout; a regulator who signs in to the signer
  frontend lands on a dashboard without content.
- `network.sh`: `CC_SEQUENCE=2` (line 12) is refused on a fresh channel, so
  `up` after `reset` (line 168) fails until it is edited. An `up` that restarts a deployed network never says
  that it is up, since the commit of the same sequence fails.
- Two comments of the pages, "nothing actually changed server-side" (`SignerDashboard.jsx:138`;
  `CertificateManagement.jsx:77` says the same) and "can't clobber the optimistic removal" (line 59), are
  too strong: an answer may be lost after the server has acted, and a poll may already be in flight;
  `QueueConverges` shows that the list recovers from both.

## 5. Theorems

Proved by TLAPS, for every value of the constants that meets the modules' assumptions.

| Module | Theorem | Says |
|---|---|---|
| `FabricLedgerProofs` | `AuditTrailAgrees` | `Spec => []StatusMatchesAudit` (`Spec` is the contract's) |
| | `DecidedAtMostOnce` | `Spec => []OneDecision` |
| | `DecisionsAreFinal`, `HashesAreAnchored` | `Spec => DecisionFinal`, `HashAnchored` |
| | `ReportsAreRight` | `Spec => []ReportsAgree` |
| | `LedgerInvariant` | `LedgerSpec => [](TypeOK /\ Snapshot)` |
| | `LedgerRefinesContract` | `LedgerSpec => ContractSpec` |
| | `LedgerKeepsPromises` | `LedgerSpec => []StatusMatchesAudit`, `[]OneDecision`, `[]ReportsAgree`, `DecisionFinal`, `HashAnchored`: what the contract promises holds on Fabric |
| `KYCBackendProofs` | `UploadsKept`, `CredentialKept`, `AuditComplete`, `HandledStays` | `Spec => []UploadKept`, `[]SignedHasCredential`, `[]AuditExplains`, `NeverReopened`: in either mode |
| | `BackendImplementsContract` | `Spec => ContractSpec`: the whole backend implements the contract |
| | `BackendImplementsService` | `Spec => ServiceSpec`: seen from the pages it implements `DocumentService`, in either mode |
| | `LedgerIsAhead`, `AnswersHold`, `OneDecision`, `CredentialsMatch`, `TrustIsEarned`, `DecisionsFinal` | `Live /\ Spec => []LedgerLeads`, `[]AnswerHolds`, `[]DecidedOnce`, `[]CredentialMatches`, `[]VerifiedIsApproved`, `StatusFinal` |
| `AccountsProofs` | `AccountsAreSound` | `Spec => []AccountsSound` |
| | `OnlyTheRegulatorDecides` | `Spec => RegulatorDecidesCertificate` |
| | `EnrolledIdentityMatches` | `Spec => []LedgerRoleMatches` |
| `PagesProofs` | `DenialsAreSentAsConfirmed` | `Spec => []SentAsConfirmed` (`Spec` is `SignerDashboard`'s) |
| | `TablesAreTrue`, `LookupsAreTrue` | `PagesSpec => []TableTrue`, `[]LookupTrue` |
| | `OthersCoverTheService` | a step of `DocumentService` is one of `SignerDashboard!Others`, or the page cannot see it |
| `UserDashboardProofs` | `NotificationsAreTrue` | `Spec => []NotificationsTrue` |
| | `OthersCoverTheService` | a step of `DocumentService` with `Final` is one of `UserDashboard!Others` |
| `CertificateManagementProofs` | `RowsAreTrue` | `Spec => []RowsTrue` |
| `SessionsProofs` | `SessionInStep`, `SessionStays` | `Spec => []InStep`, `SessionKept`, with a database that may fail or not |
| `DeploymentProofs` | `FilesFitVolumes`, `KeptBetweenResets`, `AccountsAreServed` | `Spec => []FilesFit`, `DeploymentKept`, `[]ServesOnceSetUp` |

Assumptions of the contract and the ledger: the key sets `Ids` and `TxIds` are disjoint and do not hold the
placeholder values, which is how Fabric's transaction ids and the prefix `audit_`
are used; nothing is assumed about their sizes, the callers or the hashes. Of the
backend: roles are the three registered ones, arrivals are well-formed requests, no document has the id of a user (MongoDB draws both from one space), and
`Absent` and `NoOne` are no values of the sets they stand beside. Of the accounts, besides:
those from before hold no reset token. Of the customer's page: the documents stored when it opens have distinct
ids, as MongoDB's have, and the list of notifications has room for one. Of the certificate page: `Nobody`, which stands for a closed
dialog, is no user. Of the reading pages: uploads are finitely many and known by their times, which are integers; the empty search
matches everything, a page has room for a row, and the placeholders are no subjects, files or statistics. Of the sessions: the placeholders are no accounts, there is a token, and `MongoFails` is TRUE or FALSE. Of the deployment: the label of a role is one that
`setupWallet.js` imports, and an account belongs to the organisation of its role's label. `Faults` is free, so the
theorems hold with failures and crashes.

Contract. `StatusMatchesAudit` is not inductive alone: it says nothing about
credentials and audit entries, which `RevokeCredential` can also
rewrite, nor about where a decision entry comes from. The inductive invariant adds the type
of the world state and that every decision on record is the one its document
names; from it `OneDecision` follows, since a document names one
transaction. The action properties are proved for one `Invoke` from the same
invariant, function by function.

Reports. `ReportsAgree` compares numbers, for the documents with a hash: how many there are with how many entries the audit trail
has for a submission, how many are rejected with how many entries say so, how many are pending with what is left. Equal counts are proved by a bijection, so `QInv` adds to the
contract's invariant what makes one: the world state is finite, a document has one entry for its
submission (`SubmittedOnce`), an entry that is not a revocation's is about a document
(`EntriesTargeted`), and a document that was revoked has such an entry (`RevokedOnRecord`).

Ledger. `Snapshot` says of every endorsed transaction whose read key has kept its version
that simulating it now would be accepted and would write the same value. With it a
`Commit` is an `Invoke` of the contract, and every other step leaves `world` alone.
Without it (a commit with a stale read set) the mapping breaks, which is the
mutant `FreshAlways`.

Backend. Each invariant is proved from a stronger one. `UInv`: an id is
uploaded once (`Fresh`), what is stored was uploaded by a request past its save, and a
decision past its read is about a stored document. `KInv` adds the
files, documents and audit entries of uploads that are under way or were answered with success; a failing request removes its own
file, also after its audit entry was written, and `Fresh` says that nobody else's upload shares it. `DInv` adds that a decision
or revocation MongoDB shows names a request past its save, which gives `AuditExplains`.
`LInv` needs the live ledger: a request is past its wait only with a valid transaction
(`Waited`), and a valid transaction is still what the ledger says (`Recorded`: the
contract writes a document once and decides it once, `ChainKept`). So two requests past
their wait about one document would both be named by the ledger's record, which names one.
That no save is conditional does not matter then; lemma `SavesPending` shows that each
decision still finds a pending document. In mock mode
`Waited` fails at once, and `DecidedOnce` and `StatusFinal` with it. With `LInv`'s credentials the public verdict
about each signed document follows; whether its issuer's certificate is active is read once by both sides.

Refinement. `KYCBackend!ContractSpec` maps the documents of `chain` to the contract's world state, with the
identity, hash and owner of the request that wrote each. `CInv` adds to `UInv` that whoever has
a transaction has the role the contract will ask for (`Permitted`) and that the requests named on the
ledger have valid transactions (`Anchored`). The one step that is not a stutter is the validation of an accepted
transaction; it is `Invoke` with that request's invocation, because `ChaincodeAccepts` is the
contract's guard on the mapped state. With `LedgerRefinesContract` the contract stands
between two detailed specifications: Fabric below it and the API above it.

Accounts. What a save writes is what its handler assigned (`Assigned`) to a user that
exists (`Loaded`), so only three handlers touch the token and only two the certificate
(`OnlyTheRegulatorDecides` needs no more). A stored token is that of an answered
request about the same account (`Issued`); a reset past its check has such a token
(`Proven`), and since no other request ever writes it, no save that comes late can put it
back once the reset has removed it (`Spent`). One account per email follows from the
unique index: a registration answered with success found no user, so no other
one has been (`Registration`, `OneRegistration`). `WInv` says where a wallet entry
comes from: the account's own role or a registration's, and that a record which is
stored as enrolled, or is about to be, has one.

Undo window. `SentAsConfirmed` needs `Window`: a running timer belongs to a denial that is
neither undone nor sent, and the UNDO button is there only while it runs. `endCommit` of an
earlier denial closes the snackbar in the middle of a later window; the timer still runs then,
which is why `Window` is about the timer and not the snackbar.

Deployment. The order of the script is the argument (`Ordered`): volumes are removed before
the files, so whatever the removal of files leaves half done, no ledger is left that
needs them. `Material` ties a channel to the block it was made from, a package that is gone to
volumes that are empty, and `Bounded` shows that each generation of crypto material after the
first costs a mishap, so the model's bounds cut nothing off. `Entries` says of the wallet that no entry is newer
than the material and that an enrolled account has one.

Customer's page. `NotificationsTrue` looks at the list alone, but a notification is made from an answer that
may be older than the page. `NInv` therefore speaks of every answer on its way: a decided row in it
states what the server has decided (`AnswersHappened`), which stays so because a decision is final and ids
are unique (`DecisionsStay`, `UniqueIds`). Nothing need be said of the rows on the page; they only decide
what is news. That `tell`, a recursion over the rows of an answer, yields only such notifications and keeps the bound is an
induction: the library's induction theorems cannot be instantiated, but the well-foundedness of `<` can, and lemma `Least` (a set of naturals has a least
element) applied to the positions where the claim fails does the same. `Told` shows in this way that the recursion has a
solution, `TellKeeps` what it computes.

Certificate page. `RowsTrue` needs to know who may touch a row. A revocation is live while its timer runs
or its request is out; a live one has its row on "Revoking..." (`OnItsWay`) and to itself (`Apart`), so no dialog
and no reactivation can be about it (`Dialogs`). Then a row and the server differ only by an answer
that is on its way (`Agrees`).

Sessions. `InStep` is not inductive: a 401 empties a storage and leaves a tab that stands at the login page,
which is harmless because the routes keep a user off that page (`Routed`). The answer to a profile update
shows whom its token was issued to (`Issued`), at the console a regulator (`ByRegulators`), since nobody sends one
over a corrupted entry (`CorruptedIdle`). A timer is set for a token that is not `ending`, and a token in its last two minutes is
watched by nobody new. `SessionKept` follows for each step from the same invariant.

Table. `PageNotEmpty` is about the rows of a page, which are those whose place in the sorted list falls within it. `PageFits`
adds what the effect in `usePagination.js` is for: once it has run, the page begins before the end of the rows that match.
The places of `n` rows are pairwise different and below `n` (`Places`), so each number below `n` is one of them, by counting; then a page
that begins before the end has a row (`PageHasRows`), and the page of a row is the quotient of its
place and the page size (`Quotient`, `OnePage`). The mutant `pageItemsLong`, a page of one row too many, puts a row on two.

Lookups. What is shown is that of some request; that it is the right one needs to know which requests are out. `LatestAsked`: the latest
request is about the present subject. `Current`: unless one was superseded, what has arrived is about
it too. `OwnFiles` says the same of files and those on their way, `OneFetch` that without an overlap nothing is shown while a file is on its way. Of the
overview it is enough that statistics are missing after loading only when a request failed (`EmptyFailed`).

Service. `BackendImplementsService` needs that a save changes one document, and in the right order: that an upload saves an id nobody saved
before is in `UInv`, for either mode; that a live decision finds a pending document is `SavesPending`, from
`LInv`. In mock mode nothing but the weaker `Final = FALSE` is true, and TLC shows it (with `Final` the mock run fails). The
other half is the pages' environment. `SignerDashboard!Others` covers the service with and without `Final`, since that page cannot
tell one decision from another; `UserDashboard!Others` needs `Final`, and so do its notifications: in mock mode one that was
announced may be replaced by an overlapping one. That list holds the customer's own documents, a part
of the API's; a step about another's is none of it. Each page's theorem about its own state then holds
of the page in front of the API.

Model-checked only: liveness, because TLAPS does not handle `ENABLED` and fairness. Every other property of a passing run
has a theorem.

## 6. Not modelled

- File formats, hashes, RSA signatures and JWTs: libraries. A credential is its
  issuer, a hash is the password, a session is the email it was made for.
- The rate limiter, the mock server, Swagger, `seed.js` and start-up: no state of their own that
  a property here depends on.
- Bars, menus, charts, themes and texts of the frontends, and the read-only endpoints beyond what their pages show.
- The scripts under `fabric-network/scripts/`: an earlier set-up with certificate authorities that nothing calls.
- Several server processes: the deployment runs one. Requests interleave at awaits
  only.
- Restarting with another value of `FABRIC_MOCK`: a change of configuration.
- `docker compose down -v` removes the volumes one after the other; the model removes all of them in one step, so an interrupt in
  between, which could leave the orderer's ledger without the peers', is left out.
- `dist/kycContract.js`: generated from `kycContract.ts`.

## 7. Plan

1. done: `KYCChaincode`, `KYCContract`, `FabricLedger`, their runs and proofs.
2. done: `KYCBackend` in both modes with failures; `Accounts`; the undo window and the
   signer's list.
3. done: `Deployment`, `Sessions`, the reading pages, `KYCQueries`.
4. done: `CertificateManagement` and `UserDashboard`.
5. done: `KYCBackendProofs` with the refinement.
6. done: `AccountsProofs`.
7. done: `PagesProofs` (the undo window), `DeploymentProofs`.
8. done: `ReportsAreRight`, `SessionsProofs`, `CertificateManagementProofs`, `UserDashboardProofs`.
9. done: the reading pages in `PagesProofs`, `LedgerKeepsPromises`, and `DocumentService` between the API and its pages.
10. left: the pages and the API in one module, with requests matched to requests; liveness, if the prover learns it.
