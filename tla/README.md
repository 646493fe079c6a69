# Ttalkak in TLA+

Ttalkak is a prompt-improvement service: a Spring backend (`backend`), a Python
RAG server (`rag-server`), a web frontend and a browser extension. This directory
models the parts in which several threads, a payment provider and a database can
disagree: subscription billing, refunds, the account of AI usage, the free trial
of guests and the gate in front of the language model; and the two clients, in which
answers arrive late, out of order or not at all: the web page with its billing and
Make screens, its home list, my page, the dialog of a prompt and the administrator's
console; the side panel of the extension; and the extension's writing into somebody
else's page. Every definition is translated from the source; `PROJECT.json`
maps it to the lines.

## Parts of the system

| Part | State | Operations | Talks to | What is hard |
| --- | --- | --- | --- | --- |
| `billing/BillingService` | `billing_subscriptions`, `billing_charges`, `paid_usage_periods` | setup, completeRegistration, retry, cancelRenewal, upgrade, reconcileUpgrade, the `chargeDue` scheduler | Toss Payments through `TossBillingGateway` | provider calls between transactions, lost and late answers, crashes, several threads on one subscription |
| `billing/BillingRefundService` | refund columns of the same rows | request, approve, reconcile, reject | the provider; the AI lease | two reviewers, a refund next to a renewal, a cancel that is sent but not confirmed |
| `usage/MemberRequestGuard`, `RagUsageRecorder`, `AdminUsageRecoveryController` | `member_request_lease`, `member_token_usage` | acquire, checkQuota, usageMissing, release, record; review and reconcile by an admin | called by `PromptController.improve` | a crash or a failed write after an answer that cost money; expiry of the lease |
| `prompt/GuestUsageService` | `guest_usage` (versioned), `guest_usage_reservations` | reserve, complete, release | called by `PromptController.improve` | optimistic locking with retries, reclaiming of expired reservations |
| `rag-server/app/core/concurrency.py` | a semaphore and a counter | `Gate.enter` | called by `/query` | two shared objects under two locks, timeouts |
| `usage/UsagePeriodService` | none (reads) | `at` | quota, upgrade | window arithmetic |
| `auth` | members, revoked tokens, reset tokens | login, logout, password reset, withdrawal | mail | a token used twice, a session after revocation |
| `prompt` (posts, revision requests), `make` (conversations), `community`, `admin` | their tables | CRUD and review | | two reviewers of one request; a first message sent twice |
| `billing/billing-controller.mjs` (web) | the billing screen, `requestRevision`, `activeToken` | refresh, summary, open, close, plan choice, upgrade, register with redirect, cancel, retry | billing endpoints; the session | overlapping reads, a mutation and a refresh, a logout meanwhile |
| `make/`, `effects/make-*`, `state/state-make.mjs` (web) | open conversation, list, request in progress, recovery snapshot | submit, edit, retry, cancel, read back, open, delete, load | `improve` and conversation endpoints; the session | answers into another conversation, failures that were none, conflicts |
| `make/make-folder-workflows.mjs`, `make/make-page-adapter.mjs` (web) | folders, which conversation is in which, what is looked at | create, rename, delete, move, create and move, look | folder endpoints; the open conversation; the session | local ids that become numbers, roll back over later changes, replaced objects |
| `public/background.js`, `public/inline-improve.js` (extension) | debugger, the handlers' progress, the preview | EXECUTE_PROMPT; toggle, trigger, apply, restore | the AI page, its user, the browser | everything may change between two awaits; a debugger left attached; a text destroyed |
| `extension/src/hooks/*` (side panel) | session, account form, conversation, request in progress, recovery, lists, usage, saved prompts | submit, edit, retry, cancel, resolve, open, delete, login, signup, logout, withdraw, unsave, refresh | `improve`, conversation, account, usage and save endpoints, storage | closures that are older than the state; late answers, retries under one id; two readings that cross |
| `home/`, `bootstrap/`, `effects/backend-effects.mjs` (web) | the home list and its question, the recovery monitor | search, scope, order, pages, retry, timer, network and visibility events | the search endpoint | loads that overlap; a home that must come back |
| `interactions/`, `prompt/`, `state/state-prompt.mjs`, `saved-library/` (web) | the prompts kept, marks, unsaves put off, my page | save, like, publish, unshare, delete, read my page | prompt and my page endpoints; the session; the home list | a change next to a reading of what it changes |
| `interactions/prompt-engagement-controller.mjs` with `prompt-workflows.mjs` (web) | the comments shown, marks, the form of a report | comment, reply, edit, delete, like, report | comment endpoints; the session; my page | shown before they are stored, a reading after every answer, likes never read back |
| `admin/`, `effects/admin-effects.mjs`, `state/state-admin.mjs` (web) | the console: tags, reports, prompts, authors' requests, members, the audit log | decide, read all, read the log, visit a member, the view of the home screen | admin endpoints; the session | decisions next to readings; other administrators |
| the other views of web and extension | lists, forms, modals | views over requests | the backend | none that outlives a request |
| RAG pipeline, ingestion, evaluation | indexes and files | retrieval, generation, batch jobs | LLM providers | none of this kind |

`improve` ties the usage parts together: it takes the lease (member) or a
reservation (guest), checks the quota, calls the RAG server, which passes its
gate, records the usage and releases. An approval of a refund looks at the lease,
and the lease is refused while a refund is being paid out. The clients call `improve`
and read the conversation back after every answer and every failure; they share the
request id with it (`resolveMakeRequestId`), by which a repeated request is answered
again instead of run again. The panel hands a reply to the extension's worker, which
types it into the page of the active tab.

## Modules

| Module | Models |
| --- | --- |
| `Billing`, `BillingProofs` | BillingService for one member. One action per database transaction or provider exchange of one thread; what is proved of it: rows and ledger, then terms and verdicts, then the same beside refunds and of refunds. |
| `PaidOrders` | what billing and refunds promise about the orders, the money and the terms of a member, without threads, sessions, copies and messages; `Billing` instantiates it (`Promise`) and implements it. |
| `BillingRefund` | extends `Billing` with BillingRefundService, the provider's cancel and the member's AI requests. |
| `RequestLease`, `RequestLeaseProofs` | the lease of one member, as `improve` and the admin use it; what is proved of it. |
| `GuestUsage`, `GuestUsageProofs` | the trial counters of one guest session; what is proved of them. |
| `GenerationGate`, `BoundedLine`, `GenerationGateProofs` | `Gate.enter`; what the gate promises its callers; the proof that it keeps the promise. |
| `WebSession`, `WebBilling`, `WebChat` | the session of the web page, its billing screen, its Make screen with as much of the server as its answers need. |
| `Lists` | `find` and `filter` of the lists that the screens keep, by positions. |
| `WebHome`, `WebLibrary` | the home list with the monitor that brings it back; the prompts saved, liked, shared and deleted, and my page, with the server's tables of them (`shelf`). |
| `WebFolders` | extends `WebChat` with the folders of the Make screen, and the server's (`cabinet`). |
| `WebTalk` | the dialog of a prompt, with comments, likes and reports on the server (`board`). |
| `WebAdmin` | the console of an administrator, with what is decided on the server (`desk`); one subject of each kind stands for its table. |
| `WebPage`, `WebPageProofs` | composes the screens of the web page: a login, a logout and an answer 401 are one step of all of them; what is proved of the home list, the billing screen, the composer, my page and the console. |
| `MakeProofs` | what is proved of the Make screen, whose conversations are listed and what a request id stands for, and of the dialog of a prompt. |
| `RepliesProofs` | extends `MakeProofs`: where the replies of a conversation stand. |
| `PageInput` | the prompt input of an AI page, the worker that executes prompts in it, the inline improvement, and user, page and browser around them. |
| `PanelChat` | session and conversation of the side panel, with the server as its answers need it. |
| `PanelAccount` | the rest of the side panel: the account form with what the server found free, the usage, the saved prompts of the server. |
| `Extension`, `ExtensionProofs` | `PageInput` and `PanelAccount` (with `PanelChat`) composed; what is proved of the page and of the panel. |
| `MC*` | the instances TLC checks: symmetry sets, budgets, initial restrictions; other constants are in the `.cfg` files. |

### How state and actions correspond to the code

**Rows.** `sub`, `orders` and `periods` are the three tables for one member; an
order id is the number of the row in order of insertion, a period is named by the
order whose payment it references. Amounts, names, customer keys and scopes are
left out: an order's price is fixed when it is placed, so the comparisons of a
provider answer with the order succeed. `paidThrough = 0` is a null
`next_charge_at`.

**Threads.** `pc[w]` says which step of its request a thread has reached, `job[w]`
holds the locals it carries from one transaction to the next. A `charge` is:
the preparing transaction (`SkipCharge`, `PrepareRetry`, `PrepareNew`), the lookup,
the charge call (`SendCharge`, `Approved`, `Declined`), and the confirming or
declining transaction. `Abandon` ends a thread between any two of its steps: a
timeout of the request budget, an error of the gateway, or the death of the server.

**Provider.** A charge call is in `inflight` until the provider settles or never
sees it. `ledger` is what the provider did with an order id; the Idempotency-Key
header (`TossBillingGateway.charge`) makes a second call a no-op. A call whose
caller gave up may still be settled later. Two things about the provider are not
in the repository and are constants: `AbortedVisible` (the orders that, once declined,
a lookup shows as ABORTED; the others are answered 404) and `LateDeclines` (may a repeated attempt of an
approved order be answered with a card decline; the tests of the repository
include that case).

**Persistence contexts.** The subscription, charge and lease entities have no
`@Version`; `lockByMemberId` and the locks of the member row are `SELECT ... FOR
UPDATE`. Three facts of Hibernate and Spring matter:
* a query returns the instance the session already holds and does not reload it,
  so what a thread sees after it got the lock is what it loaded first;
* a dirty entity is written with all its columns, a clean one not at all;
* with `spring.jpa.open-in-view`, TRUE unless configured (`application.yml` does
  not set it), all transactions of one web request share one session. A rolled
  back transaction clears it.

`OpenInView` chooses; `cache[w]` holds the copies: subscription, order, and of the
period an upgrade was priced for its id and tier, which its confirmation judges by. Scheduler threads always have a
session per transaction. In MySQL at REPEATABLE READ the first plain read fixes
the snapshot of a transaction; where it comes before the lock (setup, the refund
request) the queries after the lock are answered as of that read. Findings that
need `OpenInView = TRUE` depend on this behaviour of the frameworks, which is not
in the repository.

**Time.** `now` counts ticks; a term is `Month = 2` ticks, so there is an instant
inside a term and one at its end. A request spans at most one boundary, since its
budget is 60 seconds (`Tick`).

**Refunds.** A refund thread locks the member's row, which charging threads never
do, and then the subscription. `rjob[r].copy` is the order as the thread loaded it.
The AI lease has the three states an approval tells apart.

**Lease.** Every transaction locks the member's row, so one action is one
transaction. `consumed`, `forgiven` and `unmarked` are history variables: which workers
got an answer that cost something, which unrecorded ones an admin has written off, and
for which both the record and the mark failed.

**Guest trial.** A transaction is a read (one snapshot) and a commit. The counters
row is written, and its version checked, only if it changed (`Dirty`).

**Gate.** One action per use of the semaphore or of the lock. `GenerationGate`
instantiates the abstract line with `running <- Holding` (the threads that hold a
slot) and `line <- InLine` (those counted as waiting).

**The clients.** JavaScript runs one event at a time, so an action is what a handler does
up to its next `await`. A handler that waits is a record (`calls`, `tasks`, `jobs`) with
what its closure captured: the token, the conversation, the messages. The order in
which records are answered is free, an answer may be an error, a refusal, the end of
the session or get lost before or after the server acted. A message is known by the
number of the request that created it and, once read back from the server, by `saved`.
The server is what the clients can see of it: conversations with their owner, the
messages, and the request ids by which it repeats an answer or refuses
(`REQUEST_ID_REUSED`). An answer to a read is what the server holds when it is
delivered, a reading the code allows as well as any earlier one.

Left out of `WebChat`: titles, the limit of eight, the two timers (120 and 80 ms) of the
scroll and focus, splitting a conversation, opening a saved prompt. The list is in the
order of the numbers. Left out of `WebHome`: tags, the search tip and the focus. Left
out of `WebLibrary`: edits and reports of a prompt, the form that shares a conversation.
Left out of `WebFolders`: which menu or form is open, demo accounts, the length of a
name. Left out of `WebTalk`: what an administrator does in the dialog, the order and the
views of it, editing of the prompt itself; the dialog is that of one prompt (`Topic`).
Left out of `WebAdmin`: the search for members, the review of their usage, the hiding of
comments, the report status "resolved", the filters. Left out of `PanelChat`: the limit
of 30 conversations; reading a conversation of a local id is answered 404 there (an answer
400 would be thrown, as a lost one is). Left out of `PanelAccount`: the prompts kept on the device (their
ids are ones `getPromptSaveId` refuses, so the merge at a login never has anything to
do), rating a reply, and of the form every field but the two the server is asked about.
`PageInput` knows one tab, since a prompt is executed in the active one (`executeTarget`
is always "auto"), and no death of the worker: an open debugger session keeps it alive,
and without one nothing is attached. Three branches of the clients cannot be reached and
have no action: guards repeated after a disabled button.

In `WebHome` a load carries the signature of what it asked for (`Asked`), and the list is
known by the signature it answers. In `WebLibrary` a prompt is a number, with its row in
`savedPrompts` if the page keeps one; the five reads of my page are one record, whose parts
may fail separately.

History variables say when an expectation is fair: `strayed` (`WebChat`) holds once an
answer was applied while another one of the page was outstanding or the session had
changed, or a prompt that met a conflict found its conversation gone and was put aside
below the one that is open (`Gone`), `moved` (`PanelChat`) once the user or the session moved on while a handler of
the panel was waiting. `sent`, in both, has the prompt each request id went out with, and
sets apart (with `NoText`) the ids of messages that were changed since. `side.told` (`PanelAccount`) is what the server found free,
`side.loose` holds once a change and a reading of the saved prompts crossed or met
another session, or an outcome was lost. `home.moved` holds once the home screen changed
its question without asking, `library.loose` once two changes crossed, or one and a
reading of my page, an outcome was lost, or a second account was used; `console.told`
names what the console was told by the server, `console.loose` what of it was decided
elsewhere, decided without the server, lost, or read before it was decided since then.
`drawer.loose` (`WebFolders`) holds once an answer about folders was lost, one failed
beside other changes, a folder was used before it had a number, the page replaced an
object a handler held, or the list had one conversation twice (`Twice`: a guest's, which
was kept after the server's came). `talk.stale` (`WebTalk`) says that the server's comments changed,
or were read, behind the last reading's back, `talk.loose` that a like failed or crossed
a reading or a session, or a report's outcome was lost. `draft` (`PageInput`) is what
the user last typed and still wants there.

## Runs

`expect: pass`

| Run | Question | Bounds |
| --- | --- | --- |
| `BillingCharge` | one paid order per term, a stopped renewal stays stopped, settled orders stay settled | 2 web threads, 1 poller; complete, retry, cancel, upgrade, reconcile; 2 tiers, 2 orders, 3 ticks; late declines; a session per transaction |
| `BillingOpenInView` | what stale copies cannot break: one open order, periods agree with the ledger, the promise of `PaidOrders` is kept | 2 web threads with every request, setup included; 2 tiers, 2 orders, 3 ticks; open-in-view (the scheduler never keeps a copy, a request that retries stands for it) |
| `BillingLive` | open orders of a due subscription are settled or need an operator, money becomes a period | 1 web thread, 1 poller; complete and retry; 1 tier, 2 orders, of which the first is shown as ABORTED when declined and the second answered 404; 3 ticks; nobody cancels |
| `RefundReview` | refunds with two reviewers, AI requests, an upgrade, and the order of the next term | 1 web thread, 2 reviewers; complete, retry, upgrade; 2 tiers, 2 orders, 2 ticks, a month of 1: the first term ends and the next is ordered and paid while the first is refunded |
| `GenerationGate` | slots and places conserved, the promise kept, a queued thread moves on, no deadlock | 5 threads, 2 slots, 2 places: one thread more than fits |
| `GuestConcurrent` | the counters under conflicts, retries, crashes and expiry | 4 requests that may outlive their reservation, limit 2, 2 attempts |
| `WebPage` | nobody else's data, no screen busy for ever, replies under their prompts, one id per prompt, no prompt lost, reads in order, the home list is what was asked and comes back, marks, folders and comments agree with the server, the console with what is decided | 2 accounts, 1 administrator, 2 logins, 1 plan, 2 texts, 2 searches, 2 orders, 2 pages, 2 prompts, 2 names of folders, 2 folders; at most as many gestures per screen as in `MCBudgets`, every order of the answers |
| `Extension` | the debugger leaves, drafts survive, spinners end, ids stay with prompts, prompts stay on the panel, the account shown is this one's | 1 account and 1 name more, 2 logins, 2 saved prompts, 2 texts of the user and a third one; 2 executed prompts, 2 inputs; gestures (page, chat, session, form, list) as in `MCBudgets` |
| `LeaseQuota` | one call at a time, no hidden cost, the quota | 4 requests, 1 admin, 2 requests in the plan, open-in-view |

Two threads of a kind are enough for every race of the code, since each handler
touches one row set per step and the locks are exclusive; two orders give a paid
term and the one after it, or a term and its upgrade, and three ticks reach the
instant in which the second term begins. The trial needs more requests than its
limit, and its limit 2 where the code has 3 keeps the run small: nothing in the
code depends on the number (the proof is for every limit). `MaxRetries = 2` lets
both a successful and an exhausted retry happen.

The clients have no bound of their own, so the user's gestures are rationed: each budget
is a number of gestures per part, and TLC explores every order of them and of the
answers they cause to the end. The budgets were chosen so that one part goes deep while
the others do what disturbs it (a login, a logout, one more request). Larger ones pass
as well but take longer than a run should: the page's chat with (1, 0, 3) has 7.2
million states, (0, 0, 4) with one text 3.8 million, `PageInput` alone with gestures
without limit 7.4 million, the extension's page with five gestures 2.3 million.
`MCExtension` takes a page nobody uses as one page of another kind, and a panel nobody
signs in to as a guest's; its texts are symmetric. `MCNext` orders what a budget is not
about: without gestures for the list the readings of a login are answered well and at
once, without gestures for forms a form that opens is dealt with before anything else,
and a chat nobody has used reads its list at once. The chat with (0, 3, 1, 0, 0) passes
as well, in 4.1 million states. Two
accounts matter in `WebPage`, where data of one could be shown to the other; accounts and
the prompts they wrote may be exchanged together, so the one signed in at first is `ann`;
where nobody logs in, `bob`'s plan is the free one; and where the home list and my page
are used together, or my page was not read before, the prompts are kept at first
(`MCInit`; all starts pass too, in 4.6 million states). The administrator comes with `Desk`: two
decisions or visits, or one and a login or logout. `Panel` is about folders: three
changes of them, two and a login or logout, or one and a prompt; `Dialog` is three
gestures in the dialog of a prompt (somebody else's comment is one), or two and a login
or logout. All rows together are 2.0 million states.

`expect: violation`: disagreements of the code with its own documents, comments or
tests; each is a finding in `PROJECT.json` with the line and the quotation.

| Run | What happens |
| --- | --- |
| `BillingDoubleCharge` | (open-in-view) a request loads the subscription, another thread pays the term, the first gets the lock, still sees the old date and orders the term again |
| `BillingCancelStrands` | the answer to an approved charge is lost, the member cancels, no poll looks the order up again |
| `GuestOverLimit` | two reservations that each reclaim an expired one: the counters row is not dirty, so no version is checked |

Deadlock checking is off in the Billing, refund, guest, lease and client runs: a member may
stop using the service, and the bounds on orders, time and gestures end every behaviour. In
those modules no thread waits for another one's action; the gate run checks it.

### What else the models show

Other statements one would like to make are false of the code. They are not runs of
the project; each can be seen by checking the property in the instance named.

| Property | Instance | What happens |
| --- | --- | --- |
| `CancelSticks` | `BillingCharge` with setup | setup loads the row, waits for the lock held by a cancellation, writes the old `auto_renew` back (`BillingService.java:67`) |
| `DueOrderSettles` without `NeedsOperator` | `BillingLive` | the answer to a decline is lost, every lookup finds ABORTED and ends in BILLING_UNCERTAIN: the order stays open, due, and at the head of every poll (`BillingService.java:232`); `BILLING_TEST_CONTRACT.md` leaves a repeated one to an operator |
| `DueOrderSettles` | `BillingLive` with upgrade and 2 tiers | an upgrade of unknown outcome blocks the renewal, and no poll resolves it (`BillingService.java:198`) |
| `SentTermIsAhead` | `BillingCharge` | an order left open is charged after its term is over (`BillingService.java:199`) |
| `SettledIsFinal` | `BillingOpenInView`, `LateDeclines` | a late decline is judged on the request's old copy and fails an order that is DONE |
| `TermsPaidOnce` | `BillingCharge` with setup | setup waits for the lock of a charge, then writes its old `paid_through` back; the term is ordered again (`BillingService.java:67`) |
| `CancelSticks` | `BillingCharge`, open-in-view | two completions of the card registration: the second saves the subscription it loaded before the cancellation |
| `RefundIsReal` | `RefundReview`, open-in-view | an approval writes the order it loaded before another reviewer completed the refund of it |
| `ActiveIsEntitled` | `RefundReview`, open-in-view | two refunds complete at once; the second writes the subscription of its session, paid up to the end of the term refunded first |
| `ReturnedIsApproved` | `RefundReview`, open-in-view | a reject is judged on a copy loaded before the approval |
| `RefundExcludesPayment` | `RefundReview` | a refund request and a new order each miss the other; both then wait for an operator |
| `LivePermitKept` | `LeaseQuota`, `LateWorkers` | an expired worker frees the next one's permit, or erases the flag. `MEMBER_QUOTA.md` disclaims fencing of late workers, a test promises this release to be harmless |
| `NothingClearedUnseen` | `LeaseQuota` | a review stays current although a worker died with its permit after the page was loaded |

`TermsPaidOnce` excludes orders that are FAILED although the provider has the money: under
`LateDeclines` a repeated attempt of an approved order whose first answer was lost is
recorded as a failure, and the next request orders the term again. Whether the provider
ever answers so is not in the repository; without `LateDeclines` there is no such order
(`FailedIsUnpaid`, which is proved; the runs check it as part of `ImplementsPaidOrders`).

The clients have weaknesses of the same kind. The properties are about what holds beside
them; each of these is a few steps in the model:

| Where | What happens |
| --- | --- |
| `billing-controller.mjs:181` | a quote that answers late is stored whatever was refreshed or whoever logged in since |
| `billing-controller.mjs:137` | `isCurrent` compares the token of the last refresh, so a 401 of the old session signs the new one out |
| `billing-controller.mjs:160` | opening the screen or reloading during a mutation ends with `busy` false while the mutation is still under way |
| `make-controller.mjs:151` | a reply is appended to the conversation that is open when it arrives |
| `make-failure-recovery-effects.mjs:23` | the snapshot of a failed request is put back over what a second request wrote meanwhile |
| `make-server-sync-effects.mjs:286` | answers that were on their way at a logout are applied after it |
| `backend-effects.mjs:156` | deleting another conversation refreshes the list, and a local conversation with a failed prompt is dropped |
| `backend-effects.mjs:312` | an answer for another session leaves the status at "checking" |
| `error-effects.mjs:91` | a 401 while a guest's conversation waits for its transfer drops a prompt |
| `make-controller.mjs:167` | a message just answered still has its local id; editing it is answered 404 |
| `make-folder-workflows.mjs:71` | a folder keeps its local id after its number is known; a reading of the conversations alone shows those in it in no folder |
| `make-folder-workflows.mjs:116` | a conversation moved into a folder just created stays there on the page if the server refuses the move |
| `make-folder-workflows.mjs:164` | a deletion of a folder that fails puts the folders of before back: later changes, and the numbers of folders created meanwhile, are gone |
| `make-folder-workflows.mjs:188` | of two moves of one conversation the first fails last, and puts it back where it was before both |
| `make-folder-workflows.mjs:300` | a folder whose number is not known yet counts as none: the server is told to take the conversation out, or nothing |
| `state-make.mjs:57` | a conversation begun in a folder is shown there; only a move files it at the server |
| `state-core.mjs:283` | folders with a local id survive a logout, and the next account's page shows them |
| `backend-effects.mjs:114` | an answer that there are no folders is not applied: folders deleted elsewhere stay |
| `background.js:79` | two executed prompts interleave: the second one's text is sent by the first, and the second reports success too |
| `background.js:86` | 150 ms after the text is written, whatever the input then holds is sent |
| `background.js:100` | the kind and address of the page are read once; after a navigation the debugger types into another site |
| `inline-improve.js:184` | a text of several lines that the editor lays out otherwise counts as not written, and restore is not offered |
| `useMessageRetry.js:106` | after a conflict the notice says that the edited text is kept in the input; the composer is not set. An edit refused with 500 loses its text |
| `useMakeRequest.js:41` | after a cancellation a read back of the earlier request overwrites the messages |
| `useConversation.js:274` | a retry of an edit leaves `pendingRetry` behind; the same prompt submitted later repeats the old answer |
| `useServerThreads.js:72` | the prompt is looked for by its text, so an earlier equal prompt hides a failure |
| `useConversation.js:234` | two submissions of a guest while the session id is awaited: the second writes the first one's messages over |
| `useConversation.js:278` | a logout, a new chat or another conversation during a request: the answer lands there |
| `extensionStorage.js:67`, `background.js:17` | two writers may each create a session id |
| `useAuth.js:64` | the late answer to a withdrawal signs out whoever is signed in by then, and a late login replaces the session and closes any form that is open (`:29`) |
| `AuthModal.jsx:187` | one place says which field is being checked: the answer for the nickname ends the wait for the id |
| `useSavedLibrary.js:143` | the saved prompts read for the session of a click are shown to the next one; of two readings that cross the one answered last stays |
| `useAuth.js:14` | a prompt submitted before the stored session is read goes out as a guest's |
| `messageRetry.js:7` | a guest's edit keeps the request id a member's message had; after the next login the id travels with another text (`REQUEST_ID_REUSED`) |
| `make-controller.mjs:178` | the same in the web page: a guest's edit keeps the id a member's message had, without noting what was sent under it; after the next login the edited text goes out under it (`OneIdOnePrompt` without its exception) |
| `home-controller.mjs:73`, `app.js:1005` | going home during a retry changes the question without asking; the answer is thrown away and the list says "checking" for good |
| `backend-effects.mjs:487` | the first load has no check of what is asked, an answer to it replaces a newer list |
| `backend-effects.mjs:546` | the late failure of an abandoned search shows the home as away |
| `prompt-engagement-controller.mjs:7` | the row is remembered by its index over an await: another row is removed, a double click saves twice |
| `prompt-engagement-controller.mjs:21` | unsaves put off are not sent when my page is left through a tag, an author or a logout, although the notice says so |
| `prompt-engagement-controller.mjs:52` | a like that fails keeps its mark and count; what the server knows of one's likes is never read |
| `prompt-engagement-controller.mjs:98`, `:143` | a comment edited or deleted before its number is known is changed on the page only, and comes back with the next reading |
| `prompt-engagement-controller.mjs:117` | of two readings of the comments the one answered last stays, the older one too; one that crosses a like shows the count without it |
| `prompt-workflows.mjs:79` | the form of a report can be sent again while the first one is under way |
| `prompt-workflows.mjs:87` | while the home list is away a report counts as made and is never sent |
| `state-prompt.mjs:124` | a deleted prompt stays among the prompts written until my page is read again |
| `admin-user-controller.mjs:79` | the late answer of an older search for members replaces the newer one's |
| `state-admin.mjs:65` | after a block the activity is read again and shown with the decision of that moment; a later decision is shown wrong until the member is visited again |
| `admin-effects.mjs:86` | a reading of the console that began before a decision shows the older decision again; its answers are applied after a logout too |
| `admin-effects.mjs:125` | the console's list of revision requests is of another table than the requests to authors that its buttons change |
| `admin-tag-controller.mjs:5` | a tag decided before the tags were read is decided in the browser only |
| `app.js:2127` | the hidden prompts of the console are never read from the server, and stay hidden for the next account of the browser |
| `app.js:2220` | while the home list is away, saving and liking succeed on the screen and are never sent |

`CostIsVisible` and `QuotaHolds` exclude the answers of which both the record and the
mark failed (`unmarked`): `improve` then releases the permit and nothing is left to
remember them. They count the answers `improve` can use. A 200 without a text in it is
refused as `AI_INVALID_RESPONSE` before its usage is looked at (`PromptController.java:1170`)
and leaves no trace, whatever it cost: `CallFails` stands for it, and
`MEMBER_RAG_USAGE.md` says that only valid successes are recorded.

### Fairness

`BillingLive` assumes of a scheduler thread that it runs again and again
(`@Scheduled` with a fixed delay), of every call that it ends (the request budget of
`TossBillingGateway` bounds it), and of the provider that, called again and again
for one order, it settles one of the calls while the caller waits (strong fairness:
any single call may time out). Nothing is assumed of members, nor of the operator who
compares an order that is shown as ABORTED (`NeedsOperator`): its settlement is not promised. `GenerationGate` assumes that
a thread that waits moves on (`acquire` has a deadline) and that a running one ends
(LLM calls have timeouts), and nothing of threads that have not entered.

### Properties that are not obvious

* `GrantedIsPaid` is an equivalence: a period exists for exactly the renewal orders that
  are DONE or CANCELED, and for those the provider has the money or gave it back.
* `CancelSticks` names the only two ways a stopped renewal may start again; any writer
  that carries an old `auto_renew` violates it.
* `CostIsVisible` names every place where an answer that cost something may be
  remembered: a record, the flag, a permit not released, a worker on its way.
* `ActiveIsEntitled` goes both ways: a later date has a period that grants it, and a period
  that runs on is not forgotten by the date. The second half is what a refund of the last
  term would break if it cleared a date that is the next term's.
* `OneIdOnePrompt` excepts the ids set apart in `sent` by a pair with `NoText`: of messages
  whose text is not what was sent under the id they bear (see "What else the models show").
* `AnswerFollowsQuestion`, `PromptIsKept` and the conversations of `PageIsMine` are
  about pages that have not `strayed`; `PromptIsKept` also excepts a conversation
  waiting to be transferred. `IdKeepsPrompt` excepts the ids set apart in the panel's
  `sent`, `PanelPromptKept` is about panels that have not `moved`. `HomeIsAsked` excepts a home that has `moved`, `LibraryAgrees` a
  library that is `loose`, `AdminAgrees` what in the console is, `PanelAgrees` the saved
  prompts of a panel that is, `FoldersAgree` a drawer that is (or a page that has
  `strayed`) and `TalkAgrees` a dialog that is `loose` or `stale`. The rest is unconditional.
* `BusyEnds` and `SpinnerHasRequest` are safety forms of "it ends": whatever is disabled
  is disabled by a record that is still waiting, and every answer of it, an error too,
  frees it.
* `FoldersAgree` and `TalkAgrees` are about a page at rest: no answer is awaited, and
  then what is shown, in which folder, with which marks, is what the server would
  answer.
* `NewestWins` and `PanelPromptKept` are action properties: they compare the screen
  before and after the step.
* `DraftKept` allows exactly two places: the input, or the preview that shows it.
* `ReturnedIsApproved` looks at the call on its way to the provider as well as at the
  ledger.

Each property of a passing run has a mutant: a faulty form of a definition (marked
`Faulty` in the module) under which TLC finds the property violated.

## Proofs

| Theorem | Module | Statement |
| --- | --- | --- |
| `BillingTypes` | `BillingProofs` | `Spec => []TypeOK` |
| `OneOpenOrder` | `BillingProofs` | `Spec => []AtMostOnePending` |
| `PeriodsArePaid` | `BillingProofs` | `~LateDeclines => (Spec => []GrantedIsPaid)` |
| `FailuresAreUnpaid` | `BillingProofs` | `~LateDeclines => (Spec => []FailedIsUnpaid)` |
| `NoTermIsPaidTwice` | `BillingProofs` | `Spec /\ [][OrdersAreCurrent /\ SubIsCurrent]_vars => []TermsPaidOnce` |
| `CancelIsKept` | `BillingProofs` | `Spec => [][...]_vars`: a stopped renewal restarts by a request that means it, or by a web request that goes on with an old copy of the row; and `Spec /\ [][SubIsCurrent]_vars => CancelSticks` |
| `VerdictsAreFinal` | `BillingProofs` | `~OpenInView \/ ~LateDeclines => (Spec => SettledIsFinal)` |
| `BillingKeepsItsPromise` | `BillingProofs` | `~OpenInView \/ ~LateDeclines => (Spec => ImplementsPaidOrders)`: every step of billing is a step of `PaidOrders` or a stutter |
| `NoUseDuringRefund` | `BillingProofs` | `RSpec => []NoUseWhileCanceling` |
| `NoOrderUnderReview` | `BillingProofs` | `RSpec => NoOrderDuringReview` |
| `ChargesSurviveRefunds` | `BillingProofs` | `RSpec => [](AtMostOnePending /\ (LateDeclines \/ (GrantedIsPaid /\ FailedIsUnpaid)))` |
| `RefundTypesHold` | `BillingProofs` | `RSpec => [](TypeOK /\ RefundTypes)` |
| `RefundsAreReal` | `BillingProofs` | `RSpec /\ [][CopiesAreCurrent]_allVars => []RefundIsReal` |
| `ReturnsAreApproved` | `BillingProofs` | `RSpec /\ [][CopiesAreCurrent]_allVars => []ReturnedIsApproved` |
| `RefundsKeepThePromise` | `BillingProofs` | `RSpec /\ [][CopiesAreCurrent]_allVars => ImplementsPaidOrders`: with the refunds too |
| `ActiveAreEntitled` | `BillingProofs` | `RSpec /\ [][CopiesAreCurrent /\ SubCopiesAreCurrent]_allVars => []ActiveIsEntitled` |
| `RequestsExclude` | `RequestLeaseProofs` | `~LateWorkers => (Spec => [](TypeOK /\ OneCallAtATime))` |
| `CostsStayVisible` | `RequestLeaseProofs` | `~LateWorkers => (Spec => []CostIsVisible)` |
| `QuotaIsKept` | `RequestLeaseProofs` | `~LateWorkers => (Spec => []QuotaHolds)` |
| `PermitsAreKept` | `RequestLeaseProofs` | `~LateWorkers => (Spec => LivePermitKept)` |
| `GateCounts` | `GenerationGateProofs` | `Spec => [](TypeOK /\ SlotsConserved /\ QueueIsCounted)` |
| `GateIsBoundedLine` | `GenerationGateProofs` | `Spec => ImplementsLine`: every step of the gate is a step of `BoundedLine` or a stutter |
| `LineIsCounted` | `GenerationGateProofs` | `Spec => [](TypeOK /\ QueueIsCounted)` |
| `DebuggerIsReleased` | `ExtensionProofs` | `Spec => []DebuggerReleased` |
| `DraftIsKept` | `ExtensionProofs` | `Spec => []DraftKept` |
| `SpinnersEnd` | `ExtensionProofs` | `Spec => []SpinnerHasRequest` |
| `PanelSaysTrue` | `ExtensionProofs` | `Spec => []PanelAgrees` |
| `HomeComesBack` | `WebPageProofs` | `Spec => []RecoveryArmed` |
| `HomeShowsAsked` | `WebPageProofs` | `Spec => []HomeIsAsked` |
| `BillingShowsMine` | `WebPageProofs` | `Spec => []BillingIsMine`, the billing part of `PageIsMine` |
| `NewestIsShown` | `WebPageProofs` | `Spec => NewestWins` |
| `ScreensAreFreed` | `WebPageProofs` | `Spec => []BusyEnds` |
| `IdsKeepTheirPrompt` | `ExtensionProofs` | `Spec => []IdKeepsPrompt` |
| `ConsoleIsTrue` | `WebPageProofs` | `Spec => []AdminAgrees` |
| `ConversationsAreMine` | `MakeProofs` | `Spec => []PageIsMine` |
| `OneIdIsOnePrompt` | `MakeProofs` | `Spec => []OneIdOnePrompt` |
| `DialogIsTrue` | `MakeProofs` | `Spec => []TalkAgrees` |
| `AnswersFollowTheirQuestions` | `RepliesProofs` | `Spec => []AnswerFollowsQuestion` |
| `StoredCountersBounded` | `GuestUsageProofs` | `Spec => [](TypeOK /\ StoredWithinLimit)` |
| `NoSlotIsLost` | `GuestUsageProofs` | `Spec => []NoSlotLost` |
| `SuccessesAreCounted` | `GuestUsageProofs` | `Spec => []SuccessCountedOnce` |

They hold for every value of the constants that satisfies the module's assumption, and the
hypotheses stated. A hypothesis stands where the statement is false without it: each is
refuted in the tables above (`SettledIsFinal` and `ImplementsPaidOrders` with open-in-view
and late declines, `LivePermitKept` with late workers).

Six theorems on terms, cancellations and refunds are about every configuration, the
deployed one (open-in-view) and setups included. What they ask is of the behaviour, not of the
setting: no thread takes a step that writes to the database while the order (or the
subscription) its session holds differs from the row (`OrdersAreCurrent`, `SubIsCurrent`,
and for reviewers `ReviewsAreCurrent`, `ReviewSubsAreCurrent`), what a version column on the
entity would refuse. The service has no such column, so the premise is not guaranteed: with
open-in-view a write by an old copy does happen and all six properties are then false
(`BillingDoubleCharge`, and the table above). Read the other way round they say that such a
write is the only way to the damage: lost, repeated and late calls, crashes, doubled
requests, polls and reviewers at work together never do it, for any number of them.
`CancelIsKept` has a half without any premise. With a session per transaction all
orders are current (`SessionPerTransaction`, a lemma), and the subscription is unless a setup
waits for its lock. `GrantedIsPaid`, `AtMostOnePending`, `NoUseWhileCanceling` and
`NoOrderDuringReview` need no such premise, and neither does `ImplementsPaidOrders` without
refunds if the provider gives one verdict per order.

`TypeOK` of the billing and `QueueIsCounted` are proved and not
properties of a run; the second is what `ImplementsLine` rests on.

*Billing.* None of these invariants is inductive. The invariant `IInv` adds to them

* `Threads`: a thread that has an order in its hands has the id of a row that exists, of
  the kind its request is about (`charge` of renewals, `upgrade` of upgrades), its loaded
  copy is of the same kind, and what it is about to write is what the provider's ledger
  says (a thread at `confirm` has an order that is paid, at `decline` one that is
  declined). This is what makes a stale copy harmless here: it may be old, but it is of
  the right order and the verdict is the provider's;
* `PlacedPrefix`: the orders are the first ids, so a new order overwrites none;
* `SinglePending`, `DoneIsPaid` and `FailedIsDeclined`, which relate every row to the ledger.

One lemma says that a thread keeps what it knows while others move (rows keep their kind,
verdicts stay: `RowsEvolve`), one each that placing an order and writing a verdict preserve
the rows' part; then there is one lemma per group of actions. `OneOpenOrder` holds with and
without open-in-view and whatever the provider does, and so for the double charge above:
the two orders are never open at the same time. `PeriodsArePaid` and `FailuresAreUnpaid`
need `~LateDeclines`, and are false without it. That `LatestPending` and `ActivePeriod` are
members of the sets they are chosen from is proved from the well-foundedness of `<`.

*Terms and verdicts.* `StepWrites` sorts the transactions by what they write: `Quiet` ones
leave orders and periods alone and change the subscription in five ways or not at all, `Places`
inserts an order, `Verdict` settles one. All that follows is by these shapes and not by the
28 actions. A thread that writes by current copies sees the rows as they are (`WriterSees`);
with a session per transaction only a setup that waits for its lock does not
(`FreshCopies`). `TermsInOrder` is the strengthening of
`TermsPaidOnce`: `paidThrough` is the end of the last term that was paid, every settled
term ends before it and an open one begins after it, so a new one, which begins when
`paidThrough` is over, overlaps none. The provider holds money only for orders that exist
(`SentArePlaced`). An old copy written back, by a setup or in one session per request,
moves `paidThrough` backwards, and then the term is ordered again: hence the premise.
`VerdictsAreFinal` has two proofs in one: the writer sees the status that it replaces, or
it holds an old copy but the provider has only one verdict to give.

*The promise.* `ImplementsPaidOrders` maps the status of an order to that of its row (an order
without a row is "NONE"), the money to the provider's ledger, the renewals and the terms to
the kinds of the rows and the periods. `PromiseInv` collects what the steps need: rows and
terms as above, money only for orders that exist, a decline known to the provider before
a thread writes it (`DeclinesAreHeard`), nothing given back. `LedgerMoves` says which steps
are an `Answer`; `Placing`, `Settling` and `Failing` map the three shapes of `StepWrites`, and
everything else leaves the four mapped values alone. A verdict written a second time, from
an old copy or by two threads with one order, repeats the first and is a stutter
(`RepeatedVerdict`): here the hypothesis is needed, for with an old copy and two verdicts
of the provider the second overturns the first. With refunds the step that gives money
back is a `GiveBack`, since only settled orders are sent to the provider, and the one that
completes the refund is a `Refund`, since the row it read is the row (`PInv`).

*Refunds.* The first half holds with one session per request as well, where a reviewer may
write an order it loaded before somebody else's approval. `RInv` adds to the invariant of the
charges what such a copy is worth (`CopyOk`): it is of the right kind, and if it says
settled the money was taken and the order is settled to this day. That is enough to carry
`IInv` over every step of a refund (`RowReviewed`), and so `ChargesSurviveRefunds`. No AI
request runs during a return (`NoUseDuringRefund`), since only an approval makes a refund
PENDING and it finds the lease free under the lock that a request needs. The second half is
about rows that are read as they are: a refund request has the member's row locked, so the
order it read is still that order (`OneAsks`, `AskedCopy`); a thread on its way to the
provider has an order whose refund is approved or done (`ApprovedStays`), because nothing
turns PENDING into anything but DONE; a period belongs to an order that exists
(`GrantsArePlaced`); and a reviewer past the approval may rely on it whatever its copy says
(`CopiesKnow`). `RefundMoves` then gives the four things a refund may do to one order,
`RowMoves` the three things a charge may do, and the three invariants follow order by
order. For `ActiveAreEntitled` the strengthening `Entitled` adds that at most one term runs
on, and that an open renewal was ordered after the date: so the next term, once granted,
is the only one that runs, and the refund of an earlier one finds a date that is not its own.

*The lease.* `LeaseInv` says that a request between acquire and release holds the lease and
that the copy in its session is the row as it is, which makes each write of the whole row
harmless, with open-in-view too; that only dead requests expire; that a cost that nothing
else shows is remembered by the permit of a request that died; and that the room found by
`checkQuota` is there until the answer is recorded. `~LateWorkers` is the premise of
`MEMBER_QUOTA.md`, which disclaims requests that outlive their permit.

*The gate.* `TypeOK /\ SlotsConserved /\ QueueIsCounted` is inductive as it stands. The
work is in counting: lemmas say how the sets `Holding` and `Waiting` grow and shrink
when one thread moves, and the library's facts about cardinality do the rest. The
refinement maps the abstract runners to `Holding` and the line to the queued and late
threads; that a thread finds room in the abstract line is `QueueIsCounted`, that it
finds a free place to run is `SlotsConserved`.

*The trial.* `StoredWithinLimit` is not inductive: a commit writes what its read
computed. The invariant adds that a copy with the stored version equals the stored
counters (`VersionIdentifies`) and that a thread about to commit had room in the copy
it read (`CheckedBelowLimit`); a commit whose version check passes therefore starts
from the stored counters, and one whose row is not dirty leaves them alone. `NoSlotLost` and
`SuccessCountedOnce` compare the counters with the reservation rows: `SlotInv` adds that a
request has a row from the commit of its reserve on and that no row is ever deleted
(`RowsAreKept`). A commit that leaves the counters as they were escapes the version check;
it moves one row in and at most one out, so the sums agree (`CountAfterMove`). Completing
and releasing always change the counters, so they are written over the rows they read.

*The page.* `DebuggerReleased` with `RunTypeOK` is inductive: only a handler at "attach"
attaches, and only one that inserts or detaches leaves the places where the debugger may
be attached; another handler's detach only helps. `DraftKept` is not: an apply replaces
the input, so one must know what the preview is a preview of. `DraftInv` adds that a
preview belongs to the input the script knows, that there is none while a reply is
awaited, and that where there is none, or it belongs to an input no longer shown, the
typed text is in the input. The lemmas go through the ways the two texts can come apart:
a write, an apply, a restore, a reply. Both hold for any number of executed prompts,
inputs and texts and whatever the panel does.

*The panel.* An account is entered, left and asked about while answers of an earlier one are
still on their way. `SpinnerHasRequest` becomes inductive with two facts about the calls:
a request in its place agrees with the handler that waits for it (`RequestWaits`), and every
part of the account form that is shown as under way has its call (`FormWaits`, `ListsWait`).
For `PanelAgrees` one adds what the panel was told: a name marked free was told free
(`FormTold`), usage is read only with the token of the session (`UsageOk`), and a list said
to be the server's equals the server's as long as nothing that could tell them apart is
under way (`ListOk`); any answer that could make a difference marks the list loose. The
lemmas are by what happens to a call: it is added, answered, or stays.

`IdKeepsPrompt` speaks of two places, a request on its way and the server's messages, but an id
gets from one to the other by many: the message on the screen, the remembered retry and edits,
the history a guest's handler brings along, both lists of conversations. `IdInv` says the same
of each: what bears an id bears the prompt that went out under it, or the id is set apart
(`Vouched`). A handler that ends hands its id on together with its prompt (`HandlerSays`,
`ImprovedOk`); an edit gets the remembered id only if the text is the remembered one, else a
new id, greater than all there were (`SentOk`). Only a guest's edit changes the text under an
id, in the step that sets it apart (`CutOk`).

*The home list.* `Watched` (a list that is away is looked after) is inductive as it stands;
`Answering` strengthens `HomeIsAsked`: what is asked for is shown, or some load of it is to
answer. Loads overlap and may answer in any order, which is why it says "some". Each step of
the other screens that reaches the list is one of a few moves (`HomeStep`).

*The billing screen.* `BillingInv` says that what is shown belongs to the account of the
screen's token and is no newer than the server's (`ShownIsOf`), that an open screen is the
session's or blank (`OpenIsMine`), and, of the reads under way, that only one of the latest
revision, sent under the screen's token, can still be shown, and that it then brings
nothing older than what is there (`FetchesInOrder`). All that the other screens do to it is
to end the session or to leave it alone (`Ends`).

*The composer and my page.* Signals are numbered, and a fresh one is greater than all there
were. A composer that takes no prompt has its handler under its signal, and no other
handler has that signal (`ComposerGood`); so handlers that only read may end in any order
without opening it, and the one that must open it cannot be lost. My page, while it is
being read, has a reading under the token in use (`LibraryGood`): every end of a session
makes it idle, and most handlers change fields that do not matter to this (`Alike`).

*The console.* `AdminAgrees` is about a console with nothing under way; the invariant says what
holds in between. A subject the console was told of is at all times shown as it is decided,
unless it is `loose` (`ViewsAgree`): a decision is shown in the step in which the server
takes it, and an answer that brings an older state makes what differs loose. The audit log
lags behind every decision; `LogKnown` says that it is then being read, or will be before the
console is seen again: after a block the console is marked as unread, and the next time it is
drawn it is read.

*The Make screen.* A list is filtered by the positions that qualify (`Keep`, with `Nth` for
the k-th of them and `First` for `find`), and `NthIsIn` and `KeepFacts` say that what is
kept are elements of the list. `MakeInv` then says one thing of every place a message may
be in: the page, the conversations of the list, those of the server, the history a handler
brought along, what a folder's handler took up to store. A message with a request id bears
the prompt that was sent under that id, or the id is set apart (`Vouched`); a handler that
is to send a prompt has one that went under its id (`HandlerOk`). So a prompt sent again goes
under its old id only if it is the old prompt (`ResendOk`), and new ids are greater than all
there were (`SentOk`). Of the conversations it says that a number on the page is of one of
the account's own (`Reach`), since the server's answers bring only such (`ImproveOutcome`,
`FetchedOk`, `AllMineOk`), and a logout leaves none (`ClearedPage`, `ExpiredPage`). Both
grow: prompts, tokens and conversations are only added (`Grows`), so what was well-formed
stays so, and only what a step writes has to be looked at.

*Replies and prompts.* `AnswerFollowsQuestion` is not inductive: an answer is put at the end of
a list that may have changed since its prompt was put there, and a prompt that met a conflict
is set aside as a note, to be dropped, sent anew or to edit the prompt it is about. `ToldInv`
adds what makes this safe. The prompt of a request that waits for its reply is the last message
of the open conversation, and is not a note (`TaskTold`), for whatever would add another ends
the request or is refused meanwhile; a note shares its number with no other message, and no
other note is about it (`NotesApart`), so that dropping it or sending it anew leaves no reply
alone; and numbers do not exceed the requests made so far (`Upto`), so a new prompt meets no
old one. All that ever becomes the list of the page is held to this: the page and its
conversations (`Tales`), what the server stores and what a failed request puts back (`Plain`:
without notes), and what a folder's handler carries (`ChoresTold`). The lemmas before it are
about lists alone: a message or a pair added, taken out, marked or put back in place keeps a
tale a tale. Nothing is claimed of pages that have `strayed`, as in the property. TLC checked
`ToldInv` on a smaller instance before it was proved.

*The dialog.* `TalkAgrees` is about a dialog at rest; `TalkInv` says what holds on the way. The
server's table only grows, and a comment keeps its number and its author (`Elder`), so what an
old answer says of who wrote what stays true. The member's marks are the server's, but for the
likes under way (`LikesOk`, `ReportsOk`): a comment has at most one such like, which changes
its mark (`OneLike`), for the button offers only the opposite of the mark, and a second like
before the first is answered makes the dialog `loose`. The list is compared with the server's
only while no change of a comment and no reading is under way (`Pending`): then each comment
shown is the server's with its likes one more or one less, as the like under way has it
(`Weighed`), and the number shown is of those not deleted (`InStep`). Between a change and the
reading that follows it nothing is said of the list, which is what the code relies on: a
comment shown before the server has it bears a number below zero and gives way to the reading
(`ListedIsNumbered`). A member never likes or reports their own comment (`Foreign`), so
taking a comment back, which drops the marks of its number, drops none that the server has
(`RemoveKeepsTalk`). Other screens end the session, hide the dialog or leave it alone
(`TalkStep`).

Only model-checked: the liveness properties (fairness is outside the prover's reach); that a
prompt is not lost from a conversation (`PromptIsKept`, and `PanelPromptKept` of the panel);
and `LibraryAgrees`
and `FoldersAgree`, which rest on invariants about the changes under way that are not
written yet.

## Not modelled, and the plan

The remaining parts are in `PROJECT.json` with the reason. In this order:

1. `UsagePeriod` and `UpgradeQuote`: the window arithmetic of `UsagePeriodService.at`
   and the rounding of `quoteAt` as pure operators against reference definitions.
2. `PasswordReset` and `AuthSession`: the reset token under its lock, revocation and
   `authVersion`, withdrawal next to billing.
3. `RevisionReview`: revision requests of members and authors, two reviewers.
4. `MakeReplay`: the first message of a conversation sent twice, edits and replays.
5. The forms of the web page, edits and reports of prompts, the search for members and
   the review of usage, and the prompts the extension keeps on the device.
6. Proofs: `PromptIsKept`, `PanelPromptKept`, `LibraryAgrees` and `FoldersAgree`.
