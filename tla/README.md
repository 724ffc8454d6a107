# OneAndro in TLA+

A verification project for the services of this repository: a loan-lead platform made of
five NestJS applications (`api-gateway`, `user-service`, `lead-service`,
`banking-adapter-mock`, `ai-orchestrator`) that share a Kafka topic and a Redis, with a
Postgres database for each of the three that persist. Most of the services run as several
replicas behind nginx, so whatever a request reads before an `await` may be stale when it
writes. This is what the modules here are about.

`PROJECT.json` lists the components, the runs, the mutants that show that each property can
fail, the source lines behind each definition, the findings, the hazards and the theorems.

## 1. Inventory

Paths are relative to `src/apps/` unless they start with `packages/`.

| Component | State | Operations | What is hard | What makes it correct |
|---|---|---|---|---|
| **lead-service, leads and KYC** (`lead-service/src/leads`, `.../kyc`) | `leads`, `lead_status_history`, `kyc_documents`, the document volume | `create`, `upload` → `markKycUploaded`, `updateStatus` → `transition`, reads | a status is checked before an await and written without a condition after it; `create` and `upload` write in several statements | row and audit trail agree; every audit row is an edge its role may take; nothing gets to the bank without approval and score; documents back what left `CREATED` |
| **lead-service, events** (`lead-service/src/kafka`) | sends in progress | `publishLeadStatusEvent`, not awaited | lost, repeated, reordered sends | an event tells what the trail tells; without faults every row is published |
| **user-service, accounts and sessions** (`user-service/src/auth`, `.../users`) | `users`, `refresh_tokens`; the access tokens that are out | register, login, rotate, logout, logout-all, assign a role, update a profile, deactivate | two requests with one token; revocation while a rotation is in flight; a role or an account that changes while a login runs; claims that outlive what they claim | a family has one user; rotation records are right; an ended session stays ended; a disabled account gets nothing new; a stale claim lasts no longer than a token; nobody makes themselves an administrator |
| **user-service, projection** (`user-service/src/kafka/consumers`) | consumer offset, `users.last_lead_status`, dead letters | `eachMessage` → `recordLeadStatus` | redelivery, reordering, restart | the projection shows something true, and settles |
| **banking-adapter-mock** | consumer offset, handoffs in memory, mails, dead letters | `eachMessage`, `notify`, `processHandoff`, the calls back to lead-service | not awaited handoffs lost in a crash or run twice; mails repeated | mails are true, not dropped, not contradictory; the bank's decision is recorded |
| **api-gateway, rate limiter** (`api-gateway/src/rate-limit`) | one sorted set per key in Redis | `consume`, the Lua script, the timeout | stamps taken before the script runs, on clocks that differ; late scripts; no answer | the log stays within the limit; how much of the window is left; exact retry times; nobody hangs |
| **api-gateway, pipeline** (`api-gateway/src/proxy`) | the requests in flight | `use` | which identity a request is counted for | login quota by address, everything else by user |
| **api-gateway, dashboard** (`api-gateway/src/proxy/dashboard`) | none | two concurrent calls with the caller's token | partial failure; one service looks the account up, the other believes the token | a section fails alone; a disabled account sees no profile |
| **ai-orchestrator, semantic cache and Q&A** (`ai-orchestrator/src/tier1-qa`) | an index and its entries in Redis | `ask`, `lookup`, `store` | cutoff, prune, scan, fetch and self-heal are separate calls, while entries expire and others store | a valid answer stays in the index; the best one is served; the model is asked only when there is none |
| **ai-orchestrator, ingestion** (`ai-orchestrator/src/rag`) | `document_chunks` | `ingest` → `insertChunks`, `similaritySearch` | a failure between two inserts, searches in between | what was reported as ingested is there; what is cited is stored |
| **ai-orchestrator, underwriting graph** (`ai-orchestrator/src/tier2-underwriting`) | `underwriting_runs`, the state of each run | `run` and its nodes, `listRuns` | lead, prior runs and policy are read at three times while all of them change; a failing node | what a run decides on was there, and nothing it should see is missing |
| packages/common | none | roles, event contract | | used by every module |
| configuration, health, filters, interceptors, telemetry, infra | none of their own | | pure wiring and I/O | |

How they interact: a client talks to the gateway, which counts the request in Redis and
proxies it. `lead-service` writes its tables and publishes each status change on
`lead-status-events`, keyed by lead. Two consumer groups read the topic: `user-service`
keeps the last status on the user's row, and `banking-adapter-mock` mails the applicant and,
for `BANK_HANDOFF`, decides and calls `PATCH /leads/:id/status` with a `SYSTEM` token.
`ai-orchestrator` asks `lead-service` for the lead with the caller's own token, and the
gateway's dashboard asks `user-service` and `lead-service` likewise. `user-service` signs
the access tokens; it looks the account up on every request, and the other services believe
what the token says until it expires.

## 2. Modules

| Module | Models | Builds on |
|---|---|---|
| `LeadStatusStateMachine` | the two tables and the assertions of `lead-status.state-machine.ts` | |
| `LeadService` | `leads.service.ts`, `kyc.service.ts`, `document-storage.service.ts` | `LeadStatusStateMachine` |
| `LeadStages`, `LeadLedger`, `LeadWorkflow` | abstract: which stages a lead has entered, and the life cycle it follows until two decisions are taken in one stage | |
| `LeadEvents` | the producer and the topic, composed with `LeadService` | `LeadService` |
| `UserProjection` | `user-service`'s consumer | `LeadEvents` |
| `BankingAdapter` | the bank's consumer, handoffs and calls back | `LeadEvents` |
| `TokenService` | `token.service.ts`, `auth.service.ts`, logout-all, deactivate | |
| `Sessions` | abstract: a session opens once, and once ended is brought back by a rotation let through before only | |
| `AccessControl` | roles, access tokens, `users.controller.ts`, the guards, the dashboard | `TokenService` |
| `DocumentStore` | `pgvector-store.service.ts`, `ingestion.service.ts`, the cosine | |
| `PolicyQa` | `qa.service.ts`, `redis-semantic-cache.service.ts` | `DocumentStore` |
| `AnswerCache` | abstract: hit or miss is decided at one moment | |
| `Underwriting` | `underwriter-graph.ts` and its nodes, composed with lead-service | `LeadService` |
| `RateLimiter` | `sliding-window-rate-limiter.service.ts` | |
| `Gateway` | `gateway.middleware.ts`, `route-table.ts`, what `jwt-verifier.service.ts` yields | `RateLimiter` |
| `LeadServiceProofs`, `TokenServiceProofs`, `RateLimiterProofs`, `PolicyQaProofs` | the theorems about the module of that name | the module |
| `ConsumersProofs` | the theorems about `LeadEvents`, `UserProjection`, `BankingAdapter` | these, and `LeadServiceProofs` |
| `UnderwritingProofs` | the theorems about `Underwriting` | it, and `LeadServiceProofs` |
| `AccessControlProofs` | the theorems about `AccessControl` | it, and `TokenServiceProofs` |
| `GatewayProofs` | the theorems about `Gateway` | it, and `RateLimiterProofs` |
| `MC*` | constants for TLC | |

### How the models correspond to the code

**Handlers.** `LeadService` and `TokenService` model a request as a handler: a record of
what the code has in local variables, with a program counter. The code between two awaits is
one action. A handler keeps what it has read (the lead's status, the token's expiry) until
it uses it. `Handlers` is the number of requests in flight at once, over all replicas; a
replica adds nothing of its own. `Fail` ends a request at any await: a lost connection, a
failing statement or a dead process. A Prisma `$transaction` is one action. A request that a
guard, pipe or assertion refuses changes nothing and is a stuttering step, so it has no
action.

**LeadService.** `CreateLead` and `CreateHistory` are the two inserts of `create()`, which
share no transaction. `StartUpload`, `SaveFile`, `InsertDoc` and `MarkKycUploaded` are the
steps of `upload()`. `StartUpdateStatus` is `updateStatus()` up to the transaction and
`Transition` the transaction itself; the latter checks nothing again. `Reject` is that
transaction when Postgres refuses it: `changed_by_user_id` is a UUID column, and the bank's
`sub` claim is no UUID (`Uuids`). The mock bureau's random score is any member of `Scores`.
`outbox` collects what was handed to the producer.

**LeadEvents.** The sends are independent of each other: nobody awaits them, and requests
run on several replicas. So any pending send may be next (`Publish`), may be repeated
(`PublishUnacked`) or lost (`PublishFails`). An event carries the number of its history row,
a history variable that the properties use and no action reads.

**Consumers.** A consumer's position runs ahead of its committed offset; a crash goes back
to the offset, or, if the group has never committed, to the end of the topic
(`fromBeginning: false`). `BuildContent` and `SendMail` are the two halves of `notify()`:
the lead is read again when the mail is written. `NotifyFails` sends the message to the
dead-letter topic, `NotifyRetried` is that send failing too. `DispatchHandoff` does not wait
for the handoff; `HandoffGetLead`, `ResolveHandoff`, `ResolveRefused` and `HandoffFails` are
what becomes of it. The outcome of the simulated bank is a choice between the outcomes
chance allows.

**TokenService.** Any token ever minted may be presented at any time. `PresentRevoked` is
the reuse branch up to the `updateMany` that revokes the family (`RevokeFamily`);
`PresentLive` the checks of a rotation and `Rotate` its transaction. `reused` is a history
variable: the families on which reuse was detected.

**AccessControl.** A login (`Login`), refresh (`Refresh`) or logout (`EndSession`) takes the
steps of `TokenService`; `mint` is what it has read of the account, and `SignAccessToken`
signs that once the refresh token is stored (`StoreToken`). `Authorize` is the guards and
the DTO of `PATCH /users/...`, decided on the account as it is then; `SetRole`,
`DeactivateUser` and `UpdateProfile` are the writes behind them. `validate` is the strategy
of `user-service`, which looks the account up; `FetchLeads` goes through that of
`lead-service`, which does not. The two calls of the dashboard come back in any order,
accepted or not. The API cannot make the first administrator: the e2e tests write one to the
database, and so does `Seed`. `seeded`, `held`, and the fields `off` and `entitled` are
history.

**DocumentStore, PolicyQa.** A text stands for its chunks, a chunk or a question for its
embedding: a short vector of integers, so that `cosineSimilarity` is really computed, as a
fraction with its sign and squared, which orders as the cosine does. `InsertChunk` is one
`INSERT`; there is no transaction around them. A question goes through `lookup()` with one
step per Redis command: `EmbedQuery` takes the cutoff, `Prune` uses it later, then `Scan`,
`Fetch` and `Heal`; on a miss `Retrieve`, `Invoke` and `Store`. `Live` is Redis' own expiry,
which starts when `SET` runs, while the score in the index is the time `store()` took before
it sent the transaction.

**Underwriting.** A run reads the lead (`RunUnderwriting`), perhaps the prior runs
(`DbAgent`), the policy (`Reranker`), and writes its decision (`Synthesis`). The model's
answers are every value its schema admits. `getLeadSnapshot` asks `lead-service`, whose
`findAccessibleOrThrow` decides with the caller's token. Which chunks rank first is
`DocumentStore`'s business; here any may.

**RateLimiter.** `Consume` takes the stamp from the replica's clock (`Skews`: how far the
clocks are apart) and the script runs at any time up to `MaxDelay` later, in any order, also
after the caller has given up (`TimeOut`) or the command was rejected (`RedisFails`). `Log`
is the key as Redis sees it: gone once it has expired. In the code every accepted request
renews the expiry.

**Gateway.** `Pass` is `use()` for a request that is not limited; `Limit` runs up to the
await of `consume()`, `Respond` from its return to the proxy. A path stands for all paths
that are routed and counted like it. An address that Express could not determine
(`'unknown'`) is one more address.

## 3. What the runs check

Passing runs:

| Run | Bounds | Checks |
|---|---|---|
| `LeadService` | 1 lead, 2 handlers, 3 tokens, 2 paths, history 6 | the safety invariants under overlap and failure, and the refinements of `LeadLedger` and `LeadWorkflow` |
| `Underwriting` | 1 lead, history 4, 2 runs at once and 3 on record, 2 chunks, limits 1 and 2 | what a run sees while lead-service, ingestion and another run go on |
| `TokenService` | 2 users, 2 families, 4 tokens, 2 handlers | what holds of families, rotations and sessions under overlap, and the refinement of `Sessions` |
| `AccessControl` | 2 users, 2 families, 2 tokens, 1 handler beside 1 call | roles, claims and deactivation |
| `UserProjection` | 1 lead, 3 tokens, 1 handler, history 5, 2 pending sends, 1 fault | the topic and the projection; what they reach without faults |
| `BankingAdapter` | as above, 2 tokens, history 6, 1 handoff at a time | mails, dead letters, handoffs; what the applicant is told in the end |
| `Gateway` | 1 address, 2 users, 2 requests, limits 1, window 4, delay 1, clocks 1 apart | the sliding window, the quotas, and that every request is answered |
| `PolicyQa` | 3 questions, 3 entries, 2 handlers, ttl 2, 2 candidates; 1 document of 2 chunks | the cache, retrieval and ingestion |

The properties, in words:

- `AuditMatchesStatus`, `AuditRowsJustified`: the lead row and the last row of its
  trail agree, and each row is an edge of the table, by a role the table admits,
  out of a status the lead had before that row. Both hold although the status is
  written unconditionally: the stale status a handler carries was true once.
- `ApprovalOnRecord`, `SnapshotsKept`, `KycBacked`: what must be on record when a
  lead is at the bank, credit-checked, declined, or past `CREATED`.
- `ImplementsLedger`: whatever overlaps, a stage is entered only once the stage
  before it has been. `ImplementsWorkflow`: it is entered *from* the stage before it, so
  never backwards and never out of a terminal one, until the trail has two decisions that
  were taken in one status. Overlapping requests do take such decisions (finding 1); what
  the property excludes is that a lead leaves the life cycle in any other way, or without
  its trail telling, at the very step at which it happens.
- `OneUserPerFamily`, `Lineage`, `SessionsStayEnded`, `DisabledGetsNoToken`: see
  the table; the last two are action properties that exempt the rotation that was
  already in flight, which the findings are about.
- `LiveTokensTraced`: one live token per family would be the promise of rotation, and two
  rotations of one token that overlap break it: both read it unrevoked, both commit, and the
  second overwrites the link the first has left. So the property counts: a family has no
  more live tokens than rows that no row links to. Without an overlap that is the token of
  the login, hence one.
- `ImplementsSessions`: under any overlap a session is open from its login until it is
  ended, and comes back only by a rotation that was let through while it was open (finding
  2). `Sessions` keeps the rotations that are let through as state of its own, so after the
  last of them an ended session has ended for good.
- `EventsMatchHistory`, `ProjectionTrue`, `MailsTrue`: what is on the topic, on the
  profile and in the mails happened, however late or often it is told.
- `MailedOrDead`, `NoContradiction`, `HandoffsScored`: nothing read is dropped, no
  applicant hears both outcomes, no handoff decides without a score. Overlapping
  updates can record both outcomes (`LeadServiceTerminal`), and the mails then tell both;
  `NoContradiction` says that nothing else makes them do so, neither the topic nor a restart
  nor the bank: its exception is a trail with two decisions taken in one status.
- `NotifiedOrOnItsWay`, `ApplicantsTold`: from audit trail to applicant, unless something
  fails. The first one accounts for each notifiable row at every moment; the second is
  liveness: each status the applicant has to hear of is mailed in the end, however the sends
  are reordered and whatever the lead has moved on to.
- `WindowLimited`: for clocks `MaxSkew` apart and scripts up to `MaxDelay` late,
  the limit holds for every window shorter than `windowMs` by `MaxSkew + MaxDelay`.
  This bound is tight: one unit more and TLC finds a violation. With neither it is
  the promise of the class comment.
- `RetryExact`: a denied request that comes back after `retryAfterMs` finds one of
  the entries that denied it gone, and one that comes a millisecond earlier does not.
- `AuthQuota`, `OwnQuota`: a token does not help a client past the login quota of
  its address, and a user is turned away only for that user's own requests. The quota
  bounds what the limiter allows; the limiter fails open, and what goes through while
  Redis fails or is late is not counted.
- `ClaimsExpire`: no access token outlives, by more than its lifetime, the moment its user
  last had the role it claims or a login or refresh that had read that role was
  still under way. The second half is not pedantry: the role is read before an
  await and signed after it.
- `NoSelfServiceAdmin`, `DeactivationSticks`, `LockedOut`: no sequence of requests makes
  the first administrator or a `SYSTEM` account, no login, refresh or role change
  undoes a deactivation, and a dashboard asked for after it has no profile.
- `LiveEntriesIndexed`: neither a prune whose cutoff is old nor a self-heal whose fetch
  is old drops the id of an answer that is still valid. It needs the order in the code: the
  cutoff before the await, the ids from an earlier `MGET`.
- `HitIsBest`, `MissGenuine`: of the entries that were there when the lookup began,
  have not expired and are among the newest `maxCandidates`, the best is served, and the
  model is asked only if none is similar enough.
- `IngestedWhole`, `AnswersGrounded`: a document whose ids were returned is there whole,
  a broken one without gaps; what an answer cites, cached or not, is a policy chunk
  that is stored.
- `SnapshotTrue`, `HistorySeen`, `DecisionsGrounded`: the lead a run reasons about is one
  the lead has been, with the score recorded by then; no decision that was on record when
  the run began is missing from its history; it cites what policy there was, or
  warns that there was none.
- `RowsPublished`, `ProjectionSettles`, `Answered`: liveness, as is `ApplicantsTold`.

### Bounds, and why they are enough

`MaxHistory` bounds a lead's history: 6 rows hold the life cycle to the bank's decision
(`CREATED` to `FUNDED` is 6), and every stale write that overlapping requests add shows up
within them. No manual transition starts on a longer history, but those in flight finish, so
the bound cuts no handler in half. Leads do not interact, except through the projection of
one user's row, so one lead is enough for the invariants (the proofs cover any number of
leads). Two handlers make every race between a read and a write; a third adds no new kind of
pair, and the theorems cover any number. The tokens of `LeadService` are a loan officer's,
an admin's and the bank's, those of `UserProjection` an applicant's, an admin's and the
bank's: between them every edge, every refusal, and the identity Postgres rejects. The four
files post one of each case of `assertValidFile`, at the limit included. Two pending sends
are enough to reorder, one fault for each single failure at each point. The runs of the consumers
have one handler: the requests that overlap there are the callback's and the staff's, one
after the other, with the topic and the consumer in between, and a second one multiplies
the states beyond minutes. TLC has checked the invariants of `BankingAdapter` with two
handlers, one fault and one pending send (6.2 million states), or no fault and two (5.6
million), outside the listed runs; the theorems cover any number. The token run has
enough tokens for two logins and a rotation each, the run of `AccessControl` for one session
each or one rotated once. It has one handler and one call: a login or refresh overlaps with
a role change, a deactivation or a dashboard, but two of these do not overlap with each
other (two calls are past what TLC finishes in minutes). With a ttl of 1 and the clock at 0
or 1 a token is valid, or has just expired. The gateway has two requests on limits of one:
enough for one identity to be denied on account of another, and for the first entry to be
pruned too early. Two candidates and three entries put the cache at its limit; a ttl of 2
within a time of 3 lets an entry expire between any two calls. Questions are asked up to
`LastAsk` only, and with the cache full one at a time; those under way go on, so what a late
prune or a late fetch meets is all there. One prior run of at most three puts the
underwriting history at its limit, and one chunk of two the citations. `MaxTime` stops the
clocks.

Handlers, paths, tokens, entries, runs and the like are interchangeable where a run declares
a symmetry; no run with a liveness property does.

`CHECK_DEADLOCK FALSE` appears for `Gateway` and `PolicyQa` only: the clock stops, no more
requests come, and no more entries are stored. The other systems always have a step.

### Fairness

- A request in flight goes on (`ServiceStep`, weakly fair): Node runs its
  continuations.
- A pending send completes (`Publish`): kafkajs retries it.
- A consumer goes through its messages (`SkipEvent`, `BuildContent`, `SendMail`,
  `DispatchHandoff`, `RecordLeadStatus`): kafkajs runs `eachMessage` one after the other.
- A handoff goes on. Its call back needs a free handler, which is taken and given
  back by others, so `ResolveHandoff` is strongly fair: the service always accepts another
  connection, and `Handlers` is a bound of the model only.
- The gateway: the timer of `withTimeout` fires, and time passes. Redis owes
  nothing: `Answered` holds if no script ever runs and no command is ever rejected.

Nothing is assumed of people, of faults, of commits or of crashes.

## 4. Findings

Four runs show the code doing something else than what the repository says. They are checked
as violations of one property each.

1. `LeadServiceTerminal`: `transition()` updates the lead by id alone. Two
   decisions that overlap both pass their checks, and the later one takes the
   lead out of the terminal status the earlier one set. The unit test of the state
   machine says it "rejects moving out of a terminal state".
2. `TokenServiceReuse`: a rotation in flight when reuse is detected inserts its new
   token after `revokeFamily()` has run; the family is live again. The class comment
   says the entire family is revoked.
3. `UserProjectionFresh`: with no fault at all, two sends that overtake each other
   leave an old status on the profile for good. `recordLeadStatus` compares no
   timestamps; its comment says it keeps the projection fresh.
4. `BankingAdapterHandoff`: the bank's decision is never recorded, because the
   `sub` claim `system:banking-adapter-mock` goes into a UUID column. The e2e test that
   expects it runs on an in-memory substitute for Prisma.

Also met while modelling, and not kept as runs of their own:

- `ai-orchestrator`'s client says that lead-service admits "UNDERWRITER/ADMIN, or the
  lead's owner" (`tier2-underwriting/clients/lead-service.client.ts:23`); lead-service's
  `STAFF_ROLES` admits loan officers and `SYSTEM`, too (`leads.service.ts:22`).
- An upload that read `CREATED` and writes late sends a lead that has moved on
  back to `KYC_UPLOADED`, where the test of `markKycUploaded` says it is a no-op.
  The cause is that of finding 1 (`leads.service.ts:163`).
- `create()` can leave a lead without its first history row (`leads.service.ts:62`).
- An `ADMIN` may set `FUNDED` (`lead-status.state-machine.ts:31`), which the schema says no human
  does.
- Two overlapping rotations of one token leave two live tokens (`token.service.ts:133`);
  `LiveTokensTraced` is what remains true then.
- Events of one lead can be out of order on its partition
  (`kafka-producer.service.ts:33`); this is the cause of finding 3.
- A consumer that restarts before its first commit skips what it had not read
  (`lead-status.consumer.ts:36`); `MailedOrDead` exempts just these events.

## 5. What is proved

Each theorem holds for every value of the constants that satisfies the `ASSUME`s of its
module, which say little more than that `Null` is none of the other values, that limits and
times are numbers, and that tokens are tokens. `TLC` evaluates them in every run.

**LeadServiceProofs.** `AuditMatchesStatus` is not inductive alone: when `Transition`
writes, one must know that what the handler read before the await was right then. So the
inductive invariant `IInv` joins the types, `HandlersJustified` (a handler about to write
`to` carries a `seen` the lead has been in, an edge, a role and the extra fields it
requires), `RowsOwned`, the two audit invariants, `SnapshotsKept` and `KycBacked`. The proof
has one lemma per action; `RecordFacts` says once what a recorded transition changes
(`Recorded`), for `Transition` and `MarkKycUploaded` alike. From it: `TypeCorrect`,
`AuditMatches`, `AuditJustified`, `KycIsBacked`, `SnapshotsAreKept`. `BankedLeadsApproved` follows the justified rows back
from the lead's status: no induction is needed, as the stages are a tree of known depth.
`LedgerRefinement` maps `reached` to the statuses of the history rows. `WorkflowRefinement`
maps a lead to its status, or to `SPLIT` once its trail has two rows out of one status. It
needs `StaleTraced`: if the status a transaction carries is no longer the lead's, then
another row has left that status already, or the trail is split before. So the row of a
stale write is the second of its status and splits the trail (`MoveSplits`), and a write
that does not is decided on the status the lead still has (`DecidedNow`).

**TokenServiceProofs.** `IInv` joins types, `RowsWhole` (a row that is not inserted is
blank; no token outlives one minted now), the requests' justification, `OneUserPerFamily`
and `Lineage`. `RowsWhole` is what bounds the replacement's expiry from both sides. From it
come `TypeCorrect`, `FamilyHasOneUser`, `LineageIsRight`, and the action properties
`EndedStaysEnded` and `DisabledIsShutOut`. `NoUntracedToken` counts: in
every family as many tokens have no replacement as replace no other (`TipsCounted`), since no
two share a replacement (`LinksInjective`); a rotation adds one to each side when it
overwrites a link (`LinksRotate`); and a live token has no replacement (`LiveAreTips`). `SessionsRefinement` maps a family to open, ended or unused by its live
tokens, and a rotation in flight to one let through; no invariant beyond `IInv` is needed.

**RateLimiterProofs.** `IInv` is `TypeOK /\ LogBounded`: the reply's `remaining` is a
natural number only because the log is within its limit. `LogIsBounded` is then a fact about
cardinalities; `RetryIsExact` rests on `OldestEntry`, that a nonempty log has an entry of
least score, and on the log of a denied request having exactly `limit` entries.
`WindowIsLimited` has an invariant of its own, `WInv`: a stamp is at most `MaxSkew` ahead of
its call (`CallsTimely`), no key expires later than a window from now (`ExpiryBound`), an
accepted request is in the log, under a key that has not expired, until a request sent now
could no longer share a window with it (`EntriesKept`), and `WindowLimited` itself. The step
that matters is the script's: what it prunes is older than every window it could share with
a stamp to come (`PruneKeeps`), so the requests of any window that holds the new stamp are
entries of the log it has just counted (`ScriptWindow`).

**GatewayProofs.** `GatewayUsesLimiter`: a behaviour of the gateway is, of the limiter, one
of its own, so `LimiterBehindGateway` follows from the two theorems above. The quotas need to
know whose requests a log holds. `GwInv` adds to `WInv` that a call is made under the key of
its request (`CallsRouted`), that a log holds only calls under its key (`LogsOwn`), and that
who was let through was let through by the script (`DecisionsBacked`): then
`AuthQuotaHolds` counts a subset of what `WindowLimited` bounds, and `OwnQuotaHolds` is that
no two users share a key.

**ConsumersProofs.** The invariants of lead-service survive composition, because every step
of the compositions is one of its own or none (`EventsProject`, `UserProjects`,
`BankProjects`): `ProjectionOverLeadService` and `BankOverLeadService` state that as
implementations, and `WorkflowBehindTopic` carries the refinement of `LeadWorkflow` over. Two facts
do the rest: a lead's history is never taken back (`LeadsKept`), and neither is the topic
(`TopicGrows`). So what an event said when it was queued (`EventsTrue`) goes on being true,
and with it what a projection shows (`PrInv`) and what a mail tells (`BkInv`).
`MailedOrDeadLetter` needs that the mail in the making is that of the next event
(`NoteIsNext`) and that a restart goes back behind the position (`Behind`). A handoff has a
score because `BANK_HANDOFF` has only one way to it (`BankedScored`).
`NoContradictionUnlessSplit` rests on `OnePath`: a lead whose trail is not split and that
has an outcome stays there, by `DecidedNow`.

Three more theorems of this module follow an event while nothing fails. `RowsAreAccounted`:
each row of the audit trail has exactly one event, pending or on the topic, although nobody
awaits the send. Its invariant says that an event has been handed out for each row
(`HandedOut`) and that a pending send is not on the topic (`SentOnce`).
`ProjectionIsAsLateAsItsConsumer`: the profile shows the last event read of one of the
user's leads, which is the safety half of `ProjectionSettles`.
`NotificationsAreOnTheirWay` goes from end to end, over two services and the topic: each
status the applicant has to hear of is mailed, its event is pending, or it is ahead of the
bank's consumer. It joins the accounts to the invariant of `MailedOrDeadLetter` by the fact
that nothing is passed over or dead-lettered without a fault (`NoneLost`). The run of
`BankingAdapter` checks it. TLC has checked the other two (`RowsAccounted`,
`ProjectionIsLastRead`) on instances of the size of the runs, the second with two leads;
they are not listed with the runs.

**AccessControlProofs.** `AcInv` holds `IInv` of `TokenService`, that tokens and logins name
accounts that exist, and for each property what is in flight: `NoAdminYet` (before the first
promotion no account, login, token or role change says `ADMIN`), `OffIsDisabled`,
`HeldIsLast`. The lemmas go by what a step does to each variable (`MintMoves`,
`AccessMoves`, `RolesMove`, `CallsMove`) rather than by the action, as there are many actions
and few kinds of change. The theorems hold for any number of overlapping calls, which TLC
cannot reach; `AcSessions` says that what holds of sessions and of live tokens holds whatever
administrators do meanwhile.

**UnderwritingProofs.** A run carries what it has read, so `UwInv` says of each run that it
was true when read and can be no longer taken back: the status it knows is in the lead's
history, with its score (`RunKnown`); the prior decisions it was told are the answer over a
prefix of the runs on record no shorter than at its start (`RunTold`); it cites no fewer
chunks than the limits or the corpus of then allow (`RunCites`). `RunStable` shows once that
a run keeps this while anything else moves. `AnswerLookedUp` is about `runTemplate`, for any
`LIMIT`.

**PolicyQaProofs.** `StoreInv` says that the rows before an ingestion's next one are stored
(`InFlight`), which is what makes the report after the last row true. `QaInv` adds, per
question in flight (`AskOK`), what each await must not invalidate: the cutoff is at least a
ttl old, the ids found stale are dead for good, every entry to be considered is among the
ids scanned, and the answer found is the best of all that have to be considered. These
survive because what has to be considered only gets less (`EligibleBefore`) and what is dead
stays dead (`DeadStays`). `ScanFinds` counts: an entry behind fewer than `maxCandidates` newer
ones is among the first `maxCandidates`. `FetchFinds` needs that the order of similarities is
transitive (`AtLeastTransitive`), hence that the denominators are positive, hence that a
vector's product with itself is not negative (`DotType`), for vectors of every dimension.
`LookupIsAtomic` states what all this is for: `PolicyQa` implements `AnswerCache`, where a
question is answered from the cache or missed in one step, from all it has to consider at
that moment. The step is that of the `MGET`, or of the scan if it finds no ids: what comes
before it is the question being looked up, the self-heal after it is stuttering, and the verdict on the entries fetched is one on the
entries there are (`VerdictMaps`, by `FetchFinds` and `AskOK`). TLC has checked it for two
questions in flight and two entries (1.8 million states); it is not listed with the runs.
That last fact is about a fold over a set. The induction theorems of the library take an
operator and cannot be used; the section "Sums over finite sets" proves the induction it
needs on sets instead, from the well-foundedness of the naturals, and ties the fold of the
community modules to a function that satisfies its equation.

What the proofs assume beyond the ranges of the constants, each an `ASSUME` of its module:
the similarity threshold is a fraction with a positive denominator, `Null` is no cache entry
and no document, no question has an empty embedding, users and addresses differ, and the
top-K and top-N of the underwriting graph are at least one. No theorem assumes anything about how many requests are in flight: where
overlapping ones break what the code means to do (section 4), the theorem says what is still
true. Some state
constructors (`Started`, `LookingUp`, `Ingesting` and the like) exist for the provers' sake as well as the reader's: a step sets
the whole record of a request, in one place, and the proofs need no record updates.

**Only model-checked.** Every safety invariant and action property of the passing runs is
stated by a theorem, and every leaf is proved in a fraction of the prover's time limits.
What only TLC checks is liveness (`RowsPublished`, `ProjectionSettles`,
`ApplicantsTold`, `Answered`), which is beyond the prover with its fairness, and the four
violations of section 4, which are counterexamples. The tightness of `WindowLimited` is a
TLC result as well.

## 6. Not modelled

- The `user-events` topic: `user-service` publishes on it, and nothing in the repository
  reads it.
- `similaritySearch` without a prefix and `deleteByDocumentId`: no caller.
- The token `banking-adapter-mock` signs for itself is in `LeadEvents` and
  `BankingAdapter`, and not in `AccessControl`, where it would be an account of no user: the
  branch of `user-service`'s strategy for `SYSTEM` tokens (`jwt.strategy.ts:33`) is left out
  there, and `validate` stands for the lookup of an account only.
- What language models answer, how texts are split and embedded, password hashes and
  signatures: data the control does not depend on beyond their outcome.
- Cookies, headers, error bodies, wording of mails, logging, telemetry,
  configuration, health checks, Docker and nginx.
- The list and read endpoints change nothing; `GetById` stands for the ones whose
  access check matters to the bank's client.

## 7. Plan

All that the runs check of safety is proved, and the two larger abstractions the code has,
the lead workflow and the answer cache, are implemented. What is left is small:

1. For `AccessControl`, that it implements `TokenService` extended by an account that is
   closed administratively: `StepProjects` is the step, the abstract module is missing.
2. For the consumers, one abstract "at least once, or dead letter" module for
   `UserProjection` and `BankingAdapter` both; `MailedOrDead` and the theorems about
   accounts state what it would promise of each.
3. A document store whose documents are whole or in progress: `IngestedWhole` is its
   invariant.
