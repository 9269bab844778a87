# EnergyIQ backend: TLA+ models, checks and proofs

TLA+ modules of the NestJS backend in this repository, the TLC runs that check
them on small instances, and theorems about them that TLAPS proves for every
instance. Paths below are relative to `src/src/modules/` unless they say more.

## 1. The system

| Component | State it keeps | Operations | Where |
|---|---|---|---|
| User accounts | table `users`: address (unique), password hash, verified flag, onboarding step, refresh-token hash, `deleted_at` | create, Google upsert, find, update, remove | `users/` |
| E-mail verification | Redis `otp:<e>`, `otp_attempts:<e>`, `otp_resend_attempts:<e>`, each with a TTL of 900 s | register, login of an unverified account, verifyEmail, resendVerificationEmail | `auth/auth.service.ts` |
| Sessions | column `users.refresh_token_hash` | issueTokens (end of login, verifyEmail, Google), refresh, logout | `auth/auth.service.ts` |
| Password reset | Redis `password_reset_token:<e>`, TTL 300 s | forgotPassword, resetPassword | `auth/auth.service.ts` |
| Onboarding | columns `onboarding_step`, `onboarding_complete` | connectUserInverter, getOnboardingStatus | `users/users.service.ts` |
| Inverters | table `inverters` (serial number unique, owner by foreign key, active flag) | connectInverter, deactivateInverter, finders | `inverters/` |
| Vendor adapters | none (Growatt, Sunsynk/Solarman and Victron APIs) | verify an account and name its installation, fetch metrics | `inverters/adapters/` |
| E-mail queue | BullMQ queue in Redis | five `send*` producers; a worker that renders and sends, three attempts with a backoff | `email/` |
| Chatbot | tables `chats`, `messages`; socket rooms | start a chat, join rooms, send a message, read history; a language model answers | `chatbot/` |
| Request pipeline | throttler counters | JWT guard, throttler, validation, exception filter, response envelope | `src/src/app.module.ts`, `src/src/common/` |
| Redis access | clients per database | get, set with TTL, delete of one key | `src/src/common/redis/` |
| Configuration, health, well-known, migrations, seeds | none at run time | | `src/src/config/`, `src/src/database/` |

**How they interact.** A controller calls a service; a service awaits PostgreSQL
(through the ORM), Redis and the queue one call at a time. There are no
transactions: every write uses `noTransaction()`. Rows and keys are shared by all
requests. E-mail verification, sessions, password reset and onboarding meet in
one row of `users`; the first and the third also in the mail queue. The request
pipeline is around every HTTP call; gateways of the chat are outside its guards and pipes,
which Nest applies to HTTP only unless a gateway names them.

**What is hard.** Node runs one handler at a time between two awaits, so the
interesting interleavings are exactly those at awaits: a value read before an await
is used after it (`attempts`, `user.id`, a hash), and every "check, then write" is
two steps. Any await can reject, and `pm2 reload` or a crash can end a request
between any two of its steps. Redis keys expire by themselves. Addresses outlive
accounts: keys are named by address, rows by id. The queue delivers at least once: its
workers may die between sending a mail and saying so, or lose the lock on their job
and go on.

**What makes each part correct.**

* Verification: only a request that found this account, with a code stored for its address,
  verifies it; a verified account stays verified; tokens go to verified accounts; guessing
  is limited, and nobody is locked out by anything but wrong codes.
* Sessions: after a logout nothing opens the session but a sign-in or a request that was
  already past the comparison of its token.
* Reset: only a link mailed to the address changes the password; a failed reset
  can be retried; a link works once.
* Onboarding: completed means an inverter is there; completed is final; an
  installation belongs to one account, until that account is deleted.
* Accounts: tokens for a Google id go to a row that id was linked to; a link is
  replaced, and an id gets a second account, by nothing but a race.
* E-mail queue: a mail that was posted is sent or given up for good, after finitely many
  steps, and is never left where nothing picks it up; it counts as sent
  only when the provider took it; it is sent twice only when something was lost.
* Chatbot: the model sees the message it answers; a socket that is gone is in no room; a
  call ends whatever the model does.
* Adapters and pipeline: the answer of a request tells what was stored, but for a 500 after
  the insert was sent; log and answer tell the same where a client sent the id the log
  looks for; a vendor's refusal never looks like a refused token, and no reading is made up
  or dropped.

The hazards behind these, each at its line, are listed in `PROJECT.json`.

## 2. The modules

| Module | Models | Used by |
|---|---|---|
| `EmailVerification` | registration and verification of addresses | `MCEmailVerification`, `EmailVerificationProofs` |
| `SessionGate` | abstract: a session that is open or closed | instanced by `Sessions` |
| `Sessions` | refresh-token hashes; implements `SessionGate` | `MCSessions`, `SessionsProofs` |
| `PasswordReset` | reset links | `MCPasswordReset`, `PasswordResetProofs` |
| `Registry` | abstract: who holds an installation, and until when | instanced by `Onboarding` |
| `Onboarding` | onboarding record and inverters table; implements `Registry` | `MCOnboarding`, `OnboardingProofs` |
| `Accounts` | rows of `users`, Google ids and their links | `MCAccounts`, `AccountsProofs` |
| `Outbox` | abstract: mails asked for, confirmed or given up | instanced by `EmailQueue` |
| `EmailQueue` | producers, queue, workers; implements `Outbox` | `MCEmailQueue`, `EmailQueueProofs` |
| `Chat` | chats, messages, sockets and rooms | `MCChat`, `ChatProofs` |
| `Adapters` | the three vendors' adapters, as operators | extended by `Requests` |
| `Pipeline` | filter, interceptors and envelope, as operators | extended by `Requests` |
| `Requests` | `POST /inverters/connect` from guard to answer, composing the two | `MCRequests`, `RequestsProofs` |

The `MC` modules add at most symmetry sets, and in `MCRequests` the headers and readings
to choose from; the `Proofs` modules only theorems.

### Conventions common to all

* **Requests.** `Requests` (in module `Requests` itself, `Slots`) is a set of slots for requests in flight; `call[r]` holds
  the program counter of slot `r` and the locals the handler keeps over awaits.
  `Begin...` actions start a handler, one action per following await carries it
  on, `Finish` frees the slot. Pure work between two awaits (bcrypt, JWT signing)
  belongs to one of the neighbouring steps. A request refused at its first read
  changes nothing and is no action.
* **Failure.** `Fail(r)` ends a request between any two steps and keeps every effect
  it has had: a rejected await and a killed process alike. An answer travels with
  the last write of its handler; an answer that is lost is, for the server, one
  whose tokens the client never uses (in `Sessions`, expiry of a token the moment it
  was handed out).
* **Time.** A Redis key or a token may expire at any moment. This covers every TTL,
  and says nothing about their lengths.
* **Hashes.** The hash of a secret is represented by the secret. The one place
  where that is not what bcrypt does, its 72-byte limit on refresh tokens, is
  modelled by `BcryptInput`.
* **Accounts.** A row is identified by its id; `users[e]` is the newest row of an
  address. An update by id touches nothing when that row is gone.
* **Deletion.** `UsersService.remove` calls the ORM package's `delete`, which is not
  part of the repository; the entities have a `DeleteDateColumn`. The constant
  `SoftDelete` covers both readings where they differ; the theorems hold for both.
* **Seeded faults.** Each module has a section of operators that no behaviour uses: a
  definition as a plausible slip would have it. Substituting one for the
  definition it imitates must break the property listed for it under `mutants` in
  `PROJECT.json`; that is how each property is known to depend on the code.

### EmailVerification

`otp`, `attempts`, `resends` are the three key families (absent is `NoCode` or 0),
`outbox` the verification mails queued. `InsertUser` is the `INSERT` of
`UsersService.create`, after the `findByEmail` of `BeginRegister`; it fails on the
unique index (`EmailTaken`). `StoreOtp`/`MailOtp` are `sendVerificationEmail`, shared
by register, the login of an unverified account and resend. `BeginVerify` to
`IssueTokens` are the eight awaits of `verifyEmail` in their order; `CountWrong`
writes back the count `ReadAttempts` read. `GoogleSignIn` is the upsert. Four history
variables: `issued`, the codes Redis ever held for an address; `refused`, the wrong codes
counted since the counter was last absent, saturating above the limit; `overtaken`, the
requests that hold a count whose key has lapsed or been deleted since they read it; and
`stale`, the addresses whose counter such a request has written back. `stale` is the one
exception of `LockoutNeedsWrongCodes`: there the code does bring an old count back.

### SessionGate and Sessions

`hash[u]` is the column. `BeginSignIn` stands for the end of every flow that calls
`issueTokens`; `BeginRefresh` for `refresh` up to the signing; the hash is written by
`PersistRefreshToken`, a step of its own, and between them anything may run. `SessionGate`
says the same without tokens: requests enter a user's gate with credentials, or with
a token while it is open, and may open it when they leave. `ImplementsGate` is the
refinement, `open` being the users whose hash is not NULL. Two history variables carry
`LogoutIsFinal`: `closed`, the users who have logged out and not begun to sign in since,
and `overtaken`, the requests that were past the comparison when their user logged out.
`PersistRefreshToken` of such a request takes the user out of `closed`: it opens the session
again, which is what the code does; the property says that nothing else does.

Two tokens signed for one user within one second are the same string. The model
draws distinct ones; since `Matches` cannot tell tokens of one user apart, nothing
checked depends on it.

### PasswordReset

`token[e]` is the key, `outbox` the links mailed. `forgotPassword` is `BeginForgot`,
`MailLink`, `StoreLink`, in the code's order: mail first. `resetPassword` is
`BeginReset` to `DropLink`; `CheckUser` and `WritePassword` are the two calls of
`updatePasswordHash`. The flows that create, verify and remove accounts are reduced to
what they do to the row. Clients present links out of mails: a 256-bit token is not
guessed.

### Registry and Onboarding

`users[u]` has the onboarding columns of a row; `inverters` is the table. Both routes,
`POST /users/onboard` and `POST /inverters/connect`, are `BeginConnect`, `FindSerial` and
`InsertInverter`; the first goes on to `CompleteOnboarding`. `via` is a request's
route. The vendor's answer is any serial number. Every writer of the
onboarding columns is here: `Register`, `MarkVerified`, `GoogleSignIn`,
`CompleteOnboarding`. The guard checks the access token, not the row, so a removed
user's request may still insert (and meets the foreign key if the row is really gone).

`Registry` is what the owner of a connected installation may rely on: it is held until the
account leaves for good, claimed by nobody else meanwhile, suspended or not, and an account
that has left claims nothing. `ImplementsRegistry` is the refinement. `HoldersOf` reads the
holders of an installation off the table; an installation works when its row is active; an
account has left when its row is deleted in a way the foreign key notices, so that under
`SoftDelete` nobody ever leaves. The duplicate check, the unique index, the foreign key and the
cascade of the deletion each carry a part of it, in four different places of the code.

### Accounts

`rows[e]` is the row with address `e`: its id, whether it is live, its `google_id`.
`BeginGoogle` is the first lookup of `findOrCreateByGoogle`, by Google id; the two
sign-ins, by redirect and by mobile ID token, share it. `FindByEmail` is the lookup by address with
the `CONFLICTING_GOOGLE_ACCOUNT` refusal, `Upsert` the `INSERT ... ON CONFLICT (email)`,
`Load` the read back, `IssueTokens` the end. `BeginRegister`/`Insert` are `create`,
`Remove` is `DELETE /users/:id`. `links` and `sessions` are history: which Google ids were
ever written to a row, and for which row an id was given tokens. The mark `overtaken` of
a request says that since it began another one has linked the same id or the same address; both
race properties say that nothing else than such a request breaks the rule. `PATCH /users/:id`
writes two names that nothing reads and is left out.

### Outbox and EmailQueue

`Outbox` is what `AuthService` may rely on when a method of `EmailService` has returned:
a mail asked for is confirmed or given up, finally, and a confirmed one was accepted by the
provider. `EmailQueue` is the way there. `Add` is `queue.add` of the five `send*` methods;
`Take` a worker's fetch, `Process` the handler of `EmailProcessor` with the three things
the provider can do (accept, refuse, accept without the answer arriving), `Complete` and
`Retry` the worker's report. `job[j]` is what BullMQ keeps: name, state, attempts made,
stalls, and whose lock it is. BullMQ is not part of the repository and is modelled from
the options `queue.config.ts` gives it: attempts and exponential backoff (`Attempted`,
`Promote`), `removeOnComplete` (`Complete`), and its own lock and check for stalled jobs
(`LoseLock`, `Crash`, `Recover`). A worker that lost its lock runs on and
reports in vain. The job name `unknown` is one that only another release of the server
posts; the processor's default branch throws.

`NoJobIsForgotten` says where an unsettled job is: on the wait list, with the
worker whose lock it has, or without a lock, where the check for stalled jobs finds it.
`StepsLeft` counts the changes a job still has before it: a job that fails loses an attempt,
one that stalls a stall, and either counts for more than the steps it goes back.

`JobData`, `Context` and `Placeholders` are the data of each mail as the producer, the
handler and the `.hbs` file know it, three files that no type ties together. They are
constants, so no run checks them: the lemma `FilledTemplates` compares them for every mail.

### Chat

`BeginStart`, `CreateChat`, `SaveStartingMessage` are `startChat`; `BeginSend` to
`Reply` are the awaits of `sendMessage`; `BeginJoin`/`JoinRooms` are `handleConnection` and
`join_active_chats`, which do the same; `Disconnect` is `handleDisconnect`. `Crash` ends
every call and socket and keeps the tables. The gateway has no guard, so the user of a call
is whoever the message names: `BeginSend` compares the owner of the chat with the
`senderId` of the message, and `BeginJoin` takes the `user_id` of the socket's handshake. When
there is no such user, `handleConnection` rejects and nobody disconnects the socket; should
the unhandled rejection end the process, that is `Crash`. `messages[c]` lists the senders of the chat's
messages, and a message is named by its place. `NewestFirst` is the page
`getMessagesWithCount` returns. `SocketServerSet` is FALSE: Nest fills
`@WebSocketServer()` properties in gateways, and `ChatService` is none.

The calls that read (`getChats`, `getChatMessages`, `getSingleChat`) and the two stubs
(`getSuggestedChatQuestions`, `modifyChatSettings`) change no state and are no actions.
What the model answers, the prompts and the agent's tools are outside: `Invoke` ends with
an answer or an exception.

### Adapters, Pipeline and Requests

`Adapters` has one operator per decision: the calls of a brand in their order
(`VendorCalls`), what becomes of each kind of answer to each call (`CallOutcome`: fetch
rejects, status not 2xx, no JSON, an error in the body), which device is taken
(`Chosen`, `DevicesOutcome`), and how a reading is normalised (`Metric`). Three readings
stand for all: a state, a power and a charge, the last with the two ways a charge is found
(two Growatt sensors joined by `??`, a Sunsynk list of key-value points where the last of a
key wins). Watts come in tenths so that rounding to a thousandth of a kilowatt is integer
arithmetic.

`Pipeline` is the filter, the request id in answer and log, and the envelope. The random id
that the interceptor draws for a request without an `x-request-id` is `Fresh`, which no
client sends; `Blank` is the empty header, since Node strips the white space around a
header's value.

`Requests` runs a request through both: `Arrive`, the guards in the order of
`app.module.ts` (`RefuseToken`, `RefuseRate`, `Admit`), the validation pipe
(`RefuseBody`), the switch on the brand (`Dispatch`), a step per vendor call
(`VendorAnswers`, `VendorLists`), and `persistInverter`: `FindSerial`, then `Insert` with
the answer. Either query may be rejected without effect (`DatabaseFails`), and the insert
also after it took effect, when its acknowledgement is lost (`InsertUnacknowledged`): then the
client has a 500 and the table the row. `tried` remembers in the answer that the insert had
been sent. The vendor's account may change between two calls, so each answer
is chosen anew. The throttler's count is kept by a third-party package: here it
may refuse any request it is asked of, and it is asked of no request without a token.
`FetchMetrics` reads a device; it has no caller in the code yet.

## 3. The runs

Passing runs:

| Run | Instance | Distinct states | Shows |
|---|---|---|---|
| `EmailVerification` | 1 address, 2 codes, 2 requests, limit 2, 2 accounts | 1,776,880 | verification under interleaving, failure, expiry and re-registration; what the counter counts |
| `Sessions` | 2 users, 2 requests, 2 serials each | 12,824 | refinement of the gate; what can open a session after a logout |
| `PasswordReset` | 2 addresses, 2 links, 2 requests, 2 accounts | 54,883 | links, passwords and retries |
| `Onboarding` | 2 users, 2 serial numbers, 2 requests | 331,053 | onboarding record against inverters table; refinement of `Registry` |
| `Accounts` | 2 addresses, 2 Google ids, 2 requests, 2 rows | 214,298 | Google links, tokens and the races between sign-ins |
| `EmailQueue` | 2 mails, 2 names, 2 workers, 2 attempts, 1 stall, 1 kept | 163,447 | retries, stalls, lost answers and crashes; where jobs are and that they come to an end; liveness; refinement of `Outbox` |
| `Chat` | 2 users, 2 sockets, 2 requests, 1 chat of 3 messages, context of 2 | 158,708 | contexts, rooms; that every send ends |
| `Requests` | 2 slots, 2 serial numbers, up to 2 devices, 4 header pairs | 88,053 | what the answer tells of the table, the token and the log, for every vendor answer and lost acknowledgement |

Violation runs: each checks one statement of a document, comment or message of the
repository and finds a behaviour of the code that contradicts it.

| Run | Statement | What happens |
|---|---|---|
| `AttemptLimitRace` | "Too many verification attempts" after 5 | overlapping wrong codes are counted once |
| `RevokedToken` | "Revoke the current refresh token" | after a new sign-in the old token is accepted: bcrypt compares 72 bytes |
| `ResetLinkUsedTwice` | "can only be used once" | two overlapping resets both succeed |
| `ChatReply` | "return message to the sender" | the answer is emitted on a server that is never set, so it reaches nobody |

**Bounds, and why they are enough.** The races in this code are between two requests,
one that has read and one that writes: two slots show them, and the theorems hold for any
number. Two codes tell an old from a new one, two links likewise; limits of 1 and 2
replace 5, since the code only compares with the limit. One address is enough for
`EmailVerification`: its keys and rows are per address, and that nothing passes between
addresses is part of its theorems, which hold for any set of addresses. `MaxAccounts = 2`
lets an address be registered again under a request of its first owner.

* `EmailQueue`: two attempts replace three, since the code only asks whether there is another
  one; one of the names has a handler and one has none; `KeepCompleted` is 1 instead of
  100, so that two completions already push a job out. Two workers are a worker and the
  one that has lost its job to it.
* `Chat`: three messages in a context of two push the first one out; two requests of two
  users over two sockets, one of which may be gone; `ChatReply` needs one socket and a
  context of one.
* `Requests`: two devices are an inverter and another in either order; of the
  headers, each way to choose between the two, with the correlation id alone among them; of
  readings, missing, zero and given.
* `Accounts`: two ids meeting at one address, one id at two addresses.

`Serials` (in `Sessions`), `Links`, `MaxAccounts`, `MaxRows`, `MaxJobs`, `MaxChats` and
`MaxMessages` bound what the code does not: tokens alive at once, links ever drawn,
registrations, mails, chats. A state that has used them up stops that operation only. Where
this can stop the whole model, or where everything is done (all mails settled, everybody
removed, every socket used up and gone), the configuration says `CHECK_DEADLOCK FALSE`.
Symmetry is declared for sets whose members are interchangeable, never for
addresses or users an `Idle` record names, and in no run that checks liveness.

**Fairness.** Two runs assume it; the others check safety only, where a request that is
under way may stop at any await for good.

* `EmailQueue`: weak fairness of `Take`, `Process` and the report, per worker: a BullMQ
  worker is a loop that is started with the module and starts again with the process. That
  `Process` ends rests on the HTTP client under the Resend SDK: `email.processor.ts` gives
  `resend.send` no timeout, and Node's `fetch` (undici) gives up on a connection, headers or
  a body by its default timeouts, which reject the call. Weak fairness also of `Promote` and
  `Recover`, per job, which BullMQ's timers perform. `LoseLock` and `Crash` are not
  restrained, and need not be: each costs one of a job's stalls.
* `Chat`: weak fairness of the steps of a call, which a store call's answer or
  rejection (`Fail`) and the model's timeout (`llm.service.ts:30`) justify. Without that
  timeout `SendsEnd` is false; its mutant is exactly this.

## 4. The proofs

Eight `...Proofs` modules prove every invariant and every action property of the passing
runs, and the three refinements, for every value of the constants under the named assumptions of
the modules (non-empty sets, a null value outside its set, positive bounds), whatever
`SoftDelete` is. The shape is the same in each: an inductive invariant that holds
the type invariant, what a request *knows* at each step of its handler, and the
property; one lemma per variable or per part for how a step changes it; then the property.
The type invariants of all eight are theorems; a run checks one only where it bounds
counters or contexts that no other property of the run looks at.

* **EmailVerification.** A request that is past the comparison knows a code once issued
  for its address; one that is going to issue tokens knows that its account, as
  long as it is that row, is verified; the counter, and the count of a request that is not
  overtaken, stay below the wrong codes counted since the counter was last absent
  (`CountsInv`). The invariant is needed because each property speaks of a moment several
  awaits after the fact it rests on.
* **Sessions.** Every token inside a request, in a client's hand or in the column belongs
  to the user it is filed under, and a closed user has no hash and only overtaken requests:
  the type invariant and `LogoutIsFinal` together are inductive. Under them each step maps to
  a step of `SessionGate` or a stutter.
* **PasswordReset.** From the queueing on, a request's link is in the outbox under its
  address; from the second lookup on, its account is verified as long as it is that
  row (`SeenVerified`); from the update on, its link is used.
  For `LinksUsedOnceAlone` see below.
* **Onboarding.** A request about to complete an onboarding owns an inverter or its owner is
  gone; rows only evolve (`Evolves`), and inverters leave the table only with their
  owner. For `RegistryTheorem` three steps are not stutters: an insertion claims
  (`InsertClaims`: the unique index gives the empty holder, the foreign key an owner that has not
  left), a deactivation suspends one installation at most, since serial numbers are
  unique (`DeactivationSuspends`), and a deletion leaves (`RemovalLeaves`).
  `OnlyRemovalLeaves` says that no other writer of the row makes an account leave or
  return.
* **Accounts.** Every id a request holds from the upsert on is linked to its row; a request
  at the upsert that was not overtaken still sees an address without another id, and a
  Google id without another row (`AllFresh`), since whatever could change that marks it.
* **EmailQueue.** `QInv` ties the counters of a job to its state, a lock to the worker that
  holds it and the job to at most one place. `LineInv` adds that every job never
  tried is on the wait list, these in the order they were posted, from which
  `FirstTriesInOrder` follows for any number of workers. `NoForgottenJob` needs in addition
  that a waiting job is on the list and a locked one with the worker of its lock.
  `MovingOn` is what can be proved of the liveness property: `StepsLeft` is a natural
  number (each job's `made` and `stalls` within their bounds) and every action that changes a posted job
  makes it smaller, so that a job changes `4 * (Attempts + MaxStalls + 1) + 3` times at most,
  whatever fails, in any number of workers; what remains to TLC is that the steps are taken.
  `AllPaid` counts for each job the
  mails accepted and the workers that may still send it, against the faults; that count
  is a cardinality, and the lemmas on how a set of workers grows and shrinks use the
  library's facts on finite sets. `Refinement` maps each step to a step of `Outbox` or to a
  stutter.
* **Chat.** Each request knows that its chat was started and is its user's, and where its
  message stands in it (`AllCalls`), from which it follows that the page it reads holds
  the message or a full page of later ones.
* **Requests.** A slot holds what the code keeps at that await (`Fits`), and an inverter bears
  a slot's mark if that slot's answer is 201, and otherwise only if it is a 500 given after the
  insert was sent (`RowFits`). Facts on the operators of `Adapters`
  and `Pipeline` (which exceptions they make, that none is a 401, what each reading keeps)
  are lemmas of their own.

**What the violation runs need.** Two of them, and the races of `Accounts`, rest on requests that
overlap. For each, a theorem shows that the overlap is all it takes: without it the statement holds, for every
number of requests, addresses and failures.

* `LimitHoldsAlone` (`EmailVerificationProofs`): if at no time two verifications of one
  address are between the read of the counter and the write, `WithinAttemptLimit` holds. The
  invariant `RefusalsCounted` says that the refusals since the last lapse are
  no more than the stored counter says, nor than the count that the one request at work
  has read.
* `LinksUsedOnceAlone` (`PasswordResetProofs`): if the resets of one address do not overlap,
  and each that has changed a password gets to drop its link, `LinksUsedOnce` holds. Both
  are needed: a reset that fails after the update leaves its link in Redis. `LinkInv` says
  that a used link is in Redis only while the reset that used it goes on (`UsedIsGoing`), that a
  reset which has not changed the password yet holds an unused link (`Pending`), that a link
  just drawn is nobody else's (`Fresh`), and that a link goes to one address and is used only after
  it was mailed.
* `GoogleIdsAreUniqueAlone` (`AccountsProofs`), for the races the two `...InRacesOnly`
  properties allow: if sign-ins do not overlap between lookup and upsert, no Google id has two
  accounts and no link is replaced. `NoneOvertaken` says that then no request is ever marked
  `overtaken`.

The hypotheses are restrictions of the environment that behaviours of the models
satisfy (one request at a time does); they say what a lock per address, or a
conditional write, would have to provide.

Only model-checked: the two liveness properties (`EveryMailSettles`, `SendsEnd`), since
TLAPS has no proofs under fairness, and the violation runs, whose properties are false.

## 5. Disagreements without a run of their own

Met while modelling, against a document or a comment:

* A resend replaces an active code; `auth.controller.ts:137` and `src/docs/API.md:72` say one
  is sent only if none is active.
* The loser of two concurrent registrations, or of two connections of one installation, is
  answered 500; `API.md:425` says 409.
* A refresh that overlaps a logout reopens the session (`auth.controller.ts:120`, "revoke").
  `LogoutIsFinal` and its theorem show that nothing but such a request, or a sign-in, does.
* `inverterConnected` is not reported for an inverter made by `/inverters/connect`, or when the
  last update failed (`API.md:270-280` against `users.service.ts:174`).
* The error name of a 429 is `InternalServerError` (`API.md:426`); that of a 400 is
  "Bad Request", where the repository's `README.md:191` has "BadRequestException".
* `verify-email.hbs:78` says a code lives 5 minutes; its key lives 15.
* `growatt.types.ts:8` gives `peak_power` in kW, `growatt.adapter.ts:103-105` divides it by
  1000; `shared.types.ts:17` leaves out the status `offline` the adapters return.
* `API.md` lists the brand DEYE, which the connect route refuses.
* A request with an `x-correlation-id` and no `x-request-id` is answered under the former and
  logged under a random id: `standard-response.ts:179-197` takes either header,
  `logging.interceptor.ts:23` one. `WhereLogAndAnswerAgree` says exactly when the two agree.
* The log of a failed request carries status 201: `logging.interceptor.ts:53` reads it before
  the filter has set it.

Seen, with nothing promising the contrary: a failure between mail and store leaves
a mailed reset link that never works; a finishing reset deletes a newer link; a late
`verifyEmail` sets a completed onboarding back to step 2; a wrong-code count read before its
key lapsed, or was deleted by a verification, is written back after it; an insert whose
acknowledgement is lost is answered 500, and the client's retry then 409; the
sender of a chat message is whoever the message names; a Google sign-in verifies an
address and leaves its onboarding at step 1; a socket naming an unknown user stays
connected in no room; `startChat` may leave a chat without its first message; an account
made by Google that tries a password gets a 500, as its password hash is null.

## 6. Not modelled

* **Clocks.** Keys expire at any time, so lengths of TTLs and windows (the disagreements on
  minutes, and how many tries fit into a window) are not told apart.
* **Throttler counts.** A third-party store; see `RefuseRate`.
* **Redis clients.** One client per database, and the check of a TTL before a `SETEX`: what
  the flows see is get, set and delete of one key.
* **Sessions after a password change.** `updatePasswordHash` does not touch
  `refresh_token_hash`, so there is nothing that interacts; the hazard is
  listed with its line.
* **Redirect check.** A pure function whose content is Node's URL parser.
* **Credential encryption.** Calls into `node:crypto`; `decrypt` has no caller.
* **Configuration, health, well-known endpoints, migrations and seeds.** Read once, stateless,
  or run by hand; the constraints the migrations create are in the guards `EmailTaken`,
  `SerialTaken` and `OwnerGone`.
* **Rendering, logging, prompts, API documentation.** Wording only.

What could be added next: a clock for the lifetimes the mails state, and the composition of
the modules that share one row of `users`.
