------------------------- MODULE EmailVerification -------------------------
(***************************************************************************)
(* How an e-mail address becomes a verified account: register, the login   *)
(* of an unverified account, verifyEmail and resendVerificationEmail of    *)
(* AuthService, over the users table, three families of Redis keys         *)
(* ("otp", "otp_attempts", "otp_resend_attempts") and the e-mail queue.    *)
(*                                                                         *)
(* Every HTTP request is a slot r of Requests.  A handler runs up to its   *)
(* next await of a store in one step, so the code between two awaits (and  *)
(* the pure bcrypt work around it) belongs to the step before or after it. *)
(* A request refused at its first read changes nothing and is no step.     *)
(***************************************************************************)
EXTENDS Naturals, FiniteSets

CONSTANTS
    Emails,        \* addresses (citext column, lower-cased Redis keys)
    Codes,         \* one-time codes; two requests may draw the same one
    NoCode,        \* Redis answers null
    Requests,      \* requests in flight at the same time
    AttemptLimit,  \* 5 in the code, for verifications and for resends
    SoftDelete,    \* whether the ORM's delete keeps the row (deleted_at)
    MaxAccounts    \* bound: how often one address can be registered

ASSUME EmailsAssumption       == Emails # {}
ASSUME CodesAssumption        == NoCode \notin Codes
ASSUME AttemptLimitAssumption == AttemptLimit \in Nat \ {0}
ASSUME SoftDeleteAssumption   == SoftDelete \in BOOLEAN
ASSUME MaxAccountsAssumption  == MaxAccounts \in Nat \ {0}

VARIABLES
    users,     \* users[e]: the newest row with that address; id 0 = none yet
    otp,       \* Redis otp:<e>, the bcrypt hash standing for its code
    attempts,  \* Redis otp_attempts:<e>, 0 when the key is absent
    resends,   \* Redis otp_resend_attempts:<e>, 0 when the key is absent
    outbox,    \* verification mails handed to the queue
    call,      \* call[r]: where request r stands, and its locals
    issued,    \* history: the codes Redis ever held for e
    refused,   \* history: wrong codes counted since otp_attempts:<e> was
               \* last absent, saturating at AttemptLimit + 1
    overtaken, \* history: requests holding a count whose key has lapsed or
               \* been deleted since they read it
    stale      \* history: addresses whose counter such a request has written
               \* back since it was last absent

store   == <<users, otp, attempts, resends, outbox>>
history == <<issued, refused, overtaken, stale>>
vars    == <<store, call, history>>

-----------------------------------------------------------------------------
Account == [id : 0..MaxAccounts, live : BOOLEAN, verified : BOOLEAN]

Verified == {"dropOtp", "dropAttempts", "mailWelcome", "issueTokens"}
Steps == {"idle", "insert", "storeOtp", "mailOtp", "readAttempts", "compare",
          "countWrong", "markVerified", "readResends", "bumpResends"} \cup Verified

Call == [pc : Steps, email : Emails, id : 0..MaxAccounts,
         code : Codes \cup {NoCode}, count : 0..AttemptLimit]

Idle == [pc |-> "idle", email |-> CHOOSE e \in Emails : TRUE, id |-> 0,
         code |-> NoCode, count |-> 0]

AtMost(limit, n) == IF n > limit THEN limit ELSE n

Registered(e) == users[e].live

EmailTakenNever(e) == FALSE

\* The unique index on users.email; a soft-deleted row still occupies it.
EmailTaken(e) == users[e].live \/ (SoftDelete /\ users[e].id > 0)

NewAccount(e, verified) ==
    [id |-> users[e].id + 1, live |-> TRUE, verified |-> verified]

LimitReachedLate(n) == n > AttemptLimit

LimitReached(n) == n >= AttemptLimit

OtpMatchesOrAbsent(e, c) == otp[e] \in {c, NoCode}

\* bcrypt.compare of the code with the stored hash; no hash, no match.
OtpMatches(e, c) == otp[e] = c

\* The counter is written from the value read earlier, not incremented.
Counted(e, n) == [attempts EXCEPT ![e] = n + 1]

Counting(e) ==
    {r \in Requests : call[r].pc \in {"compare", "countWrong"} /\ call[r].email = e}

\* The key lapses or is deleted, under whoever has read it.
ClearAttempts(e) ==
    /\ attempts' = [attempts EXCEPT ![e] = 0]
    /\ refused' = [refused EXCEPT ![e] = 0]
    /\ overtaken' = overtaken \cup Counting(e)
    /\ stale' = stale \ {e}

\* The update by address touches whoever has it now.
VerifyByEmail(e, id) == [users EXCEPT ![e].verified = @ \/ users[e].live]

\* An update by primary key touches no row when the account is gone.
VerifyById(e, id) ==
    [users EXCEPT ![e].verified = @ \/ (users[e].live /\ users[e].id = id)]

Goto(r, pc) == call' = [call EXCEPT ![r].pc = pc]
Finish(r)   == call' = [call EXCEPT ![r] = Idle]

Begin(r, e, pc, code) ==
    /\ call[r] = Idle
    /\ call' = [call EXCEPT ![r] = [Idle EXCEPT !.pc = pc, !.email = e,
                                        !.id = users[e].id, !.code = code]]
    /\ UNCHANGED <<store, history>>

TypeOK ==
    /\ users \in [Emails -> Account]
    /\ otp \in [Emails -> Codes \cup {NoCode}]
    /\ attempts \in [Emails -> 0..AttemptLimit]
    /\ resends \in [Emails -> 0..AttemptLimit]
    /\ outbox \subseteq [to : Emails, code : Codes]
    /\ call \in [Requests -> Call]
    /\ issued \in [Emails -> SUBSET Codes]
    /\ refused \in [Emails -> 0..AttemptLimit + 1]
    /\ overtaken \subseteq Requests
    /\ stale \subseteq Emails

Init ==
    /\ users = [e \in Emails |-> [id |-> 0, live |-> FALSE, verified |-> FALSE]]
    /\ otp = [e \in Emails |-> NoCode]
    /\ attempts = [e \in Emails |-> 0]
    /\ resends = [e \in Emails |-> 0]
    /\ outbox = {}
    /\ call = [r \in Requests |-> Idle]
    /\ issued = [e \in Emails |-> {}]
    /\ refused = [e \in Emails |-> 0]
    /\ overtaken = {}
    /\ stale = {}

-----------------------------------------------------------------------------
(* Seeded faults: plausible slips in the handlers below, each of which one *)
(* of the properties must catch, as it must for EmailTakenNever,           *)
(* LimitReachedLate, OtpMatchesOrAbsent and VerifyByEmail above.  No       *)
(* behaviour of Spec uses them.                                            *)

\* Keeps an active code, as the resend route documents, but mails a new one.
StoreOtpUnlessActive(r) ==
    LET e == call[r].email IN
    /\ call[r].pc = "storeOtp"
    /\ \E c \in Codes :
         /\ otp' = [otp EXCEPT ![e] = IF @ = NoCode THEN c ELSE @]
         /\ issued' = [issued EXCEPT ![e] = @ \cup {otp'[e]}]
         /\ call' = [call EXCEPT ![r].pc = "mailOtp", ![r].code = c]
    /\ UNCHANGED <<users, attempts, resends, outbox, refused, overtaken, stale>>

LoginUnchecked(r, e) == Registered(e) /\ Begin(r, e, "issueTokens", NoCode)

\* The resend counter kept under the verification counter's key.
BumpAttempts(r) ==
    /\ call[r].pc = "bumpResends"
    /\ attempts' = [attempts EXCEPT ![call[r].email] = call[r].count + 1]
    /\ Goto(r, "storeOtp")
    /\ UNCHANGED <<users, otp, resends, outbox, history>>

-----------------------------------------------------------------------------
(* register: UsersService.create, then sendVerificationEmail               *)

BeginRegister(r, e) == ~Registered(e) /\ Begin(r, e, "insert", NoCode)

\* The insert finds the address taken when another registration, or a Google
\* sign-in, got there after findByEmail: a unique violation, answered 500.
InsertUser(r) ==
    LET e == call[r].email IN
    /\ call[r].pc = "insert"
    /\ IF EmailTaken(e)
       THEN Finish(r) /\ UNCHANGED users
       ELSE /\ users' = [users EXCEPT ![e] = NewAccount(e, FALSE)]
            /\ Goto(r, "storeOtp")
    /\ UNCHANGED <<otp, attempts, resends, outbox, history>>

\* sendVerificationEmail: draw a code, store its hash, then queue the mail.
StoreOtp(r) ==
    LET e == call[r].email IN
    /\ call[r].pc = "storeOtp"
    /\ \E c \in Codes :
         /\ otp' = [otp EXCEPT ![e] = c]
         /\ issued' = [issued EXCEPT ![e] = @ \cup {c}]
         /\ call' = [call EXCEPT ![r].pc = "mailOtp", ![r].code = c]
    /\ UNCHANGED <<users, attempts, resends, outbox, refused, overtaken, stale>>

MailOtp(r) ==
    /\ call[r].pc = "mailOtp"
    /\ outbox' = outbox \cup {[to |-> call[r].email, code |-> call[r].code]}
    /\ Finish(r)
    /\ UNCHANGED <<users, otp, attempts, resends, history>>

-----------------------------------------------------------------------------
(* login with the right password: an unverified account gets a new code    *)
(* and a 401, a verified one its tokens                                    *)

BeginLogin(r, e) ==
    /\ Registered(e)
    /\ Begin(r, e, IF users[e].verified THEN "issueTokens" ELSE "storeOtp", NoCode)

(* findOrCreateGoogleOAuthUser: the upsert creates the row verified, or    *)
(* marks the row it conflicts with as verified.  The reads before it can   *)
(* only refuse the request.  A soft-deleted row is not found again: 500.   *)
GoogleSignIn(r, e) ==
    /\ call[r] = Idle
    /\ EmailTaken(e) => Registered(e)
    /\ users' = [users EXCEPT ![e] = IF Registered(e)
                                     THEN [@ EXCEPT !.verified = TRUE]
                                     ELSE NewAccount(e, TRUE)]
    /\ call' = [call EXCEPT ![r] = [Idle EXCEPT !.pc = "issueTokens", !.email = e,
                                                !.id = users'[e].id]]
    /\ UNCHANGED <<otp, attempts, resends, outbox, history>>

-----------------------------------------------------------------------------
(* verifyEmail                                                             *)

BeginVerify(r, e, c) ==
    /\ Registered(e) /\ ~users[e].verified
    /\ Begin(r, e, "readAttempts", c)

ReadAttempts(r) ==
    LET e == call[r].email IN
    /\ call[r].pc = "readAttempts"
    /\ IF LimitReached(attempts[e])
       THEN Finish(r)
       ELSE call' = [call EXCEPT ![r].pc = "compare", ![r].count = attempts[e]]
    /\ overtaken' = overtaken \ {r}
    /\ UNCHANGED <<store, issued, refused, stale>>

CompareOtp(r) ==
    /\ call[r].pc = "compare"
    /\ IF OtpMatches(call[r].email, call[r].code)
       THEN Goto(r, "markVerified")
       ELSE Goto(r, "countWrong")
    /\ UNCHANGED <<store, history>>

\* Writes back the count read before the comparison, plus one.
CountWrong(r) ==
    LET e == call[r].email IN
    /\ call[r].pc = "countWrong"
    /\ attempts' = Counted(e, call[r].count)
    /\ refused' = [refused EXCEPT ![e] = AtMost(AttemptLimit + 1, @ + 1)]
    /\ stale' = IF r \in overtaken THEN stale \cup {e} ELSE stale
    /\ Finish(r)
    /\ UNCHANGED <<users, otp, resends, outbox, issued, overtaken>>

MarkVerified(r) ==
    /\ call[r].pc = "markVerified"
    /\ users' = VerifyById(call[r].email, call[r].id)
    /\ Goto(r, "dropOtp")
    /\ UNCHANGED <<otp, attempts, resends, outbox, history>>

DropOtp(r) ==
    /\ call[r].pc = "dropOtp"
    /\ otp' = [otp EXCEPT ![call[r].email] = NoCode]
    /\ Goto(r, "dropAttempts")
    /\ UNCHANGED <<users, attempts, resends, outbox, history>>

DropAttempts(r) ==
    /\ call[r].pc = "dropAttempts"
    /\ ClearAttempts(call[r].email)
    /\ Goto(r, "mailWelcome")
    /\ UNCHANGED <<users, otp, resends, outbox, issued>>

\* The welcome mail carries no code, so only its place in the order matters.
MailWelcome(r) ==
    /\ call[r].pc = "mailWelcome"
    /\ Goto(r, "issueTokens")
    /\ UNCHANGED <<store, history>>

\* What issuing does to the stored refresh token is module Sessions.
IssueTokens(r) ==
    /\ call[r].pc = "issueTokens"
    /\ Finish(r)
    /\ UNCHANGED <<store, history>>

-----------------------------------------------------------------------------
(* resendVerificationEmail: no check for an active code, nor for an        *)
(* account that is verified already                                        *)

BeginResend(r, e) == Registered(e) /\ Begin(r, e, "readResends", NoCode)

ReadResends(r) ==
    LET e == call[r].email IN
    /\ call[r].pc = "readResends"
    /\ IF LimitReached(resends[e])
       THEN Finish(r)
       ELSE call' = [call EXCEPT ![r].pc = "bumpResends", ![r].count = resends[e]]
    /\ UNCHANGED <<store, history>>

BumpResends(r) ==
    /\ call[r].pc = "bumpResends"
    /\ resends' = [resends EXCEPT ![call[r].email] = call[r].count + 1]
    /\ Goto(r, "storeOtp")
    /\ UNCHANGED <<users, otp, attempts, outbox, history>>

-----------------------------------------------------------------------------
(* The surroundings: a rejected await or a killed process ends a request   *)
(* between any two steps, every Redis key is written with a TTL, and       *)
(* DELETE /users/:id removes an account under the requests of its owner.   *)

Fail(r) == call[r] # Idle /\ Finish(r) /\ UNCHANGED <<store, history>>

ExpireOtp(e) ==
    /\ otp[e] # NoCode
    /\ otp' = [otp EXCEPT ![e] = NoCode]
    /\ UNCHANGED <<users, attempts, resends, outbox, call, history>>

ExpireAttempts(e) ==
    /\ attempts[e] > 0
    /\ ClearAttempts(e)
    /\ UNCHANGED <<users, otp, resends, outbox, call, issued>>

ExpireResends(e) ==
    /\ resends[e] > 0
    /\ resends' = [resends EXCEPT ![e] = 0]
    /\ UNCHANGED <<users, otp, attempts, outbox, call, history>>

RemoveUser(e) ==
    /\ Registered(e)
    /\ users[e].id < MaxAccounts
    /\ users' = [users EXCEPT ![e].live = FALSE]
    /\ UNCHANGED <<otp, attempts, resends, outbox, call, history>>

-----------------------------------------------------------------------------
Handle(r) ==
    \/ InsertUser(r) \/ StoreOtp(r) \/ MailOtp(r)
    \/ ReadAttempts(r) \/ CompareOtp(r) \/ CountWrong(r) \/ MarkVerified(r)
    \/ DropOtp(r) \/ DropAttempts(r) \/ MailWelcome(r) \/ IssueTokens(r)
    \/ ReadResends(r) \/ BumpResends(r)

Arrive(r, e) ==
    \/ BeginRegister(r, e) \/ BeginLogin(r, e) \/ GoogleSignIn(r, e)
    \/ BeginResend(r, e)
    \/ \E c \in Codes : BeginVerify(r, e, c)

Next ==
    \/ \E r \in Requests : Handle(r) \/ Fail(r)
    \/ \E r \in Requests, e \in Emails : Arrive(r, e)
    \/ \E e \in Emails :
         ExpireOtp(e) \/ ExpireAttempts(e) \/ ExpireResends(e) \/ RemoveUser(e)

Spec == Init /\ [][Next]_vars

-----------------------------------------------------------------------------
AccountVerifiedOrGone(e, id) ==
    users[e].live /\ users[e].id = id => users[e].verified

\* A code is in Redis before it is mailed: whatever fails in between, nobody
\* is mailed a code that the server never knew (sendVerificationEmail).
MailedCodesWereStored == \A m \in outbox : m.code \in issued[m.to]

\* Tokens are issued only to an account that is verified, or was removed while
\* its request ran, whichever of login, verifyEmail and Google issues them and
\* whatever the other requests did since the account was read.
TokensNeedVerification ==
    \A r \in Requests : call[r].pc = "issueTokens" =>
        AccountVerifiedOrGone(call[r].email, call[r].id)

\* An address is locked out only by wrong codes that were counted since its
\* counter last lapsed or was deleted, however verifications, failures, lapses
\* and accounts under the address interleave.  One thing carries old wrong codes
\* over: a request that read the counter before and writes it back after, for
\* the code writes a sum and increments nothing (auth.service.ts:128-140).
LockoutNeedsWrongCodes ==
    \A e \in Emails \ stale : attempts[e] <= refused[e]

\* Between two lapses of the counter at most AttemptLimit wrong codes are
\* refused as such; later ones are turned away unread (verifyEmail).
WithinAttemptLimit == \A e \in Emails : refused[e] <= AttemptLimit

\* Without Google, an account turns verified only by a request that found this
\* very account, not an earlier one under the address, and whose code Redis has
\* held for the address.
OnlyStoredCodesVerify ==
    [][\A e \in Emails :
         users[e].live /\ ~users[e].verified /\ users'[e].verified =>
            \/ \E r \in Requests : /\ call[r].pc = "markVerified"
                                   /\ call[r].email = e
                                   /\ call[r].id = users[e].id
                                   /\ call[r].code \in issued[e]
            \/ \E r \in Requests : GoogleSignIn(r, e)]_vars

\* A verified account stays verified until it is removed, even when a second
\* registration of the address is already past its findByEmail.
VerificationIsFinal ==
    [][\A e \in Emails :
         users[e].live /\ users[e].verified /\ users'[e].live =>
            users'[e].verified]_vars
=============================================================================
