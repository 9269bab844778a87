--------------------------- MODULE PasswordReset ---------------------------
(***************************************************************************)
(* forgotPassword and resetPassword of AuthService, over the users table,  *)
(* the Redis keys "password_reset_token" and the e-mail queue.  Requests   *)
(* are cut at their awaits as in module EmailVerification.                 *)
(***************************************************************************)
EXTENDS Naturals, FiniteSets

CONSTANTS
    Emails,       \* addresses
    Links,        \* bound: the reset tokens ever drawn, each one once
    NoLink,       \* Redis answers null
    Passwords,    \* what a client may choose as its new password
    NoPassword,   \* the password hash an account starts with, NULL or not
    Requests,     \* requests in flight at the same time
    MaxAccounts   \* bound: how often one address can be registered

ASSUME EmailsAssumption      == Emails # {}
ASSUME LinksAssumption       == NoLink \notin Links
ASSUME PasswordsAssumption   == NoPassword \notin Passwords
ASSUME MaxAccountsAssumption == MaxAccounts \in Nat \ {0}

VARIABLES
    users,    \* users[e]: the newest row with that address; id 0 = none yet
    token,    \* Redis password_reset_token:<e>, the hash standing for the link
    outbox,   \* reset mails handed to the queue
    call,     \* call[r]: where request r stands, and its locals
    used      \* history: the links that changed a password

store == <<users, token, outbox>>
vars  == <<store, call, used>>

-----------------------------------------------------------------------------
Account == [id : 0..MaxAccounts, live : BOOLEAN, verified : BOOLEAN,
            password : Passwords \cup {NoPassword}]

Call == [pc : {"idle", "mailLink", "storeLink", "findUser", "checkUser",
               "writePassword", "mailNotice", "dropLink"},
         email : Emails, id : 0..MaxAccounts,
         link : Links \cup {NoLink}, password : Passwords \cup {NoPassword}]

Idle == [pc |-> "idle", email |-> CHOOSE e \in Emails : TRUE, id |-> 0,
         link |-> NoLink, password |-> NoPassword]

Mail(e, l) == [to |-> e, link |-> l]

\* randomBytes(32): no two requests draw the same token.
Unused(l) == /\ \A m \in outbox : m.link # l
             /\ \A r \in Requests : call[r].link # l

TokenPresent(e, l) == token[e] # NoLink
TokenOfAnyAddress(e, l) == \E a \in Emails : token[a] = l

\* bcrypt.compare of the presented token with the stored hash, if any.
TokenMatches(e, l) == token[e] = l

\* findByEmail, then the two tests on the row.
MayReset(e) == users[e].live /\ users[e].verified

IsRow(e, id) == users[e].live /\ users[e].id = id

Goto(r, pc) == call' = [call EXCEPT ![r].pc = pc]
Finish(r)   == call' = [call EXCEPT ![r] = Idle]

TypeOK ==
    /\ users \in [Emails -> Account]
    /\ token \in [Emails -> Links \cup {NoLink}]
    /\ outbox \subseteq [to : Emails, link : Links]
    /\ call \in [Requests -> Call]
    /\ used \subseteq Links

Init ==
    /\ users = [e \in Emails |-> [id |-> 0, live |-> FALSE, verified |-> FALSE,
                                  password |-> NoPassword]]
    /\ token = [e \in Emails |-> NoLink]
    /\ outbox = {}
    /\ call = [r \in Requests |-> Idle]
    /\ used = {}

-----------------------------------------------------------------------------
(* Seeded faults: plausible slips, each of which one of the properties must *)
(* catch, as it must for TokenPresent and TokenOfAnyAddress above.  No      *)
(* behaviour of Spec uses them.                                             *)

\* The token stored under the address before anything is mailed.
MailLinkStoredFirst(r) ==
    /\ call[r].pc = "mailLink"
    /\ token' = [token EXCEPT ![call[r].email] = call[r].link]
    /\ Goto(r, "storeLink")
    /\ UNCHANGED <<users, outbox, used>>

\* Single use enforced by deleting the key before the update.
DropLinkFirst(r) ==
    /\ call[r].pc = "findUser"
    /\ token' = [token EXCEPT ![call[r].email] = NoLink]
    /\ Finish(r)
    /\ UNCHANGED <<users, outbox, used>>

-----------------------------------------------------------------------------
(* forgotPassword: the mail is queued first, the token hashed and stored   *)
(* after that                                                              *)

BeginForgot(r, e) ==
    /\ call[r] = Idle
    /\ MayReset(e)
    /\ \E l \in Links :
         /\ Unused(l)
         /\ call' = [call EXCEPT ![r] = [Idle EXCEPT !.pc = "mailLink", !.email = e,
                                                     !.link = l]]
    /\ UNCHANGED <<store, used>>

MailLink(r) ==
    /\ call[r].pc = "mailLink"
    /\ outbox' = outbox \cup {Mail(call[r].email, call[r].link)}
    /\ Goto(r, "storeLink")
    /\ UNCHANGED <<users, token, used>>

StoreLink(r) ==
    LET e == call[r].email
        l == call[r].link IN
    /\ call[r].pc = "storeLink"
    /\ token' = [token EXCEPT ![e] = l]
    /\ Finish(r)
    /\ UNCHANGED <<users, outbox, used>>

-----------------------------------------------------------------------------
(* resetPassword.  Clients present tokens out of reset mails; a missing or *)
(* different token is refused at the first read.                           *)

BeginReset(r, e, l, p) ==
    /\ call[r] = Idle
    /\ \E m \in outbox : m.link = l
    /\ TokenMatches(e, l)
    /\ call' = [call EXCEPT ![r] = [Idle EXCEPT !.pc = "findUser", !.email = e,
                                                !.link = l, !.password = p]]
    /\ UNCHANGED <<store, used>>

FindUser(r) ==
    LET e == call[r].email IN
    /\ call[r].pc = "findUser"
    /\ IF MayReset(e)
       THEN call' = [call EXCEPT ![r].pc = "checkUser", ![r].id = users[e].id]
       ELSE Finish(r)
    /\ UNCHANGED <<store, used>>

\* updatePasswordHash looks the row up by id (404), then updates it, and the
\* update answers nothing for a row removed in between (500).
CheckUser(r) ==
    /\ call[r].pc = "checkUser"
    /\ IF IsRow(call[r].email, call[r].id) THEN Goto(r, "writePassword") ELSE Finish(r)
    /\ UNCHANGED <<store, used>>

WritePassword(r) ==
    LET e == call[r].email IN
    /\ call[r].pc = "writePassword"
    /\ IF IsRow(e, call[r].id)
       THEN /\ users' = [users EXCEPT ![e].password = call[r].password]
            /\ used' = used \cup {call[r].link}
            /\ Goto(r, "mailNotice")
       ELSE Finish(r) /\ UNCHANGED <<users, used>>
    /\ UNCHANGED <<token, outbox>>

\* The notice of the change carries no link.
MailNotice(r) ==
    /\ call[r].pc = "mailNotice"
    /\ Goto(r, "dropLink")
    /\ UNCHANGED <<store, used>>

\* Deletes the key, whatever it holds by now.
DropLink(r) ==
    /\ call[r].pc = "dropLink"
    /\ token' = [token EXCEPT ![call[r].email] = NoLink]
    /\ Finish(r)
    /\ UNCHANGED <<users, outbox, used>>

-----------------------------------------------------------------------------
(* The surroundings: failures, expiry, and the flows that create, verify   *)
(* and remove accounts (modules EmailVerification and Accounts)            *)

Fail(r) == call[r] # Idle /\ Finish(r) /\ UNCHANGED <<store, used>>

ExpireLink(e) ==
    /\ token[e] # NoLink
    /\ token' = [token EXCEPT ![e] = NoLink]
    /\ UNCHANGED <<users, outbox, call, used>>

CreateAccount(e, verified) ==
    /\ ~users[e].live
    /\ users' = [users EXCEPT ![e] = [id |-> @.id + 1, live |-> TRUE,
                                      verified |-> verified, password |-> NoPassword]]
    /\ UNCHANGED <<token, outbox, call, used>>

VerifyAccount(e) ==
    /\ users[e].live /\ ~users[e].verified
    /\ users' = [users EXCEPT ![e].verified = TRUE]
    /\ UNCHANGED <<token, outbox, call, used>>

RemoveUser(e) ==
    /\ users[e].live
    /\ users[e].id < MaxAccounts
    /\ users' = [users EXCEPT ![e].live = FALSE]
    /\ UNCHANGED <<token, outbox, call, used>>

-----------------------------------------------------------------------------
Handle(r) ==
    \/ MailLink(r) \/ StoreLink(r)
    \/ FindUser(r) \/ CheckUser(r) \/ WritePassword(r) \/ MailNotice(r) \/ DropLink(r)

Next ==
    \/ \E r \in Requests : Handle(r) \/ Fail(r)
    \/ \E r \in Requests, e \in Emails :
         \/ BeginForgot(r, e)
         \/ \E l \in Links, p \in Passwords : BeginReset(r, e, l, p)
    \/ \E e \in Emails :
         \/ ExpireLink(e) \/ VerifyAccount(e) \/ RemoveUser(e)
         \/ \E verified \in BOOLEAN : CreateAccount(e, verified)

Spec == Init /\ [][Next]_vars

-----------------------------------------------------------------------------
\* Redis never holds a token for an address that has not been mailed to that
\* address: a reset can be completed only out of a mail (forgotPassword).
StoredLinksWereMailed ==
    \A e \in Emails : token[e] # NoLink => Mail(e, token[e]) \in outbox

\* A password changes only while its account is verified, by a request that
\* presented a token mailed to that very address, whatever expired, was
\* replaced or was removed since the request compared it.
PasswordChangeNeedsMailedLink ==
    [][\A e \in Emails :
         users[e].live /\ users'[e].password # users[e].password =>
            /\ users[e].verified
            /\ \E r \in Requests : /\ call[r].pc = "writePassword"
                                   /\ Mail(e, call[r].link) \in outbox
                                   /\ users'[e].password = call[r].password]_vars

\* A token leaves Redis by expiry, or at the end of a request that has changed
\* a password: a reset that fails half-way can be retried with the same mail.
LinkOutlivesFailedReset ==
    [][\A e \in Emails : token[e] # NoLink /\ token'[e] = NoLink =>
          \/ ExpireLink(e)
          \/ \E r \in Requests : DropLink(r) /\ call[r].link \in used]_vars

\* A reset link changes a password at most once.
LinksUsedOnce ==
    [][\A r \in Requests :
         WritePassword(r) /\ IsRow(call[r].email, call[r].id) =>
            call[r].link \notin used]_vars
=============================================================================
