------------------------------ MODULE Accounts ------------------------------
(***************************************************************************)
(* The rows of the users table as accounts: created by register, created   *)
(* or linked by the two Google sign-ins (findOrCreateByGoogle), removed by *)
(* DELETE /users/:id.  A request takes its first read with its arrival and *)
(* is then cut at each await, as in module EmailVerification; one refused  *)
(* at that read changes nothing and is no step, nor is PATCH /users/:id,   *)
(* which writes names only, or a call that only reads.                     *)
(*                                                                         *)
(* A Google sign-in carries the id and the address of an ID token or       *)
(* profile.  Tokens live for an hour and addresses move between Google     *)
(* accounts, so any id may come with any address.                          *)
(***************************************************************************)
EXTENDS Naturals

CONSTANTS
    Emails,      \* addresses
    Googles,     \* Google account ids
    NoGoogle,    \* google_id is null
    Requests,    \* requests in flight at the same time
    MaxRows,     \* bound: rows ever inserted
    SoftDelete   \* whether the ORM's delete keeps the row (deleted_at)

ASSUME EmailsAssumption     == Emails # {}
ASSUME NoGoogleAssumption   == NoGoogle \notin Googles
ASSUME MaxRowsAssumption    == MaxRows \in Nat
ASSUME SoftDeleteAssumption == SoftDelete \in BOOLEAN

VARIABLES
    rows,      \* rows[e]: the row with address e
    ids,       \* rows inserted so far; the last one's id
    links,     \* history: links[i], the Google ids written to row i
    sessions,  \* history: tokens issued, pairs <<Google id, row id>>
    call       \* call[r]: where request r stands, and its locals

vars == <<rows, ids, links, sessions, call>>

-----------------------------------------------------------------------------
Row == [id : 0..MaxRows, live : BOOLEAN, google : Googles \cup {NoGoogle}]

\* overtaken is no local of the code: since the request arrived another one
\* linked the same Google id or the same address.
Call == [pc : {"idle", "findEmail", "upsert", "load", "issue", "insert"},
         google : Googles \cup {NoGoogle}, email : Emails, id : 0..MaxRows,
         overtaken : BOOLEAN]

Idle == [pc |-> "idle", google |-> NoGoogle, email |-> CHOOSE e \in Emails : TRUE,
         id |-> 0, overtaken |-> FALSE]

\* The unique index on users.email; a soft-deleted row still occupies it.
EmailTaken(e) == rows[e].live \/ (SoftDelete /\ rows[e].id > 0)

\* findByGoogleId: a row that is not deleted; google_id is not unique.
HasGoogle(e, g) == rows[e].live /\ rows[e].google = g

Begin(r, pc, g, e, id) ==
    /\ call[r] = Idle
    /\ call' = [call EXCEPT ![r] = [pc |-> pc, google |-> g, email |-> e, id |-> id,
                                    overtaken |-> FALSE]]

Finish(r) == call' = [call EXCEPT ![r] = Idle]

\* Request r has written its Google id to row id; it loads the row next.
Linked(r, id) ==
    /\ links' = [links EXCEPT ![id] = @ \cup {call[r].google}]
    /\ call' = [x \in Requests |->
         IF x = r THEN [call[r] EXCEPT !.pc = "load", !.id = id]
         ELSE IF call[x].pc # "idle" /\ (\/ call[x].google = call[r].google
                                         \/ call[x].email = call[r].email)
              THEN [call[x] EXCEPT !.overtaken = TRUE]
              ELSE call[x]]

TypeOK ==
    /\ rows \in [Emails -> Row]
    /\ ids \in 0..MaxRows
    /\ links \in [1..MaxRows -> SUBSET Googles]
    /\ sessions \subseteq Googles \X (1..MaxRows)
    /\ call \in [Requests -> Call]

Init ==
    /\ rows = [e \in Emails |-> [id |-> 0, live |-> FALSE, google |-> NoGoogle]]
    /\ ids = 0
    /\ links = [i \in 1..MaxRows |-> {}]
    /\ sessions = {}
    /\ call = [r \in Requests |-> Idle]

-----------------------------------------------------------------------------
(* Seeded faults: plausible slips in the code below, each of which one of  *)
(* the properties must catch.  No behaviour of Spec uses them.             *)

\* The account is looked for by address only.
BeginGoogleByEmail(r, g, e) ==
    /\ Begin(r, "findEmail", g, e, 0)
    /\ UNCHANGED <<rows, ids, links, sessions>>

\* The address is not tested for another Google id.
FindByEmailUntested(r) ==
    /\ call[r].pc = "findEmail"
    /\ call' = [call EXCEPT ![r].pc = "upsert"]
    /\ UNCHANGED <<rows, ids, links, sessions>>

\* On a conflict the upsert sets email_verified only.
UpsertUnlinked(r) ==
    LET e == call[r].email IN
    /\ call[r].pc = "upsert"
    /\ IF EmailTaken(e)
       THEN /\ call' = [call EXCEPT ![r].pc = "load", ![r].id = rows[e].id]
            /\ UNCHANGED <<rows, ids, links>>
       ELSE /\ ids < MaxRows
            /\ ids' = ids + 1
            /\ rows' = [rows EXCEPT ![e] = [id |-> ids', live |-> TRUE,
                                            google |-> call[r].google]]
            /\ Linked(r, ids')
    /\ UNCHANGED sessions

-----------------------------------------------------------------------------
(* findOrCreateGoogleOAuthUser and googleMobileLogin: the row with the     *)
(* Google id is the account, whatever its address.                         *)
BeginGoogle(r, g, e) ==
    /\ \/ \E f \in Emails : HasGoogle(f, g) /\ Begin(r, "issue", g, e, rows[f].id)
       \/ (\A f \in Emails : ~HasGoogle(f, g)) /\ Begin(r, "findEmail", g, e, 0)
    /\ UNCHANGED <<rows, ids, links, sessions>>

(* The row with the address must not be linked to another Google id.       *)
FindByEmail(r) ==
    LET row == rows[call[r].email] IN
    /\ call[r].pc = "findEmail"
    /\ IF row.live /\ row.google \notin {NoGoogle, call[r].google} THEN Finish(r)
       ELSE call' = [call EXCEPT ![r].pc = "upsert"]
    /\ UNCHANGED <<rows, ids, links, sessions>>

(* upsertByGoogle: INSERT ... ON CONFLICT (email) DO UPDATE google_id and  *)
(* email_verified, also on a row that is only marked deleted.              *)
Upsert(r) ==
    LET e == call[r].email IN
    /\ call[r].pc = "upsert"
    /\ IF EmailTaken(e)
       THEN /\ rows' = [rows EXCEPT ![e].google = call[r].google]
            /\ Linked(r, rows[e].id)
            /\ UNCHANGED ids
       ELSE /\ ids < MaxRows
            /\ ids' = ids + 1
            /\ rows' = [rows EXCEPT ![e] = [id |-> ids', live |-> TRUE,
                                            google |-> call[r].google]]
            /\ Linked(r, ids')
    /\ UNCHANGED sessions

(* The row is read back by its id; without one the request ends in a 500.  *)
Load(r) ==
    /\ call[r].pc = "load"
    /\ IF \E e \in Emails : rows[e].live /\ rows[e].id = call[r].id
       THEN call' = [call EXCEPT ![r].pc = "issue"]
       ELSE Finish(r)
    /\ UNCHANGED <<rows, ids, links, sessions>>

(* issueTokens: the hash goes to the row if there still is one; the tokens *)
(* go out either way.                                                      *)
IssueTokens(r) ==
    /\ call[r].pc = "issue"
    /\ sessions' = sessions \cup {<<call[r].google, call[r].id>>}
    /\ Finish(r)
    /\ UNCHANGED <<rows, ids, links>>

(* register: no row has the address, the password is hashed, and the row   *)
(* inserted unless the unique index refuses it.                            *)
BeginRegister(r, e) ==
    /\ ~rows[e].live
    /\ Begin(r, "insert", NoGoogle, e, 0)
    /\ UNCHANGED <<rows, ids, links, sessions>>

Insert(r) ==
    LET e == call[r].email IN
    /\ call[r].pc = "insert"
    /\ IF EmailTaken(e) THEN UNCHANGED <<rows, ids>>
       ELSE /\ ids < MaxRows
            /\ ids' = ids + 1
            /\ rows' = [rows EXCEPT ![e] = [id |-> ids', live |-> TRUE,
                                            google |-> NoGoogle]]
    /\ Finish(r)
    /\ UNCHANGED <<links, sessions>>

Remove(e) ==
    /\ rows[e].live
    /\ rows' = [rows EXCEPT ![e].live = FALSE]
    /\ UNCHANGED <<ids, links, sessions, call>>

(* A statement rejects: googleMobileLogin answers 401, the rest 500.       *)
Fail(r) ==
    /\ call[r].pc # "idle"
    /\ Finish(r)
    /\ UNCHANGED <<rows, ids, links, sessions>>

Next ==
    \/ \E r \in Requests :
         \/ \E g \in Googles, e \in Emails : BeginGoogle(r, g, e)
         \/ \E e \in Emails : BeginRegister(r, e)
         \/ FindByEmail(r) \/ Upsert(r) \/ Load(r) \/ IssueTokens(r)
         \/ Insert(r) \/ Fail(r)
    \/ \E e \in Emails : Remove(e)

Spec == Init /\ [][Next]_vars

-----------------------------------------------------------------------------
\* Tokens handed to the owner of a Google id are for a row that id was linked
\* to, whatever other sign-ins, registrations and removals ran in between
\* (users.service.ts:48-67, users.action.ts:27-50).
SessionsOfLinkedAccounts == \A s \in sessions : s[1] \in links[s[2]]

\* "This email is already linked to a different Google account"
\* (sys-msg.ts:27): the link of an account is replaced only by a sign-in that
\* another one overtook between its conflict test and its upsert, which do not
\* exclude each other (users.service.ts:52-61).
LinksReplacedInRacesOnly ==
    [][\A e \in Emails :
         /\ rows[e].live
         /\ rows[e].google # NoGoogle
         /\ rows'[e].google # rows[e].google
         => \E r \in Requests : /\ call[r].pc = "upsert" /\ call[r].email = e
                                /\ call[r].overtaken]_vars

\* A Google id has a second account only after such a race: google_id is not
\* unique in the table, and the lookup by it runs before the upsert.
SecondAccountsInRacesOnly ==
    [][\A e, f \in Emails :
         /\ e # f
         /\ rows[e].live /\ rows[e].google # NoGoogle
         /\ rows'[f].live /\ rows'[f].google = rows[e].google
         /\ ~HasGoogle(f, rows[e].google)
         => \E r \in Requests : /\ call[r].pc = "upsert" /\ call[r].email = f
                                /\ call[r].overtaken]_vars
=============================================================================
