----------------------------- MODULE Onboarding -----------------------------
(***************************************************************************)
(* The onboarding record of a user (users.onboarding_step and              *)
(* onboarding_complete) and the inverters table: connectUserInverter of    *)
(* UsersService, connectInverter and deactivateInverter of                 *)
(* InvertersService, and the flows that write the same columns, register,  *)
(* verifyEmail and the Google sign-ins.  Requests are cut at their awaits  *)
(* as in module EmailVerification; the vendor's answer about an            *)
(* installation is taken together with the arrival of its request.         *)
(***************************************************************************)
EXTENDS Naturals, FiniteSets

CONSTANTS
    Users,      \* ids of rows of the users table
    Serials,    \* serial numbers a vendor's API may report
    NoSerial,   \* a request about no inverter
    Requests,   \* requests in flight at the same time
    SoftDelete  \* whether the ORM's delete keeps the row (deleted_at)

ASSUME UsersAssumption      == Users # {}
ASSUME SerialsAssumption    == NoSerial \notin Serials
ASSUME SoftDeleteAssumption == SoftDelete \in BOOLEAN

VARIABLES
    users,      \* the onboarding columns of each row
    inverters,  \* rows of the inverters table
    access,     \* users holding an access token that has not expired
    call        \* call[r]: where request r stands, and its locals

vars == <<users, inverters, access, call>>

-----------------------------------------------------------------------------
User == [status : {"none", "live", "removed"}, verified : BOOLEAN,
         step : 1..3, complete : BOOLEAN]

Inverter == [serial : Serials, owner : Users, active : BOOLEAN]

\* via is the route of a request: POST /users/onboard or /inverters/connect.
Call == [pc : {"idle", "markVerified", "issueTokens", "findSerial", "insert",
               "complete", "deactivate"},
         user : Users, serial : Serials \cup {NoSerial},
         via : {"onboard", "connect"}]

Idle == [pc |-> "idle", user |-> CHOOSE u \in Users : TRUE, serial |-> NoSerial,
         via |-> "connect"]

Live(u)    == users[u].status = "live"
Owns(u)    == \E i \in inverters : i.owner = u
NewUser(v) == [status |-> "live", verified |-> v, step |-> IF v THEN 2 ELSE 1,
               complete |-> FALSE]

\* findBySerialNumber looks for a row, active or not, of any brand.
SerialKnown(s) == \E i \in inverters : i.serial = s

SerialNeverTaken(s) == FALSE

\* The unique constraint on inverters.serial_number.
SerialTaken(s) == \E i \in inverters : i.serial = s

\* The foreign key on user_id; a row that is only marked deleted satisfies it.
OwnerGone(u) == users[u].status = "removed" /\ ~SoftDelete

VerifiedUser(u) == [users[u] EXCEPT !.verified = TRUE]

Begin(r, u, pc, s, via) ==
    /\ call[r] = Idle
    /\ call' = [call EXCEPT ![r] = [pc |-> pc, user |-> u, serial |-> s, via |-> via]]

Goto(r, pc) == call' = [call EXCEPT ![r].pc = pc]
Finish(r)   == call' = [call EXCEPT ![r] = Idle]

TypeOK ==
    /\ users \in [Users -> User]
    /\ inverters \subseteq Inverter
    /\ access \subseteq Users
    /\ call \in [Requests -> Call]

Init ==
    /\ users = [u \in Users |-> [status |-> "none", verified |-> FALSE, step |-> 1,
                                 complete |-> FALSE]]
    /\ inverters = {}
    /\ access = {}
    /\ call = [r \in Requests |-> Idle]

-----------------------------------------------------------------------------
(* Seeded faults, as SerialNeverTaken above: plausible slips that no       *)
(* behaviour of Spec uses and each of which one property must catch.       *)

\* The upsert's conflict clause lists every column it has values for.
GoogleSignInOverwriting(r, u) ==
    /\ users[u].status # "removed"
    /\ Begin(r, u, "issueTokens", NoSerial, "connect")
    /\ users' = [users EXCEPT ![u] = NewUser(TRUE)]
    /\ UNCHANGED <<inverters, access>>

\* The onboarding record written before the inverter's row is.
FindSerialCompleting(r) ==
    /\ call[r].pc = "findSerial"
    /\ ~SerialKnown(call[r].serial)
    /\ Goto(r, "insert")
    /\ users' = [users EXCEPT ![call[r].user].step = 3,
                              ![call[r].user].complete = call[r].via = "onboard"]
    /\ UNCHANGED <<inverters, access>>

\* An upsert on the serial number that takes over a deactivated row.
InsertInverterTakingOver(r) ==
    LET c == call[r] IN
    /\ c.pc = "insert"
    /\ \A i \in inverters : i.serial = c.serial => ~i.active
    /\ ~OwnerGone(c.user)
    /\ inverters' = {i \in inverters : i.serial # c.serial} \cup
                      {[serial |-> c.serial, owner |-> c.user, active |-> TRUE]}
    /\ Finish(r)
    /\ UNCHANGED <<users, access>>

-----------------------------------------------------------------------------
(* Accounts, as far as they write the onboarding columns or hand out access *)
(* tokens                                                                   *)

Register(u) ==
    /\ users[u].status = "none"
    /\ users' = [users EXCEPT ![u] = NewUser(FALSE)]
    /\ UNCHANGED <<inverters, access, call>>

\* verifyEmail of an unverified account, at the point where the code matched.
BeginVerify(r, u) ==
    /\ Live(u) /\ ~users[u].verified
    /\ Begin(r, u, "markVerified", NoSerial, "connect")
    /\ UNCHANGED <<users, inverters, access>>

\* setEmailVerified sets the step whatever it was.
MarkVerified(r) ==
    LET u == call[r].user IN
    /\ call[r].pc = "markVerified"
    /\ users' = IF Live(u)
                THEN [users EXCEPT ![u] = [VerifiedUser(u) EXCEPT !.step = 2]]
                ELSE users
    /\ Goto(r, "issueTokens")
    /\ UNCHANGED <<inverters, access>>

\* upsertByGoogle: a new row starts at step 2; on conflict only google_id and
\* email_verified are written.
GoogleSignIn(r, u) ==
    /\ users[u].status # "removed"
    /\ Begin(r, u, "issueTokens", NoSerial, "connect")
    /\ users' = [users EXCEPT ![u] = IF Live(u) THEN VerifiedUser(u) ELSE NewUser(TRUE)]
    /\ UNCHANGED <<inverters, access>>

BeginLogin(r, u) ==
    /\ Live(u) /\ users[u].verified
    /\ Begin(r, u, "issueTokens", NoSerial, "connect")
    /\ UNCHANGED <<users, inverters, access>>

IssueTokens(r) ==
    /\ call[r].pc = "issueTokens"
    /\ access' = access \cup {call[r].user}
    /\ Finish(r)
    /\ UNCHANGED <<users, inverters>>

-----------------------------------------------------------------------------
(* POST /users/onboard and POST /inverters/connect: the guard checks the   *)
(* access token only, so the user's row may be gone                        *)

BeginConnect(r, u, s, via) ==
    /\ u \in access
    /\ Begin(r, u, "findSerial", s, via)
    /\ UNCHANGED <<users, inverters, access>>

FindSerial(r) ==
    /\ call[r].pc = "findSerial"
    /\ IF SerialKnown(call[r].serial) THEN Finish(r) ELSE Goto(r, "insert")
    /\ UNCHANGED <<users, inverters, access>>

\* A violated constraint reaches the client as a 500.
InsertInverter(r) ==
    LET c == call[r] IN
    /\ c.pc = "insert"
    /\ IF SerialTaken(c.serial) \/ OwnerGone(c.user)
       THEN Finish(r) /\ UNCHANGED inverters
       ELSE /\ inverters' = inverters \cup {[serial |-> c.serial, owner |-> c.user,
                                             active |-> TRUE]}
            /\ IF c.via = "onboard" THEN Goto(r, "complete") ELSE Finish(r)
    /\ UNCHANGED <<users, access>>

\* connectUserInverter ends with an update by id, in no common transaction.
CompleteOnboarding(r) ==
    LET u == call[r].user IN
    /\ call[r].pc = "complete"
    /\ users' = IF Live(u)
                THEN [users EXCEPT ![u].step = 3, ![u].complete = TRUE]
                ELSE users
    /\ Finish(r)
    /\ UNCHANGED <<inverters, access>>

-----------------------------------------------------------------------------
\* PATCH /inverters/:id/deactivate, by the owner of an active inverter.
BeginDeactivate(r, i) ==
    /\ i.owner \in access
    /\ i.active
    /\ Begin(r, i.owner, "deactivate", i.serial, "connect")
    /\ UNCHANGED <<users, inverters, access>>

Deactivate(r) ==
    /\ call[r].pc = "deactivate"
    /\ inverters' = {IF i.serial = call[r].serial /\ i.owner = call[r].user
                     THEN [i EXCEPT !.active = FALSE] ELSE i : i \in inverters}
    /\ Finish(r)
    /\ UNCHANGED <<users, access>>

\* DELETE /users/:id; deleting the row takes its inverters with it.
RemoveUser(u) ==
    /\ Live(u)
    /\ users' = [users EXCEPT ![u].status = "removed"]
    /\ inverters' = IF SoftDelete THEN inverters ELSE {i \in inverters : i.owner # u}
    /\ UNCHANGED <<access, call>>

\* A rejected await or a killed process.
Fail(r) == call[r] # Idle /\ Finish(r) /\ UNCHANGED <<users, inverters, access>>

ExpireAccessTokens(u) ==
    /\ u \in access
    /\ access' = access \ {u}
    /\ UNCHANGED <<users, inverters, call>>

-----------------------------------------------------------------------------
Handle(r) ==
    \/ MarkVerified(r) \/ IssueTokens(r)
    \/ FindSerial(r) \/ InsertInverter(r) \/ CompleteOnboarding(r) \/ Deactivate(r)

Next ==
    \/ \E r \in Requests : Handle(r) \/ Fail(r)
    \/ \E r \in Requests, u \in Users :
         \/ BeginVerify(r, u) \/ GoogleSignIn(r, u) \/ BeginLogin(r, u)
         \/ \E s \in Serials, via \in {"onboard", "connect"} : BeginConnect(r, u, s, via)
    \/ \E r \in Requests, i \in inverters : BeginDeactivate(r, i)
    \/ \E u \in Users : Register(u) \/ RemoveUser(u) \/ ExpireAccessTokens(u)

Spec == Init /\ [][Next]_vars

-----------------------------------------------------------------------------
\* One installation is connected to one account, although two requests may both
\* have found its serial number free (persistInverter).
SerialConnectedOnce ==
    \A i, j \in inverters : i.serial = j.serial => i = j

\* Whoever is told that onboarding is complete owns an inverter, whatever
\* failed or was removed in between (connectUserInverter).
CompleteHasInverter ==
    \A u \in Users : Live(u) /\ users[u].complete => Owns(u)

\* Completed onboarding is never undone: not by a late verifyEmail, nor by a
\* Google sign-in that upserts the row (setEmailVerified, upsertByGoogle).
OnboardingIsFinal ==
    [][\A u \in Users : users[u].complete => users'[u].complete]_vars

-----------------------------------------------------------------------------
HoldersOf(s) == {i.owner : i \in {j \in inverters : j.serial = s}}

R == INSTANCE Registry WITH
       Installations <- Serials,
       Accounts      <- Users,
       holders       <- [s \in Serials |-> HoldersOf(s)],
       working       <- {i.serial : i \in {j \in inverters : j.active}},
       left          <- {u \in Users : OwnerGone(u)}

\* The table keeps the promise of Registry: an installation changes hands only
\* when its owner's row is deleted, deactivated or not, and a request that is
\* still running then connects nothing (persistInverter, deactivateInverter).
ImplementsRegistry == R!Spec
=============================================================================
