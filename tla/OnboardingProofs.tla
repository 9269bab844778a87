-------------------------- MODULE OnboardingProofs --------------------------
(* Theorems about Onboarding, for every set of users, serial numbers and   *)
(* requests, whichever way accounts are deleted.                           *)
EXTENDS Onboarding, TLAPS

Known(u) == users[u].status # "none"

\* A request that is about to record the onboarding has made the inverter, and
\* it is still there unless its owner is gone.
GoodCall(c) ==
    /\ c.pc # "idle" => Known(c.user)
    /\ c.pc \in {"findSerial", "insert"} => c.serial \in Serials
    /\ c.pc = "complete" /\ Live(c.user) => Owns(c.user)

GoodCalls == \A r \in Requests : GoodCall(call[r])

\* A row that is not there yet has no onboarding to speak of.
NoneIncomplete == \A u \in Users : users[u].status = "none" => ~users[u].complete

TokensKnown == \A u \in access : Known(u)

Inv ==
    /\ TypeOK /\ GoodCalls /\ NoneIncomplete /\ TokensKnown
    /\ SerialConnectedOnce /\ CompleteHasInverter

LEMMA IdleIsGood == Idle \in Call /\ Idle.pc = "idle"
  BY UsersAssumption DEF Idle, Call

LEMMA Locals ==
  ASSUME TypeOK, NEW r \in Requests
  PROVE  call[r] \in Call /\ call[r].user \in Users /\ users[call[r].user] \in User
  BY DEF TypeOK, Call

-----------------------------------------------------------------------------
(* The inverters table: rows are added under the unique constraint, changed *)
(* in place, and removed only together with their owner.                    *)

RowsStep ==
    /\ inverters' \subseteq Inverter
    /\ SerialConnectedOnce'
    /\ \A u \in Users : Owns(u) => Owns(u)' \/ ~Live(u)'

LEMMA Deactivation ==
  ASSUME Inv, NEW r \in Requests, Deactivate(r)
  PROVE  RowsStep
<1> DEFINE new(i) == IF i.serial = call[r].serial /\ i.owner = call[r].user
                     THEN [i EXCEPT !.active = FALSE] ELSE i
<1>1. \A i \in inverters : /\ new(i) \in Inverter
                           /\ new(i).serial = i.serial /\ new(i).owner = i.owner
  BY DEF Inv, TypeOK, Inverter
<1>2. inverters' = {new(i) : i \in inverters}
  BY DEF Deactivate
<1> HIDE DEF new
<1>3. inverters' \subseteq Inverter
  BY <1>1, <1>2
<1>4. SerialConnectedOnce'
  <2> SUFFICES ASSUME NEW i \in inverters', NEW j \in inverters', i.serial = j.serial
               PROVE  i = j
    BY DEF SerialConnectedOnce
  <2>1. PICK a \in inverters : i = new(a)
    BY <1>2
  <2>2. PICK b \in inverters : j = new(b)
    BY <1>2
  <2>3. a.serial = b.serial
    BY <1>1, <2>1, <2>2
  <2> QED
    BY <2>1, <2>2, <2>3 DEF Inv, SerialConnectedOnce
<1>5. \A u \in Users : Owns(u) => Owns(u)'
  BY <1>1, <1>2 DEF Owns
<1> QED
  BY <1>3, <1>4, <1>5 DEF RowsStep

LEMMA InvertersStep ==
  ASSUME Inv, [Next]_vars
  PROVE  RowsStep
<1> USE DEF Inv, TypeOK
<1>1. CASE UNCHANGED inverters
  BY <1>1 DEF RowsStep, SerialConnectedOnce, Owns
<1>2. ASSUME NEW r \in Requests, InsertInverter(r) PROVE RowsStep
  <2> DEFINE row == [serial |-> call[r].serial, owner |-> call[r].user, active |-> TRUE]
  <2>1. CASE UNCHANGED inverters
    BY <1>1, <2>1
  <2>2. CASE ~SerialTaken(call[r].serial) /\ inverters' = inverters \cup {row}
    <3>1. row \in Inverter /\ row.serial = call[r].serial
      BY <1>2, Locals DEF InsertInverter, GoodCalls, GoodCall, Call, Inverter
    <3>2. \A i \in inverters : i.serial # row.serial
      BY <2>2, <3>1 DEF SerialTaken
    <3> HIDE DEF row
    <3> QED
      BY <2>2, <3>1, <3>2 DEF RowsStep, SerialConnectedOnce, Owns
  <2> QED
    BY <1>2, <2>1, <2>2 DEF InsertInverter
<1>3. ASSUME NEW u \in Users, RemoveUser(u) PROVE RowsStep
  <2>1. users[u] \in User /\ ~Live(u)'
    BY <1>3 DEF RemoveUser, Live, User
  <2>2. CASE UNCHANGED inverters
    BY <1>1, <2>2
  <2>3. CASE inverters' = {i \in inverters : i.owner # u}
    BY <2>1, <2>3 DEF RowsStep, SerialConnectedOnce, Owns
  <2> QED
    BY <1>3, <2>2, <2>3 DEF RemoveUser
<1> QED
  BY <1>1, <1>2, <1>3, Deactivation
  DEF Next, Handle, MarkVerified, IssueTokens, FindSerial, CompleteOnboarding, Fail,
      BeginVerify, GoogleSignIn, BeginLogin, BeginConnect, BeginDeactivate, Register,
      ExpireAccessTokens, vars

-----------------------------------------------------------------------------
(* The users table: a removed row stays removed, and onboarding is completed *)
(* only for the owner of an inverter and never undone.                       *)

Evolves(u) ==
    /\ users'[u] \in User
    /\ Known(u) => Known(u)'
    /\ users'[u].status = "none" => ~users'[u].complete
    /\ Live(u)' => Live(u) \/ users[u].status = "none"
    /\ users[u].complete => users'[u].complete
    /\ users'[u].complete /\ Live(u)' => users[u].complete \/ Owns(u)

LEMMA OneRow ==
  ASSUME Inv, NEW u \in Users, NEW new \in User, users' = [users EXCEPT ![u] = new],
         new.status # "none",
         new.status = "live" => users[u].status \in {"none", "live"},
         users[u].complete => new.complete,
         new.complete /\ new.status = "live" => users[u].complete \/ Owns(u)
  PROVE  users' \in [Users -> User] /\ \A v \in Users : Evolves(v)
<1>1. users \in [Users -> User] /\ NoneIncomplete
  BY DEF Inv, TypeOK
<1>2. users' \in [Users -> User]
  BY <1>1
<1>3. users'[u] = new /\ users[u] \in User
  BY <1>1
<1>4. Evolves(u)
  BY <1>3 DEF Evolves, Live, Known
<1>5. \A v \in Users : v # u => users'[v] = users[v]
  BY <1>1
<1>6. \A v \in Users : v # u => Evolves(v)
  BY <1>1, <1>5 DEF Evolves, Live, Known, NoneIncomplete
<1> QED
  BY <1>2, <1>4, <1>6

LEMMA MarkedRow ==
  ASSUME NEW a \in User, NEW new, new = [[a EXCEPT !.verified = TRUE] EXCEPT !.step = 2]
  PROVE  new \in User /\ new.status = a.status /\ new.complete = a.complete
<1>1. PICK n \in 1..3 : n = 2
  OBVIOUS
<1>2. new = [[a EXCEPT !.verified = TRUE] EXCEPT !.step = n]
  BY <1>1
<1> QED
  BY <1>2 DEF User

LEMMA CompletedRow ==
  ASSUME NEW a \in User, NEW new, new = [a EXCEPT !.step = 3, !.complete = TRUE]
  PROVE  new \in User /\ new.status = a.status /\ new.complete = TRUE
<1>1. PICK n \in 1..3 : n = 3
  OBVIOUS
<1>2. new = [a EXCEPT !.step = n, !.complete = TRUE]
  BY <1>1
<1> QED
  BY <1>2 DEF User

LEMMA UsersStep ==
  ASSUME Inv, [Next]_vars
  PROVE  users' \in [Users -> User] /\ \A u \in Users : Evolves(u)
<1> DEFINE Goal == users' \in [Users -> User] /\ \A u \in Users : Evolves(u)
<1> USE DEF Inv, TypeOK
<1>1. CASE UNCHANGED users
  BY <1>1 DEF Evolves, Live, Known, NoneIncomplete
<1>2. ASSUME NEW u \in Users, NEW verified \in BOOLEAN, users[u].status = "none",
             users' = [users EXCEPT ![u] = NewUser(verified)]
      PROVE  Goal
  <2>1. NewUser(verified) \in User /\ NewUser(verified).status = "live"
    BY DEF NewUser, User
  <2>2. ~NewUser(verified).complete /\ ~users[u].complete
    BY <1>2 DEF NewUser, NoneIncomplete
  <2> QED
    BY <1>2, <2>1, <2>2, OneRow
<1>3. ASSUME NEW u \in Users, Live(u), users' = [users EXCEPT ![u] = VerifiedUser(u)]
      PROVE  Goal
  <2>1. /\ VerifiedUser(u) \in User
        /\ VerifiedUser(u).status = users[u].status
        /\ VerifiedUser(u).complete = users[u].complete
    BY DEF VerifiedUser, User
  <2> QED
    BY <1>3, <2>1, OneRow DEF Live
<1>4. ASSUME NEW r \in Requests, MarkVerified(r) PROVE Goal
  <2>1. PICK u \in Users : u = call[r].user
    BY Locals
  <2> DEFINE new == [VerifiedUser(u) EXCEPT !.step = 2]
  <2>2. new \in User /\ new.status = users[u].status /\ new.complete = users[u].complete
    <3>1. users[u] \in User
      OBVIOUS
    <3>2. new = [[users[u] EXCEPT !.verified = TRUE] EXCEPT !.step = 2]
      BY DEF VerifiedUser
    <3> HIDE DEF new
    <3> QED
      BY <3>1, <3>2, MarkedRow
  <2>3. users' = users \/ (Live(u) /\ users' = [users EXCEPT ![u] = new])
    BY <1>4, <2>1 DEF MarkVerified
  <2> HIDE DEF new
  <2> QED
    BY <1>1, <2>2, <2>3, OneRow DEF Live
<1>5. ASSUME NEW r \in Requests, CompleteOnboarding(r) PROVE Goal
  <2>1. PICK u \in Users : u = call[r].user
    BY Locals
  <2> DEFINE new == [users[u] EXCEPT !.step = 3, !.complete = TRUE]
  <2>2. Live(u) => Owns(u)
    BY <1>5, <2>1 DEF CompleteOnboarding, GoodCalls, GoodCall
  <2>3. new \in User /\ new.status = users[u].status /\ new.complete = TRUE
    <3>1. users[u] \in User
      OBVIOUS
    <3>2. new = [users[u] EXCEPT !.step = 3, !.complete = TRUE]
      OBVIOUS
    <3> HIDE DEF new
    <3> QED
      BY <3>1, <3>2, CompletedRow
  <2>4. users' = users \/ (Live(u) /\ users' = [users EXCEPT ![u] = new])
    BY <1>5, <2>1 DEF CompleteOnboarding
  <2> HIDE DEF new
  <2> QED
    BY <1>1, <2>2, <2>3, <2>4, OneRow DEF Live
<1>6. ASSUME NEW u \in Users, RemoveUser(u) PROVE Goal
  <2> DEFINE new == [users[u] EXCEPT !.status = "removed"]
  <2>1. new \in User /\ new.status = "removed" /\ new.complete = users[u].complete
    BY DEF User
  <2>2. users' = [users EXCEPT ![u] = new]
    BY <1>6 DEF RemoveUser
  <2> HIDE DEF new
  <2> QED
    BY <2>1, <2>2, OneRow
<1>7. ASSUME NEW r \in Requests, NEW u \in Users, GoogleSignIn(r, u) PROVE Goal
  <2>1. CASE Live(u)
    BY <1>7, <2>1, <1>3 DEF GoogleSignIn
  <2>2. CASE ~Live(u)
    <3>1. users[u] \in User
      OBVIOUS
    <3>2. users[u].status = "none"
      BY <1>7, <2>2, <3>1 DEF GoogleSignIn, Live, User
    <3>3. users' = [users EXCEPT ![u] = NewUser(TRUE)]
      BY <1>7, <2>2 DEF GoogleSignIn
    <3> QED
      BY <3>2, <3>3, <1>2
  <2> QED
    BY <2>1, <2>2
<1>8. ASSUME NEW u \in Users, Register(u) PROVE Goal
  BY <1>8, <1>2 DEF Register
<1> QED
  BY <1>1, <1>4, <1>5, <1>6, <1>7, <1>8
  DEF Next, Handle, IssueTokens, FindSerial, InsertInverter, Deactivate, Fail,
      BeginVerify, BeginLogin, BeginConnect, BeginDeactivate, ExpireAccessTokens, vars

-----------------------------------------------------------------------------
(* Requests.                                                               *)

\* What is good of a request stays good as the tables change.
LEMMA GoodCallsStayGood ==
  ASSUME Inv, [Next]_vars, NEW c \in Call, GoodCall(c)
  PROVE  GoodCall(c)'
<1>1. c.user \in Users
  BY DEF Call
<1>2. Known(c.user) => Known(c.user)'
  BY <1>1, UsersStep DEF Evolves
<1>3. Known(c.user) /\ Live(c.user)' => Live(c.user)
  BY <1>1, UsersStep DEF Evolves, Known
<1>4. Owns(c.user) => Owns(c.user)' \/ ~Live(c.user)'
  BY <1>1, InvertersStep DEF RowsStep
<1> QED
  BY <1>2, <1>3, <1>4 DEF GoodCall

\* It is enough to look at the one request a step moves, in the new state.
LEMMA NewCallGood ==
  ASSUME Inv, [Next]_vars, NEW r \in Requests, NEW c \in Call, GoodCall(c)',
         call' = [call EXCEPT ![r] = c]
  PROVE  call' \in [Requests -> Call] /\ GoodCalls'
<1>1. \A q \in Requests : call'[q] = IF q = r THEN c ELSE call[q]
  BY DEF Inv, TypeOK
<1>2. \A q \in Requests : call[q] \in Call /\ GoodCall(call[q])
  BY DEF Inv, TypeOK, GoodCalls
<1>3. \A q \in Requests : call'[q] \in Call
  BY <1>1, <1>2
<1>4. \A q \in Requests : GoodCall(call[q])'
  <2> SUFFICES ASSUME NEW q \in Requests PROVE GoodCall(call[q])'
    OBVIOUS
  <2>1. CASE q = r
    BY <1>1, <2>1 DEF GoodCall, Known, Live, Owns
  <2>2. CASE q # r
    <3>1. call'[q] = call[q]
      BY <1>1, <2>2
    <3>2. PICK d \in Call : d = call[q] /\ GoodCall(d)
      BY <1>2
    <3>3. GoodCall(d)'
      BY <3>2, GoodCallsStayGood
    <3> QED
      BY <3>1, <3>2, <3>3 DEF GoodCall, Known, Live, Owns
  <2> QED
    BY <2>1, <2>2
<1> QED
  BY <1>1, <1>3, <1>4 DEF GoodCalls, Inv, TypeOK

LEMMA FinishGood ==
  ASSUME Inv, [Next]_vars, NEW r \in Requests, Finish(r)
  PROVE  call' \in [Requests -> Call] /\ GoodCalls'
<1>1. GoodCall(Idle)'
  BY IdleIsGood DEF GoodCall
<1> QED
  BY <1>1, IdleIsGood, NewCallGood DEF Finish

\* A request for a user the table knows starts with the locals it is given.
LEMMA BeginGood ==
  ASSUME Inv, [Next]_vars, NEW r \in Requests, NEW u \in Users, Known(u)',
         NEW pc \in {"markVerified", "issueTokens", "findSerial", "deactivate"},
         NEW s \in Serials \cup {NoSerial}, NEW via \in {"onboard", "connect"},
         pc = "findSerial" => s \in Serials, Begin(r, u, pc, s, via)
  PROVE  call' \in [Requests -> Call] /\ GoodCalls'
<1> DEFINE c == [pc |-> pc, user |-> u, serial |-> s, via |-> via]
<1>1. c \in Call
  BY DEF Call
<1>2. GoodCall(c)'
  BY DEF GoodCall, Known
<1> QED
  BY <1>1, <1>2, NewCallGood DEF Begin

\* Moving on keeps the locals; the new step's grounds are the last assumption.
LEMMA GotoGood ==
  ASSUME Inv, [Next]_vars, NEW r \in Requests, call[r].pc # "idle",
         NEW pc \in {"issueTokens", "insert", "complete"}, Goto(r, pc),
         pc = "insert" => call[r].pc = "findSerial",
         pc = "complete" => \E i \in inverters' : i.owner = call[r].user
  PROVE  call' \in [Requests -> Call] /\ GoodCalls'
<1>1. call[r] \in Call /\ GoodCall(call[r])
  BY DEF Inv, TypeOK, GoodCalls
<1>2. PICK c \in Call : c = [call[r] EXCEPT !.pc = pc]
  BY <1>1 DEF Call
<1>3. c.pc = pc /\ c.user = call[r].user /\ c.serial = call[r].serial
  BY <1>1, <1>2 DEF Call
<1>4. c.user \in Users
  BY DEF Call
<1>5. Known(c.user)'
  BY <1>1, <1>3, <1>4, UsersStep DEF GoodCall, Evolves
<1>6. pc = "insert" => c.serial \in Serials
  BY <1>1, <1>3 DEF GoodCall
<1>7. pc = "complete" => Owns(c.user)'
  BY <1>3 DEF Owns
<1>8. GoodCall(c)'
  BY <1>3, <1>5, <1>6, <1>7 DEF GoodCall
<1>9. call' = [call EXCEPT ![r] = c]
  BY <1>2 DEF Goto, Inv, TypeOK
<1> QED
  BY <1>8, <1>9, NewCallGood

LEMMA CallStep ==
  ASSUME Inv, [Next]_vars
  PROVE  call' \in [Requests -> Call] /\ GoodCalls'
<1> DEFINE Goal == call' \in [Requests -> Call] /\ GoodCalls'
<1>0. \A u \in Users : Known(u) => Known(u)'
  BY UsersStep DEF Evolves
<1>1. CASE UNCHANGED call
  <2>1. \A q \in Requests : call[q] \in Call /\ GoodCall(call[q])
    BY DEF Inv, TypeOK, GoodCalls
  <2>2. \A q \in Requests : GoodCall(call[q])'
    <3> SUFFICES ASSUME NEW q \in Requests PROVE GoodCall(call[q])'
      OBVIOUS
    <3>1. PICK d \in Call : d = call[q] /\ GoodCall(d)
      BY <2>1
    <3>2. GoodCall(d)'
      BY <3>1, GoodCallsStayGood
    <3> QED
      BY <1>1, <3>1, <3>2 DEF GoodCall, Known, Live, Owns
  <2> QED
    BY <1>1, <2>2 DEF Inv, TypeOK, GoodCalls
<1>2. ASSUME NEW r \in Requests,
             Fail(r) \/ IssueTokens(r) \/ CompleteOnboarding(r) \/ Deactivate(r)
      PROVE  Goal
  BY <1>2, FinishGood DEF Fail, IssueTokens, CompleteOnboarding, Deactivate
<1>3. ASSUME NEW r \in Requests, MarkVerified(r) PROVE Goal
  <2>1. call[r].pc # "idle" /\ Goto(r, "issueTokens")
    BY <1>3 DEF MarkVerified
  <2> QED
    BY <2>1, GotoGood
<1>4. ASSUME NEW r \in Requests, FindSerial(r) PROVE Goal
  <2>1. CASE SerialKnown(call[r].serial)
    BY <1>4, <2>1, FinishGood DEF FindSerial
  <2>2. CASE ~SerialKnown(call[r].serial)
    <3>1. call[r].pc = "findSerial" /\ Goto(r, "insert")
      BY <1>4, <2>2 DEF FindSerial
    <3> QED
      BY <3>1, GotoGood
  <2> QED
    BY <2>1, <2>2
<1>5. ASSUME NEW r \in Requests, InsertInverter(r) PROVE Goal
  <2>1. CASE Finish(r)
    BY <2>1, FinishGood
  <2>2. CASE ~Finish(r)
    <3>1. call[r].pc = "insert" /\ Goto(r, "complete")
      BY <1>5, <2>2 DEF InsertInverter
    <3>2. [serial |-> call[r].serial, owner |-> call[r].user, active |-> TRUE] \in inverters'
      BY <1>5, <2>2 DEF InsertInverter
    <3>3. \E i \in inverters' : i.owner = call[r].user
      BY <3>2
    <3> QED
      BY <3>1, <3>3, GotoGood
  <2> QED
    BY <2>1, <2>2
<1>6. ASSUME NEW r \in Requests, NEW u \in Users,
             BeginVerify(r, u) \/ BeginLogin(r, u)
      PROVE  Goal
  <2>1. Known(u)'
    BY <1>0, <1>6 DEF BeginVerify, BeginLogin, Live, Known
  <2> QED
    BY <1>6, <2>1, BeginGood DEF BeginVerify, BeginLogin
<1>7. ASSUME NEW r \in Requests, NEW u \in Users, GoogleSignIn(r, u) PROVE Goal
  <2>1. Known(u)'
    <3>1. CASE Live(u)
      BY <1>0, <3>1 DEF Live, Known
    <3>2. CASE ~Live(u)
      BY <1>7, <3>2 DEF GoogleSignIn, NewUser, Known, Inv, TypeOK
    <3> QED
      BY <3>1, <3>2
  <2> QED
    BY <1>7, <2>1, BeginGood DEF GoogleSignIn
<1>8. ASSUME NEW r \in Requests, NEW u \in Users, NEW s \in Serials,
             NEW via \in {"onboard", "connect"}, BeginConnect(r, u, s, via)
      PROVE  Goal
  <2>1. Known(u)'
    BY <1>0, <1>8 DEF BeginConnect, Inv, TokensKnown
  <2> QED
    BY <1>8, <2>1, BeginGood DEF BeginConnect
<1>9. ASSUME NEW r \in Requests, NEW i \in inverters, BeginDeactivate(r, i) PROVE Goal
  <2>1. i.owner \in Users /\ i.serial \in Serials
    BY DEF Inv, TypeOK, Inverter
  <2>2. Known(i.owner)
    BY <1>9, <2>1 DEF BeginDeactivate, Inv, TokensKnown
  <2>3. PICK u \in Users : u = i.owner
    BY <2>1
  <2>4. Known(u)'
    BY <1>0, <2>2, <2>3
  <2>5. Begin(r, u, "deactivate", i.serial, "connect")
    BY <1>9, <2>3 DEF BeginDeactivate
  <2> QED
    BY <2>1, <2>4, <2>5, BeginGood
<1> QED
  BY <1>1, <1>2, <1>3, <1>4, <1>5, <1>6, <1>7, <1>8, <1>9
  DEF Next, Handle, Register, RemoveUser, ExpireAccessTokens, vars

LEMMA AccessStep ==
  ASSUME Inv, [Next]_vars
  PROVE  access' \subseteq Users /\ TokensKnown'
<1>1. access \subseteq Users /\ \A u \in access : Known(u)'
  BY UsersStep DEF Inv, TypeOK, TokensKnown, Evolves
<1>2. CASE access' \subseteq access
  BY <1>1, <1>2 DEF TokensKnown, Known
<1>3. ASSUME NEW r \in Requests, IssueTokens(r) PROVE access' \subseteq Users /\ TokensKnown'
  <2>1. call[r].user \in Users /\ Known(call[r].user)
    BY <1>3, Locals DEF IssueTokens, Inv, GoodCalls, GoodCall
  <2>2. access' = access \cup {call[r].user} /\ users' = users
    BY <1>3 DEF IssueTokens
  <2> QED
    BY <1>1, <2>1, <2>2 DEF TokensKnown, Known
<1> QED
  BY <1>2, <1>3
  DEF Next, Handle, MarkVerified, FindSerial, InsertInverter, CompleteOnboarding, Deactivate,
      Fail, BeginVerify, GoogleSignIn, BeginLogin, BeginConnect, BeginDeactivate, Register,
      RemoveUser, ExpireAccessTokens, vars

-----------------------------------------------------------------------------
LEMMA Preserved ==
  ASSUME Inv, [Next]_vars
  PROVE  Inv'
<1>1. TypeOK'
  BY UsersStep, InvertersStep, AccessStep, CallStep DEF RowsStep, TypeOK
<1>2. NoneIncomplete'
  BY UsersStep DEF Evolves, NoneIncomplete
<1>3. CompleteHasInverter'
  <2> SUFFICES ASSUME NEW u \in Users, Live(u)', users'[u].complete PROVE Owns(u)'
    BY DEF CompleteHasInverter
  <2>1. Evolves(u)
    BY UsersStep
  <2>2. users[u].complete => Live(u)
    BY <2>1 DEF Evolves, Inv, NoneIncomplete
  <2>3. Owns(u)
    BY <2>1, <2>2 DEF Evolves, Inv, CompleteHasInverter
  <2> QED
    BY <2>3, InvertersStep DEF RowsStep
<1> QED
  BY <1>1, <1>2, <1>3, InvertersStep, AccessStep, CallStep DEF Inv, RowsStep

LEMMA Invariant == Spec => []Inv
<1>1. Init => Inv
  BY IdleIsGood
  DEF Init, Inv, TypeOK, GoodCalls, GoodCall, NoneIncomplete, TokensKnown,
      SerialConnectedOnce, CompleteHasInverter, User
<1>2. Inv /\ [Next]_vars => Inv'
  BY Preserved
<1> QED
  BY <1>1, <1>2, PTL DEF Spec

\* Users, inverters, tokens and requests stay in their types.
THEOREM TypeInvariant == Spec => []TypeOK
<1>1. Inv => TypeOK
  BY DEF Inv
<1> QED
  BY <1>1, Invariant, PTL

\* One installation is connected to one account (persistInverter).
THEOREM SerialTheorem == Spec => []SerialConnectedOnce
<1>1. Inv => SerialConnectedOnce
  BY DEF Inv
<1> QED
  BY <1>1, Invariant, PTL

\* Whoever has completed onboarding owns an inverter (connectUserInverter).
THEOREM CompleteTheorem == Spec => []CompleteHasInverter
<1>1. Inv => CompleteHasInverter
  BY DEF Inv
<1> QED
  BY <1>1, Invariant, PTL

\* Completed onboarding is never undone (setEmailVerified, upsertByGoogle).
THEOREM FinalTheorem == Spec => OnboardingIsFinal
<1>1. Inv /\ [Next]_vars =>
        [\A u \in Users : users[u].complete => users'[u].complete]_vars
  BY UsersStep DEF Evolves
<1> QED
  BY <1>1, Invariant, PTL DEF Spec, OnboardingIsFinal

-----------------------------------------------------------------------------
(* Onboarding implements Registry                                          *)

Holders == [s \in Serials |-> HoldersOf(s)]
Working == {i.serial : i \in {j \in inverters : j.active}}
Left    == {u \in Users : OwnerGone(u)}

\* Who holds an installation and whether it works, row by row.
LEMMA RegistryOfRows ==
  ASSUME NEW s \in Serials
  PROVE  /\ \A u : u \in Holders[s] <=> \E i \in inverters : i.serial = s /\ i.owner = u
         /\ s \in Working <=> \E i \in inverters : i.serial = s /\ i.active
  BY DEF Holders, HoldersOf, Working

LEMMA RegistryOfNewRows ==
  ASSUME NEW s \in Serials
  PROVE  /\ \A u : u \in Holders'[s] <=> \E i \in inverters' : i.serial = s /\ i.owner = u
         /\ s \in Working' <=> \E i \in inverters' : i.serial = s /\ i.active
  BY DEF Holders, HoldersOf, Working

LEMMA RegistryTypes ==
  ASSUME Inv, [Next]_vars
  PROVE  Working \subseteq Serials /\ Working' \subseteq Serials
  BY InvertersStep DEF Inv, TypeOK, RowsStep, Inverter, Working

\* An account leaves by RemoveUser only, and for good.
LEMMA OnlyRemovalLeaves ==
  ASSUME Inv, [Next]_vars, \A u \in Users : ~RemoveUser(u)
  PROVE  Left' = Left
<1> DEFINE Goal == \A v \in Users : users'[v].status = "removed" <=> users[v].status = "removed"
<1> USE DEF Inv, TypeOK
<1>1. ASSUME NEW u \in Users, NEW new, users' = [users EXCEPT ![u] = new],
             new.status # "removed", users[u].status # "removed"
      PROVE  Goal
  BY <1>1
<1>2. \A u \in Users : VerifiedUser(u).status = users[u].status
  BY DEF VerifiedUser, User
<1>3. \A v \in BOOLEAN : NewUser(v).status = "live"
  BY DEF NewUser
<1>4. ASSUME users' = users PROVE Goal
  <2>1. \A v \in Users : users'[v] = users[v]
    BY <1>4
  <2> QED
    BY <2>1
<1>5. ASSUME NEW r \in Requests, MarkVerified(r) PROVE Goal
  <2>1. PICK u \in Users : u = call[r].user
    BY Locals
  <2>2. PICK new : new = [[users[u] EXCEPT !.verified = TRUE] EXCEPT !.step = 2]
    OBVIOUS
  <2>3. new.status = users[u].status
    BY <2>2, MarkedRow
  <2>4. users' = users \/ (Live(u) /\ users' = [users EXCEPT ![u] = new])
    BY <1>5, <2>1, <2>2 DEF MarkVerified, VerifiedUser
  <2> QED
    BY <1>1, <1>4, <2>3, <2>4 DEF Live
<1>6. ASSUME NEW r \in Requests, CompleteOnboarding(r) PROVE Goal
  <2>1. PICK u \in Users : u = call[r].user
    BY Locals
  <2>2. PICK new : new = [users[u] EXCEPT !.step = 3, !.complete = TRUE]
    OBVIOUS
  <2>3. new.status = users[u].status
    BY <2>2, CompletedRow
  <2>4. users' = users \/ (Live(u) /\ users' = [users EXCEPT ![u] = new])
    BY <1>6, <2>1, <2>2 DEF CompleteOnboarding
  <2> QED
    BY <1>1, <1>4, <2>3, <2>4 DEF Live
<1>7. ASSUME NEW r \in Requests, NEW u \in Users, GoogleSignIn(r, u) PROVE Goal
  BY <1>1, <1>2, <1>3, <1>7 DEF GoogleSignIn, Live
<1>8. ASSUME NEW u \in Users, Register(u) PROVE Goal
  BY <1>1, <1>3, <1>8 DEF Register
<1>9. Goal
  BY <1>4, <1>5, <1>6, <1>7, <1>8
  DEF Next, Handle, IssueTokens, FindSerial, InsertInverter, Deactivate, Fail,
      BeginVerify, BeginLogin, BeginConnect, BeginDeactivate, ExpireAccessTokens, vars
<1> QED
  BY <1>9 DEF Left, OwnerGone

\* A row that is inserted claims an installation nobody holds.
LEMMA InsertClaims ==
  ASSUME Inv, [Next]_vars, NEW r \in Requests, InsertInverter(r), ~UNCHANGED inverters
  PROVE  \E s \in Serials, u \in Users : R!Claim(s, u)
<1>1. PICK s \in Serials, u \in Users : s = call[r].serial /\ u = call[r].user
  BY Locals DEF InsertInverter, Inv, GoodCalls, GoodCall
<1> DEFINE row == [serial |-> s, owner |-> u, active |-> TRUE]
<1>2. /\ ~SerialTaken(s) /\ ~OwnerGone(u) /\ inverters' = inverters \cup {row}
      /\ UNCHANGED users
  BY <1>1 DEF InsertInverter
<1>3. row.serial = s /\ row.owner = u /\ row.active
  OBVIOUS
<1> HIDE DEF row
<1>4. \A i \in inverters : i.serial # s
  BY <1>2 DEF SerialTaken
<1>5. Holders[s] = {} /\ u \notin Left /\ Left' = Left
  BY <1>2, <1>4, RegistryOfRows DEF Left, OwnerGone
<1>6. Holders' = [Holders EXCEPT ![s] = {u}]
  <2>1. Holders'[s] = {u}
    BY <1>2, <1>3, <1>4, RegistryOfNewRows
  <2>2. ASSUME NEW t \in Serials, t # s PROVE Holders'[t] = Holders[t]
    <3>1. \A v : v \in Holders'[t] <=> v \in Holders[t]
      BY <1>2, <1>3, <2>2, RegistryOfRows, RegistryOfNewRows
    <3> QED
      BY <3>1
  <2> QED
    BY <2>1, <2>2 DEF Holders
<1>7. Working' = Working \cup {s}
  BY <1>2, <1>3, RegistryTypes, RegistryOfRows, RegistryOfNewRows
<1> QED
  BY <1>5, <1>6, <1>7 DEF R!Claim, Holders, Working, Left

\* Deactivating changes no owner, and one installation at most stops working.
LEMMA DeactivationSuspends ==
  ASSUME Inv, [Next]_vars, NEW r \in Requests, Deactivate(r)
  PROVE  UNCHANGED Holders /\ \/ UNCHANGED Working
                              \/ /\ call[r].serial \in Working
                                 /\ Working' = Working \ {call[r].serial}
<1> DEFINE hit(i) == i.serial = call[r].serial /\ i.owner = call[r].user
           new(i) == IF hit(i) THEN [i EXCEPT !.active = FALSE] ELSE i
<1>1. \A i \in inverters : /\ new(i).serial = i.serial /\ new(i).owner = i.owner
                           /\ new(i).active <=> i.active /\ ~hit(i)
  BY DEF Inv, TypeOK, Inverter
<1>2. inverters' = {new(i) : i \in inverters}
  BY DEF Deactivate
<1> HIDE DEF new
<1>3. ASSUME NEW s \in Serials PROVE Holders'[s] = Holders[s]
  <2>1. \A v : v \in Holders'[s] <=> v \in Holders[s]
    BY <1>1, <1>2, RegistryOfRows, RegistryOfNewRows
  <2> QED
    BY <2>1
<1>4. UNCHANGED Holders
  BY <1>3 DEF Holders
<1>5. \A s \in Serials :
        s \in Working' <=> \E i \in inverters : i.serial = s /\ i.active /\ ~hit(i)
  BY <1>1, <1>2, RegistryOfNewRows
<1>6. CASE \E i \in inverters : hit(i) /\ i.active
  <2>1. PICK a \in inverters : hit(a) /\ a.active
    BY <1>6
  <2>2. a.serial = call[r].serial /\ a.serial \in Serials /\ a.serial \in Working
    BY <2>1, RegistryOfRows DEF Inv, TypeOK, Inverter
  <2>3. \A i \in inverters : i.serial = a.serial => i = a
    BY DEF Inv, SerialConnectedOnce
  <2>4. \A s \in Serials : s \in Working' <=> s \in Working /\ s # a.serial
    BY <1>5, <2>1, <2>2, <2>3, RegistryOfRows
  <2> QED
    BY <1>4, <2>2, <2>4, RegistryTypes
<1>7. CASE \A i \in inverters : ~(hit(i) /\ i.active)
  <2>1. \A s \in Serials : s \in Working' <=> s \in Working
    BY <1>5, <1>7, RegistryOfRows
  <2> QED
    BY <1>4, <2>1, RegistryTypes
<1> QED
  BY <1>6, <1>7

\* A deleted account leaves with its installations; one that is only marked
\* deleted leaves nothing.
LEMMA RemovalLeaves ==
  ASSUME Inv, [Next]_vars, NEW u \in Users, RemoveUser(u)
  PROVE  R!Leave(u) \/ UNCHANGED <<Holders, Working, Left>>
<1>1. \A v \in Users : users'[v].status = "removed" <=> users[v].status = "removed" \/ v = u
  BY DEF RemoveUser, Inv, TypeOK, User
<1>2. CASE SoftDelete
  BY <1>2 DEF RemoveUser, Holders, HoldersOf, Working, Left, OwnerGone
<1>3. CASE ~SoftDelete
  <2>1. inverters' = {i \in inverters : i.owner # u}
    BY <1>3 DEF RemoveUser
  <2>2. u \notin Left /\ Left' = Left \cup {u}
    BY <1>1, <1>3 DEF RemoveUser, Live, Left, OwnerGone
  <2>3. ASSUME NEW s \in Serials PROVE Holders'[s] = Holders[s] \ {u}
    BY <2>1, RegistryOfRows, RegistryOfNewRows
  <2>4. Holders' = [s \in Serials |-> Holders[s] \ {u}]
    BY <2>3 DEF Holders
  <2>5. ASSUME NEW s \in Serials PROVE s \in Working' <=> s \in Working /\ u \notin Holders[s]
    BY <2>1, RegistryOfRows, RegistryOfNewRows DEF Inv, SerialConnectedOnce
  <2>6. Working' = {s \in Working : u \notin Holders[s]}
    BY <2>5, RegistryTypes
  <2> QED
    BY <2>2, <2>4, <2>6 DEF R!Leave, Holders, Working, Left
<1> QED
  BY <1>2, <1>3

LEMMA RegistryStep == Inv /\ [Next]_vars => [R!Next]_(R!registryVars)
<1> SUFFICES ASSUME Inv, [Next]_vars PROVE [R!Next]_(R!registryVars)
  OBVIOUS
<1>0. /\ R!registryVars = <<Holders, Working, Left>>
      /\ R!registryVars' = <<Holders', Working', Left'>>
  BY DEF R!registryVars, Holders, Working, Left
<1>1. ASSUME NEW u \in Users, RemoveUser(u) PROVE [R!Next]_(R!registryVars)
  BY <1>0, <1>1, RemovalLeaves DEF R!Next
<1>2. CASE \A u \in Users : ~RemoveUser(u)
  <2>0. Left' = Left
    BY <1>2, OnlyRemovalLeaves
  <2>1. CASE UNCHANGED inverters
    BY <1>0, <2>0, <2>1 DEF Holders, HoldersOf, Working
  <2>2. ASSUME NEW r \in Requests, InsertInverter(r) PROVE [R!Next]_(R!registryVars)
    BY <2>1, <2>2, InsertClaims DEF R!Next
  <2>3. ASSUME NEW r \in Requests, Deactivate(r) PROVE [R!Next]_(R!registryVars)
    <3>1. CASE UNCHANGED <<Holders, Working>>
      BY <1>0, <2>0, <3>1
    <3>2. CASE UNCHANGED Holders /\ \E s \in Working : Working' = Working \ {s}
      <4>1. PICK s \in Serials : s \in Working /\ Working' = Working \ {s}
        BY <3>2, RegistryTypes
      <4>2. R!Suspend(s)
        BY <2>0, <3>2, <4>1 DEF R!Suspend, Holders, Working, Left
      <4> QED
        BY <4>2 DEF R!Next
    <3> QED
      BY <2>3, <3>1, <3>2, DeactivationSuspends
  <2> QED
    BY <1>2, <2>1, <2>2, <2>3
    DEF Next, Handle, MarkVerified, IssueTokens, FindSerial, CompleteOnboarding, Fail,
        BeginVerify, GoogleSignIn, BeginLogin, BeginConnect, BeginDeactivate, Register,
        ExpireAccessTokens, vars
<1> QED
  BY <1>1, <1>2

\* An installation that was connected is its owner's until the owner's row is
\* deleted, and deleted owners connect nothing: the inverters table implements
\* Registry (persistInverter, deactivateInverter, remove).
THEOREM RegistryTheorem == Spec => ImplementsRegistry
<1>1. Init => R!Init
  BY DEF Init, R!Init, HoldersOf, OwnerGone
<1>2. Inv /\ [Next]_vars => [R!Next]_(R!registryVars)
  BY RegistryStep
<1> QED
  BY <1>1, <1>2, Invariant, PTL DEF Spec, ImplementsRegistry, R!Spec
=============================================================================
