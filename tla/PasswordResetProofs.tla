------------------------ MODULE PasswordResetProofs ------------------------
(* Theorems about PasswordReset, for every set of addresses, links,        *)
(* passwords and requests.                                                 *)
EXTENDS PasswordReset, TLAPS

\* The bound on registrations leaves room for the next one.
Room == \A e \in Emails : users[e].live \/ users[e].id < MaxAccounts

\* What a request has seen of an account stays true of it while it lives.
SeenVerified(e, id) == id <= users[e].id /\ (IsRow(e, id) => users[e].verified)

MailSteps == {"storeLink", "findUser", "checkUser", "writePassword", "mailNotice", "dropLink"}

\* What a request stands for where it stands.
GoodCall(c) ==
    /\ c.pc # "idle" => c.link \in Links
    /\ c.pc \in {"findUser", "checkUser", "writePassword"} => c.password \in Passwords
    /\ c.pc \in MailSteps => Mail(c.email, c.link) \in outbox
    /\ c.pc \in {"mailNotice", "dropLink"} => c.link \in used
    /\ c.pc \in {"checkUser", "writePassword"} => SeenVerified(c.email, c.id)

GoodCalls == \A r \in Requests : GoodCall(call[r])

Inv == TypeOK /\ Room /\ GoodCalls /\ StoredLinksWereMailed

LEMMA IdleIsGood == Idle \in Call /\ Idle.pc = "idle"
  BY EmailsAssumption, MaxAccountsAssumption DEF Idle, Call

LEMMA Locals ==
  ASSUME TypeOK, NEW r \in Requests
  PROVE  /\ call[r] \in Call
         /\ call[r].email \in Emails
         /\ users[call[r].email] \in Account
  BY DEF TypeOK, Call

-----------------------------------------------------------------------------
(* Each variable by itself: the rows only evolve, the histories only grow. *)

EvolvesFrom(old, new) ==
    /\ old.id <= new.id
    /\ new.live /\ new.id = old.id => old.live /\ (old.verified => new.verified)

LEMMA RowUpdate ==
  ASSUME Inv, NEW e \in Emails, NEW a \in Account, users' = [users EXCEPT ![e] = a],
         a.live \/ a.id < MaxAccounts, EvolvesFrom(users[e], a)
  PROVE  /\ users' \in [Emails -> Account]
         /\ Room'
         /\ \A f \in Emails : EvolvesFrom(users[f], users'[f])
<1>1. users' \in [Emails -> Account]
  BY DEF Inv, TypeOK
<1>2. users'[e] = a /\ \A f \in Emails \ {e} : users'[f] = users[f]
  BY DEF Inv, TypeOK
<1>3. Room'
  BY <1>2 DEF Inv, Room
<1>4. \A f \in Emails : users[f].id \in Nat
  BY MaxAccountsAssumption DEF Inv, TypeOK, Account
<1>5. \A f \in Emails : EvolvesFrom(users[f], users'[f])
  BY <1>2, <1>4 DEF EvolvesFrom
<1> QED
  BY <1>1, <1>3, <1>5

LEMMA UsersStep ==
  ASSUME Inv, [Next]_vars
  PROVE  /\ users' \in [Emails -> Account]
         /\ Room'
         /\ \A e \in Emails : EvolvesFrom(users[e], users'[e])
<1> DEFINE Goal == /\ users' \in [Emails -> Account]
                   /\ Room'
                   /\ \A e \in Emails : EvolvesFrom(users[e], users'[e])
<1>row. \A e \in Emails : users[e] \in Account
  BY DEF Inv, TypeOK
<1>1. CASE UNCHANGED users
  BY <1>1, <1>row DEF Inv, TypeOK, Room, EvolvesFrom, Account
<1>2. ASSUME NEW r \in Requests, WritePassword(r) PROVE Goal
  <2> DEFINE e == call[r].email
             a == [users[e] EXCEPT !.password = call[r].password]
  <2>1. e \in Emails /\ call[r].password \in Passwords
    BY <1>2, Locals DEF WritePassword, GoodCalls, GoodCall, Inv
  <2>2. CASE IsRow(e, call[r].id)
    <3>1. /\ a \in Account /\ a.id = users[e].id /\ a.live = users[e].live
          /\ a.verified = users[e].verified /\ a.id \in Nat
      BY <2>1, <1>row DEF Account
    <3>2. users' = [users EXCEPT ![e] = a] /\ users[e].live
      BY <1>2, <2>2 DEF WritePassword, IsRow
    <3>3. EvolvesFrom(users[e], a)
      BY <3>1 DEF EvolvesFrom
    <3> QED
      BY <2>1, <3>1, <3>2, <3>3, RowUpdate
  <2>3. CASE ~IsRow(e, call[r].id)
    BY <1>1, <1>2, <2>3 DEF WritePassword
  <2> QED
    BY <2>2, <2>3
<1>3. ASSUME NEW e \in Emails, NEW verified \in BOOLEAN, CreateAccount(e, verified) PROVE Goal
  <2> DEFINE a == [id |-> users[e].id + 1, live |-> TRUE, verified |-> verified,
                   password |-> NoPassword]
  <2>1. users[e].id \in Nat /\ users[e].id < MaxAccounts
    BY <1>3, <1>row DEF CreateAccount, Account, Inv, Room
  <2>2. a \in Account /\ a.live /\ EvolvesFrom(users[e], a)
    BY <2>1, MaxAccountsAssumption DEF Account, EvolvesFrom
  <2>3. users' = [users EXCEPT ![e] = a]
    BY <1>3 DEF CreateAccount
  <2> HIDE DEF a
  <2> QED
    BY <2>2, <2>3, RowUpdate
<1>4. ASSUME NEW e \in Emails, VerifyAccount(e) PROVE Goal
  <2> DEFINE a == [users[e] EXCEPT !.verified = TRUE]
  <2>1. /\ a \in Account /\ a.id = users[e].id /\ a.verified = TRUE
        /\ a.live = users[e].live
    BY <1>row DEF Account
  <2>id. users[e].id \in Nat
    BY <1>row DEF Account
  <2>2. users' = [users EXCEPT ![e] = a] /\ users[e].live
    BY <1>4 DEF VerifyAccount
  <2> HIDE DEF a
  <2>3. EvolvesFrom(users[e], a)
    BY <2>1, <2>id DEF EvolvesFrom
  <2> QED
    BY <2>1, <2>2, <2>3, RowUpdate
<1>5. ASSUME NEW e \in Emails, RemoveUser(e) PROVE Goal
  <2> DEFINE a == [users[e] EXCEPT !.live = FALSE]
  <2>1. a \in Account /\ a.id = users[e].id /\ a.live = FALSE
    BY <1>row DEF Account
  <2>id. users[e].id \in Nat
    BY <1>row DEF Account
  <2>2. users' = [users EXCEPT ![e] = a] /\ users[e].id < MaxAccounts
    BY <1>5 DEF RemoveUser
  <2> HIDE DEF a
  <2>3. EvolvesFrom(users[e], a)
    BY <2>1, <2>id DEF EvolvesFrom
  <2> QED
    BY <2>1, <2>2, <2>3, RowUpdate
<1> QED
  BY <1>1, <1>2, <1>3, <1>4, <1>5
  DEF Next, Handle, BeginForgot, BeginReset, MailLink, StoreLink, FindUser, CheckUser,
      MailNotice, DropLink, Fail, ExpireLink, store, vars

LEMMA OutboxStep ==
  ASSUME Inv, [Next]_vars
  PROVE  outbox' \subseteq [to : Emails, link : Links] /\ outbox \subseteq outbox'
<1> USE DEF Inv, TypeOK
<1>1. CASE UNCHANGED outbox
  BY <1>1
<1>2. ASSUME NEW r \in Requests, MailLink(r)
      PROVE  outbox' \subseteq [to : Emails, link : Links] /\ outbox \subseteq outbox'
  <2>1. call[r].link \in Links /\ call[r].email \in Emails
    BY <1>2, Locals DEF MailLink, GoodCalls, GoodCall
  <2> QED
    BY <1>2, <2>1 DEF MailLink, Mail
<1> QED
  BY <1>1, <1>2
  DEF Next, Handle, BeginForgot, BeginReset, StoreLink, FindUser, CheckUser, WritePassword,
      MailNotice, DropLink, Fail, ExpireLink, CreateAccount, VerifyAccount, RemoveUser,
      store, vars

LEMMA UsedStep ==
  ASSUME Inv, [Next]_vars
  PROVE  used' \subseteq Links /\ used \subseteq used'
<1> USE DEF Inv, TypeOK
<1>1. CASE UNCHANGED used
  BY <1>1
<1>2. ASSUME NEW r \in Requests, WritePassword(r)
      PROVE  used' \subseteq Links /\ used \subseteq used'
  BY <1>2 DEF WritePassword, GoodCalls, GoodCall
<1> QED
  BY <1>1, <1>2
  DEF Next, Handle, BeginForgot, BeginReset, MailLink, StoreLink, FindUser, CheckUser,
      MailNotice, DropLink, Fail, ExpireLink, CreateAccount, VerifyAccount, RemoveUser,
      vars

LEMMA TokenStep ==
  ASSUME Inv, [Next]_vars
  PROVE  /\ token' \in [Emails -> Links \cup {NoLink}]
         /\ StoredLinksWereMailed'
<1> USE DEF Inv, TypeOK, StoredLinksWereMailed
<1>1. outbox \subseteq outbox'
  BY OutboxStep
<1>2. CASE UNCHANGED token
  BY <1>1, <1>2 DEF Mail
<1>3. ASSUME NEW r \in Requests, StoreLink(r)
      PROVE  /\ token' \in [Emails -> Links \cup {NoLink}]
             /\ StoredLinksWereMailed'
  <2>1. /\ call[r].email \in Emails /\ call[r].link \in Links
        /\ Mail(call[r].email, call[r].link) \in outbox
    BY <1>3, Locals DEF StoreLink, GoodCalls, GoodCall, MailSteps
  <2> QED
    BY <1>1, <1>3, <2>1 DEF StoreLink
<1>4. ASSUME NEW e \in Emails, token' = [token EXCEPT ![e] = NoLink]
      PROVE  /\ token' \in [Emails -> Links \cup {NoLink}]
             /\ StoredLinksWereMailed'
  BY <1>1, <1>4 DEF Mail
<1>5. ASSUME NEW r \in Requests, DropLink(r)
      PROVE  /\ call[r].email \in Emails
             /\ token' = [token EXCEPT ![call[r].email] = NoLink]
  BY <1>5, Locals DEF DropLink
<1>6. ASSUME NEW e \in Emails, ExpireLink(e)
      PROVE  token' = [token EXCEPT ![e] = NoLink]
  BY <1>6 DEF ExpireLink
<1> QED
  BY <1>2, <1>3, <1>4, <1>5, <1>6
  DEF Next, Handle, BeginForgot, BeginReset, MailLink, FindUser, CheckUser, WritePassword,
      MailNotice, Fail, CreateAccount, VerifyAccount, RemoveUser, store, vars

-----------------------------------------------------------------------------
(* Requests: what was good stays good, and what a step puts down is good.  *)

LEMMA GoodCallsStayGood ==
  ASSUME Inv, [Next]_vars
  PROVE  \A c \in Call : GoodCall(c) => GoodCall(c)'
<1> SUFFICES ASSUME NEW c \in Call, GoodCall(c) PROVE GoodCall(c)'
  OBVIOUS
<1>1. c.email \in Emails /\ c.id \in Nat
  BY DEF Call
<1>2. EvolvesFrom(users[c.email], users'[c.email])
  BY <1>1, UsersStep
<1>3. users[c.email] \in Account /\ users'[c.email] \in Account
  BY <1>1, UsersStep DEF Inv, TypeOK
<1>4. SeenVerified(c.email, c.id) => SeenVerified(c.email, c.id)'
  BY <1>1, <1>2, <1>3 DEF SeenVerified, IsRow, EvolvesFrom, Account
<1>5. outbox \subseteq outbox' /\ used \subseteq used'
  BY OutboxStep, UsedStep
<1> QED
  BY <1>4, <1>5 DEF GoodCall, Mail

\* It is enough to look at the one request a step moves, in the new state.
LEMMA NewCallGood ==
  ASSUME Inv, [Next]_vars, NEW r \in Requests, NEW c \in Call, GoodCall(c)',
         call' = [call EXCEPT ![r] = c]
  PROVE  call' \in [Requests -> Call] /\ GoodCalls'
<1>1. \A q \in Requests : call'[q] = IF q = r THEN c ELSE call[q]
  BY DEF Inv, TypeOK
<1>2. \A q \in Requests : call[q] \in Call /\ GoodCall(call[q])
  BY DEF Inv, TypeOK, GoodCalls
<1>3. \A q \in Requests : call'[q] \in Call /\ GoodCall(call[q])'
  BY <1>1, <1>2, GoodCallsStayGood DEF GoodCall, SeenVerified, IsRow
<1>4. call' \in [Requests -> Call]
  BY <1>1, <1>3 DEF Inv, TypeOK
<1> QED
  BY <1>1, <1>3, <1>4 DEF GoodCalls, GoodCall, SeenVerified, IsRow

LEMMA FinishGood ==
  ASSUME Inv, [Next]_vars, NEW r \in Requests, Finish(r)
  PROVE  call' \in [Requests -> Call] /\ GoodCalls'
<1>1. GoodCall(Idle)'
  BY IdleIsGood DEF GoodCall, MailSteps
<1> QED
  BY <1>1, IdleIsGood, NewCallGood DEF Finish

\* A request moves to pc: its mail is out, and it has the grounds for pc.
MovesOn(r, pc, id) ==
    /\ call' = [call EXCEPT ![r].pc = pc, ![r].id = id]
    /\ call[r].pc # "idle"
    /\ Mail(call[r].email, call[r].link) \in outbox'
    /\ pc \in {"checkUser", "writePassword"} =>
          /\ call[r].pc \in {"findUser", "checkUser"}
          /\ SeenVerified(call[r].email, id)
    /\ pc \in {"mailNotice", "dropLink"} => call[r].link \in used'

LEMMA GotoGood ==
  ASSUME Inv, [Next]_vars, NEW r \in Requests, NEW id \in 0..MaxAccounts,
         NEW pc \in MailSteps \ {"findUser"}, MovesOn(r, pc, id)
  PROVE  call' \in [Requests -> Call] /\ GoodCalls'
<1> USE DEF MovesOn
<1>1. call[r] \in Call /\ GoodCall(call[r])
  BY DEF Inv, TypeOK, GoodCalls
<1>2. PICK c \in Call : c = [call[r] EXCEPT !.pc = pc, !.id = id]
  BY <1>1 DEF Call, MailSteps
<1>3. /\ c.pc = pc /\ c.id = id /\ c.email = call[r].email
      /\ c.link = call[r].link /\ c.password = call[r].password
  BY <1>1, <1>2 DEF Call
<1>4. c.link \in Links /\ Mail(c.email, c.link) \in outbox'
  BY <1>1, <1>3 DEF GoodCall
<1>5. pc \in {"checkUser", "writePassword"} => c.password \in Passwords
  BY <1>1, <1>3 DEF GoodCall
<1>6. pc \in {"checkUser", "writePassword"} => SeenVerified(c.email, c.id)'
  <2> SUFFICES ASSUME SeenVerified(c.email, c.id) PROVE SeenVerified(c.email, c.id)'
    BY <1>3
  <2>1. c.email \in Emails /\ c.id \in Nat
    BY DEF Call
  <2>2. EvolvesFrom(users[c.email], users'[c.email])
    BY <2>1, UsersStep
  <2>3. users[c.email] \in Account /\ users'[c.email] \in Account
    BY <2>1, UsersStep DEF Inv, TypeOK
  <2> QED
    BY <2>1, <2>2, <2>3 DEF SeenVerified, IsRow, EvolvesFrom, Account
<1>7. GoodCall(c)'
  BY <1>3, <1>4, <1>5, <1>6 DEF GoodCall, MailSteps
<1>8. call' = [call EXCEPT ![r] = c]
  BY <1>2 DEF Inv, TypeOK
<1> QED
  BY <1>7, <1>8, NewCallGood

LEMMA CallStep ==
  ASSUME Inv, [Next]_vars
  PROVE  call' \in [Requests -> Call] /\ GoodCalls'
<1> DEFINE Goal == call' \in [Requests -> Call] /\ GoodCalls'
<1>0. ASSUME NEW r \in Requests, call[r].pc \in MailSteps
      PROVE  Mail(call[r].email, call[r].link) \in outbox /\ call[r].id \in 0..MaxAccounts
  BY <1>0 DEF Inv, TypeOK, GoodCalls, GoodCall, Call
<1>1. ASSUME NEW r \in Requests, NEW e \in Emails, BeginForgot(r, e) PROVE Goal
  <2>1. PICK l \in Links : call' = [call EXCEPT ![r] = [Idle EXCEPT !.pc = "mailLink",
                                                        !.email = e, !.link = l]]
    BY <1>1 DEF BeginForgot
  <2>2. PICK c \in Call : c = [Idle EXCEPT !.pc = "mailLink", !.email = e, !.link = l]
    BY IdleIsGood DEF Call
  <2>3. c.pc = "mailLink" /\ c.link = l
    BY <2>2, IdleIsGood DEF Call
  <2>4. GoodCall(c)'
    BY <2>3 DEF GoodCall, MailSteps
  <2> QED
    BY <2>1, <2>2, <2>4, NewCallGood
<1>2. ASSUME NEW r \in Requests, NEW e \in Emails, NEW l \in Links, NEW p \in Passwords,
             BeginReset(r, e, l, p)
      PROVE  Goal
  <2>1. PICK c \in Call : c = [Idle EXCEPT !.pc = "findUser", !.email = e, !.link = l,
                                          !.password = p]
    BY IdleIsGood DEF Call
  <2>2. c.pc = "findUser" /\ c.email = e /\ c.link = l /\ c.password = p
    BY <2>1, IdleIsGood DEF Call
  <2>3. Mail(e, l) \in outbox'
    BY <1>2, OutboxStep, LinksAssumption
    DEF BeginReset, TokenMatches, Inv, StoredLinksWereMailed
  <2>4. GoodCall(c)'
    BY <2>2, <2>3 DEF GoodCall, MailSteps
  <2> QED
    BY <1>2, <2>1, <2>4, NewCallGood DEF BeginReset
<1>3. ASSUME NEW r \in Requests, MailLink(r) PROVE Goal
  <2>1. call' = [call EXCEPT ![r].pc = "storeLink", ![r].id = call[r].id]
    BY <1>3, Locals DEF MailLink, Goto, Inv, TypeOK, Call
  <2>2. Mail(call[r].email, call[r].link) \in outbox' /\ call[r].pc = "mailLink"
    BY <1>3 DEF MailLink
  <2>3. MovesOn(r, "storeLink", call[r].id)
    BY <2>1, <2>2 DEF MovesOn
  <2>4. call[r].id \in 0..MaxAccounts /\ "storeLink" \in MailSteps \ {"findUser"}
    BY Locals DEF Inv, Call, MailSteps
  <2> QED
    BY <2>3, <2>4, GotoGood
<1>4. ASSUME NEW r \in Requests, FindUser(r) PROVE Goal
  <2>1. CASE MayReset(call[r].email)
    <3>1. call' = [call EXCEPT ![r].pc = "checkUser", ![r].id = users[call[r].email].id]
      BY <1>4, <2>1 DEF FindUser
    <3>2. SeenVerified(call[r].email, users[call[r].email].id)
      BY <2>1, Locals DEF SeenVerified, MayReset, Account, Inv
    <3>3. users[call[r].email].id \in 0..MaxAccounts
      BY Locals DEF Account, Inv
    <3>4. call[r].pc = "findUser" /\ Mail(call[r].email, call[r].link) \in outbox'
      BY <1>4, <1>0, OutboxStep DEF FindUser, MailSteps
    <3>5. MovesOn(r, "checkUser", users[call[r].email].id)
      BY <3>1, <3>2, <3>4 DEF MovesOn
    <3>6. "checkUser" \in MailSteps \ {"findUser"}
      BY DEF MailSteps
    <3> QED
      BY <3>3, <3>5, <3>6, GotoGood
  <2>2. CASE ~MayReset(call[r].email)
    BY <1>4, <2>2, FinishGood DEF FindUser
  <2> QED
    BY <2>1, <2>2
<1>5. ASSUME NEW r \in Requests, CheckUser(r) PROVE Goal
  <2>1. CASE IsRow(call[r].email, call[r].id)
    <3>1. call' = [call EXCEPT ![r].pc = "writePassword", ![r].id = call[r].id]
      BY <1>5, <2>1, Locals DEF CheckUser, Goto, Inv, TypeOK, Call
    <3>2. call[r].pc = "checkUser" /\ SeenVerified(call[r].email, call[r].id)
      BY <1>5 DEF CheckUser, Inv, GoodCalls, GoodCall
    <3>3. Mail(call[r].email, call[r].link) \in outbox' /\ call[r].id \in 0..MaxAccounts
      BY <3>2, <1>0, OutboxStep DEF MailSteps
    <3>4. MovesOn(r, "writePassword", call[r].id)
      BY <3>1, <3>2, <3>3 DEF MovesOn
    <3>5. "writePassword" \in MailSteps \ {"findUser"}
      BY DEF MailSteps
    <3> QED
      BY <3>3, <3>4, <3>5, GotoGood
  <2>2. CASE ~IsRow(call[r].email, call[r].id)
    BY <1>5, <2>2, FinishGood DEF CheckUser
  <2> QED
    BY <2>1, <2>2
<1>6. ASSUME NEW r \in Requests, WritePassword(r) PROVE Goal
  <2>1. CASE IsRow(call[r].email, call[r].id)
    <3>1. /\ call' = [call EXCEPT ![r].pc = "mailNotice", ![r].id = call[r].id]
          /\ call[r].link \in used'
      BY <1>6, <2>1, Locals DEF WritePassword, Goto, Inv, TypeOK, Call
    <3>2. call[r].pc = "writePassword"
      BY <1>6 DEF WritePassword
    <3>3. Mail(call[r].email, call[r].link) \in outbox' /\ call[r].id \in 0..MaxAccounts
      BY <3>2, <1>0, OutboxStep DEF MailSteps
    <3>4. MovesOn(r, "mailNotice", call[r].id)
      BY <3>1, <3>2, <3>3 DEF MovesOn
    <3>5. "mailNotice" \in MailSteps \ {"findUser"}
      BY DEF MailSteps
    <3> QED
      BY <3>3, <3>4, <3>5, GotoGood
  <2>2. CASE ~IsRow(call[r].email, call[r].id)
    BY <1>6, <2>2, FinishGood DEF WritePassword
  <2> QED
    BY <2>1, <2>2
<1>7. ASSUME NEW r \in Requests, MailNotice(r) PROVE Goal
  <2>1. call' = [call EXCEPT ![r].pc = "dropLink", ![r].id = call[r].id]
    BY <1>7, Locals DEF MailNotice, Goto, Inv, TypeOK, Call
  <2>2. call[r].pc = "mailNotice" /\ call[r].link \in used'
    BY <1>7, UsedStep DEF MailNotice, Inv, GoodCalls, GoodCall
  <2>3. Mail(call[r].email, call[r].link) \in outbox' /\ call[r].id \in 0..MaxAccounts
    BY <2>2, <1>0, OutboxStep DEF MailSteps
  <2>4. MovesOn(r, "dropLink", call[r].id)
    BY <2>1, <2>2, <2>3 DEF MovesOn
  <2>5. "dropLink" \in MailSteps \ {"findUser"}
    BY DEF MailSteps
  <2> QED
    BY <2>3, <2>4, <2>5, GotoGood
<1>8. ASSUME NEW r \in Requests, StoreLink(r) \/ DropLink(r) \/ Fail(r) PROVE Goal
  BY <1>8, FinishGood DEF StoreLink, DropLink, Fail
<1>9. CASE UNCHANGED call
  BY <1>9, GoodCallsStayGood DEF Inv, TypeOK, GoodCalls, GoodCall, SeenVerified, IsRow
<1> QED
  BY <1>1, <1>2, <1>3, <1>4, <1>5, <1>6, <1>7, <1>8, <1>9
  DEF Next, Handle, ExpireLink, CreateAccount, VerifyAccount, RemoveUser, vars

-----------------------------------------------------------------------------
LEMMA Invariant == Spec => []Inv
<1>1. Init => Inv
  BY IdleIsGood, MaxAccountsAssumption
  DEF Init, Inv, TypeOK, Room, GoodCalls, GoodCall, MailSteps, StoredLinksWereMailed, Account
<1>2. Inv /\ [Next]_vars => Inv'
  BY UsersStep, OutboxStep, UsedStep, TokenStep, CallStep DEF Inv, TypeOK
<1> QED
  BY <1>1, <1>2, PTL DEF Spec

\* Accounts, tokens, mails and requests stay in their types.
THEOREM TypeInvariant == Spec => []TypeOK
<1>1. Inv => TypeOK
  BY DEF Inv
<1> QED
  BY <1>1, Invariant, PTL

\* Whatever token Redis holds for an address has been mailed to that address
\* (forgotPassword).
THEOREM StoredLinksTheorem == Spec => []StoredLinksWereMailed
<1>1. Inv => StoredLinksWereMailed
  BY DEF Inv
<1> QED
  BY <1>1, Invariant, PTL

LEMMA ChangeStep ==
  ASSUME Inv, [Next]_vars, NEW e \in Emails,
         users[e].live, users'[e].password # users[e].password
  PROVE  /\ users[e].verified
         /\ \E r \in Requests : /\ call[r].pc = "writePassword"
                                /\ Mail(e, call[r].link) \in outbox
                                /\ users'[e].password = call[r].password
<1> DEFINE Goal == /\ users[e].verified
                   /\ \E r \in Requests : /\ call[r].pc = "writePassword"
                                          /\ Mail(e, call[r].link) \in outbox
                                          /\ users'[e].password = call[r].password
<1> USE DEF Inv, TypeOK
<1>1. CASE UNCHANGED users
  BY <1>1
<1>2. ASSUME NEW r \in Requests, WritePassword(r) PROVE Goal
  <2>1. /\ IsRow(call[r].email, call[r].id)
        /\ users' = [users EXCEPT ![call[r].email].password = call[r].password]
    BY <1>2 DEF WritePassword
  <2>2. call[r].email \in Emails /\ users[call[r].email] \in Account
    BY Locals
  <2>3. call[r].email = e
    BY <2>1, <2>2
  <2>4. users'[e].password = call[r].password
    BY <2>1, <2>3 DEF Account
  <2>5. call[r].pc = "writePassword"
    BY <1>2 DEF WritePassword
  <2>6. /\ SeenVerified(call[r].email, call[r].id)
        /\ Mail(call[r].email, call[r].link) \in outbox
    BY <2>5 DEF GoodCalls, GoodCall, MailSteps
  <2>7. users[e].verified
    BY <2>1, <2>3, <2>6 DEF SeenVerified
  <2> QED
    BY <2>3, <2>4, <2>5, <2>6, <2>7
<1>3. ASSUME NEW a \in Emails, NEW verified \in BOOLEAN, CreateAccount(a, verified) PROVE FALSE
  BY <1>3 DEF CreateAccount
<1>4. ASSUME NEW a \in Emails, VerifyAccount(a) \/ RemoveUser(a) PROVE FALSE
  BY <1>4 DEF VerifyAccount, RemoveUser, Account
<1> QED
  BY <1>1, <1>2, <1>3, <1>4
  DEF Next, Handle, BeginForgot, BeginReset, MailLink, StoreLink, FindUser, CheckUser,
      MailNotice, DropLink, Fail, ExpireLink, store, vars

\* A password changes only while its account is verified, by a request that
\* presented a token mailed to that address (resetPassword).
THEOREM PasswordChangeTheorem == Spec => PasswordChangeNeedsMailedLink
<1>1. Inv /\ [Next]_vars =>
        [\A e \in Emails :
           users[e].live /\ users'[e].password # users[e].password =>
              /\ users[e].verified
              /\ \E r \in Requests : /\ call[r].pc = "writePassword"
                                     /\ Mail(e, call[r].link) \in outbox
                                     /\ users'[e].password = call[r].password]_vars
  BY ChangeStep
<1> QED
  BY <1>1, Invariant, PTL DEF Spec, PasswordChangeNeedsMailedLink

LEMMA DropStep ==
  ASSUME Inv, [Next]_vars, NEW e \in Emails, token[e] # NoLink, token'[e] = NoLink
  PROVE  \/ ExpireLink(e)
         \/ \E r \in Requests : DropLink(r) /\ call[r].link \in used
<1> USE DEF Inv, TypeOK
<1>1. CASE UNCHANGED token
  BY <1>1
<1>2. ASSUME NEW r \in Requests, StoreLink(r) PROVE FALSE
  <2>1. call[r].link \in Links
    BY <1>2 DEF StoreLink, GoodCalls, GoodCall
  <2> QED
    BY <1>2, <2>1, Locals, LinksAssumption DEF StoreLink
<1>3. ASSUME NEW r \in Requests, DropLink(r) PROVE call[r].link \in used
  BY <1>3 DEF DropLink, GoodCalls, GoodCall
<1>4. ASSUME NEW a \in Emails, ExpireLink(a) PROVE ExpireLink(e)
  <2>1. a = e
    BY <1>4 DEF ExpireLink
  <2> QED
    BY <1>4, <2>1
<1> QED
  BY <1>1, <1>2, <1>3, <1>4
  DEF Next, Handle, BeginForgot, BeginReset, MailLink, FindUser, CheckUser, WritePassword,
      MailNotice, Fail, CreateAccount, VerifyAccount, RemoveUser, store, vars

\* A token leaves Redis by expiry, or at the end of a request that has changed
\* a password (resetPassword deletes the key last).
THEOREM LinkOutlivesTheorem == Spec => LinkOutlivesFailedReset
<1>1. Inv /\ [Next]_vars =>
        [\A e \in Emails : token[e] # NoLink /\ token'[e] = NoLink =>
           \/ ExpireLink(e)
           \/ \E r \in Requests : DropLink(r) /\ call[r].link \in used]_vars
  BY DropStep
<1> QED
  BY <1>1, Invariant, PTL DEF Spec, LinkOutlivesFailedReset

-----------------------------------------------------------------------------
(* When a link is used once.  Nothing in resetPassword makes the comparison *)
(* of the token, the update and the deletion of the key one step, so two    *)
(* conditions are needed, which the code does not ensure: that two resets   *)
(* of one address do not overlap, and that a reset that has changed the     *)
(* password goes on to delete the key.                                      *)

ForgotSteps == {"mailLink", "storeLink"}
Ending      == {"mailNotice", "dropLink"}
ResetSteps  == {"findUser", "checkUser", "writePassword"} \cup Ending

OneResetAtATime ==
    \A q, r \in Requests :
        q # r /\ call[q].pc \in ResetSteps /\ call[r].pc \in ResetSteps =>
          call[q].email # call[r].email

DropsLink ==
    \A r \in Requests : call[r].pc \in Ending /\ call'[r] = Idle => DropLink(r)

ResetsDropTheirLink == [][DropsLink]_vars

\* A used link is in Redis only while the reset that used it goes on.
UsedIsGoing ==
    \A e \in Emails : token[e] \in used =>
        \E r \in Requests : call[r].pc \in Ending /\ call[r].email = e

\* A reset that has not changed the password yet holds an unused link.
Pending(c) == c.pc \in ResetSteps \ Ending => c.link \notin used

\* A link just drawn is nobody else's, and not yet mailed.
Fresh(r) ==
    call[r].pc \in ForgotSteps =>
        /\ call[r].link \notin used
        /\ \A e \in Emails : token[e] # call[r].link
        /\ \A q \in Requests \ {r} : call[q].link # call[r].link
        /\ call[r].pc = "mailLink" => \A m \in outbox : m.link # call[r].link

\* A link goes to one address, and is used only after it was mailed.
OneAddress  == \A m, n \in outbox : m.link = n.link => m.to = n.to
UsedWasSent == \A l \in used : \E m \in outbox : m.link = l

LinkInv == /\ UsedIsGoing /\ OneAddress /\ UsedWasSent
           /\ \A r \in Requests : Pending(call[r]) /\ Fresh(r)

LEMMA LinkOf ==
  ASSUME Inv, NEW r \in Requests
  PROVE  /\ call[r] \in Call /\ call[r].email \in Emails
         /\ call[r].pc # "idle" => call[r].link \in Links
         /\ call[r].pc \in ResetSteps => Mail(call[r].email, call[r].link) \in outbox
         /\ call[r].pc \in Ending => call[r].link \in used
         /\ Idle.pc = "idle" /\ Idle.link = NoLink /\ NoLink \notin used
  BY LinksAssumption
  DEF Inv, TypeOK, Call, GoodCalls, GoodCall, MailSteps, ResetSteps, Ending, Idle

\* A request that only moves on, keeping its address and its link, or ends.
LEMMA LinkMoves ==
  ASSUME Inv, Inv', LinkInv, NEW r \in Requests,
         \A q \in Requests \ {r} : call'[q] = call[q],
         \/ call'[r] = Idle /\ call[r].pc \notin Ending
         \/ /\ call'[r].email = call[r].email /\ call'[r].link = call[r].link
            /\ call[r].pc \in Ending <=> call'[r].pc \in Ending
            /\ call'[r].pc \in ResetSteps /\ call[r].pc \in ResetSteps,
         UNCHANGED <<token, outbox, used>>
  PROVE  LinkInv'
<1>1. UsedIsGoing'
  <2> SUFFICES ASSUME NEW e \in Emails, token[e] \in used
               PROVE  \E q \in Requests : call'[q].pc \in Ending /\ call'[q].email = e
    BY DEF UsedIsGoing
  <2>1. PICK q \in Requests : call[q].pc \in Ending /\ call[q].email = e
    BY DEF LinkInv, UsedIsGoing
  <2> QED
    BY <2>1
<1>2. ASSUME NEW q \in Requests PROVE Pending(call[q])'
  BY LinkOf DEF LinkInv, Pending, ResetSteps
<1>3. ASSUME NEW q \in Requests PROVE Fresh(q)'
  <2> SUFFICES ASSUME call'[q].pc \in ForgotSteps
               PROVE  /\ call'[q].link \notin used
                      /\ \A e \in Emails : token[e] # call'[q].link
                      /\ \A p \in Requests \ {q} : call'[p].link # call'[q].link
                      /\ call'[q].pc = "mailLink" => \A m \in outbox : m.link # call'[q].link
    BY DEF Fresh
  <2>1. q # r /\ call'[q] = call[q]
    BY LinkOf DEF ForgotSteps, ResetSteps, Ending
  <2>2. call[q].link \in Links
    BY <2>1, LinkOf DEF ForgotSteps
  <2> QED
    BY <2>1, <2>2, LinkOf, LinksAssumption DEF LinkInv, Fresh
<1> QED
  BY <1>1, <1>2, <1>3 DEF LinkInv, OneAddress, UsedWasSent

\* No request moves; tokens may go.
LEMMA LinkRests ==
  ASSUME Inv, LinkInv, UNCHANGED <<call, outbox, used>>,
         \A e \in Emails : token'[e] \in {token[e], NoLink}
  PROVE  LinkInv'
<1>1. UsedIsGoing'
  BY LinksAssumption DEF LinkInv, UsedIsGoing, Inv, TypeOK
<1>2. ASSUME NEW q \in Requests PROVE Fresh(q)'
  <2>1. call[q].pc \in ForgotSteps => call[q].link # NoLink
    BY LinkOf, LinksAssumption DEF ForgotSteps
  <2> QED
    BY <2>1 DEF LinkInv, Fresh
<1> QED
  BY <1>1, <1>2 DEF LinkInv, Pending, OneAddress, UsedWasSent

LEMMA LinkForgot ==
  ASSUME Inv, LinkInv, NEW r \in Requests, NEW e \in Emails, BeginForgot(r, e)
  PROVE  LinkInv'
<1>1. PICK l \in Links :
        Unused(l) /\ call' = [call EXCEPT ![r] = [Idle EXCEPT !.pc = "mailLink",
                                                             !.email = e, !.link = l]]
  BY DEF BeginForgot
<1>2. /\ \A q \in Requests \ {r} : call'[q] = call[q]
      /\ call'[r].pc = "mailLink" /\ call'[r].link = l /\ call[r] = Idle
      /\ UNCHANGED <<token, outbox, used>>
  BY <1>1, IdleIsGood DEF BeginForgot, store, Inv, TypeOK, Call, Idle
<1>3. l \notin used /\ \A a \in Emails : token[a] # l
  BY <1>1, LinksAssumption DEF Unused, LinkInv, UsedWasSent, Inv, StoredLinksWereMailed, Mail
<1>4. UsedIsGoing'
  BY <1>2, LinkOf DEF LinkInv, UsedIsGoing, Ending
<1>5. ASSUME NEW q \in Requests PROVE Pending(call[q])' /\ Fresh(q)'
  <2>1. CASE q = r
    BY <1>1, <1>2, <1>3, <2>1 DEF Pending, Fresh, ResetSteps, Ending, Unused
  <2>2. CASE q # r
    BY <1>1, <1>2, <2>2 DEF LinkInv, Pending, Fresh, Unused
  <2> QED
    BY <2>1, <2>2
<1> QED
  BY <1>2, <1>4, <1>5 DEF LinkInv, OneAddress, UsedWasSent

LEMMA LinkMail ==
  ASSUME Inv, LinkInv, NEW r \in Requests, MailLink(r)
  PROVE  LinkInv'
<1>1. /\ \A q \in Requests \ {r} : call'[q] = call[q]
      /\ call[r].pc = "mailLink" /\ call'[r].pc = "storeLink"
      /\ call'[r].link = call[r].link
      /\ outbox' = outbox \cup {Mail(call[r].email, call[r].link)}
      /\ UNCHANGED <<token, used>>
  BY Locals DEF MailLink, Goto, Inv, TypeOK, Call
<1>2. UsedIsGoing'
  BY <1>1, LinkOf DEF LinkInv, UsedIsGoing, Ending
<1>3. OneAddress' /\ UsedWasSent'
  BY <1>1 DEF LinkInv, OneAddress, UsedWasSent, Fresh, ForgotSteps, Mail
<1>4. ASSUME NEW q \in Requests PROVE Pending(call[q])' /\ Fresh(q)'
  <2>1. CASE q = r
    BY <1>1, <2>1 DEF LinkInv, Pending, Fresh, ForgotSteps, ResetSteps, Ending
  <2>2. CASE q # r
    BY <1>1, <2>2 DEF LinkInv, Pending, Fresh, Mail
  <2> QED
    BY <2>1, <2>2
<1> QED
  BY <1>2, <1>3, <1>4 DEF LinkInv

LEMMA LinkStore ==
  ASSUME Inv, LinkInv, NEW r \in Requests, StoreLink(r)
  PROVE  LinkInv'
<1>1. /\ \A q \in Requests \ {r} : call'[q] = call[q]
      /\ call[r].pc = "storeLink" /\ call'[r] = Idle
      /\ token' = [token EXCEPT ![call[r].email] = call[r].link]
      /\ UNCHANGED <<outbox, used>>
  BY DEF StoreLink, Finish, Inv, TypeOK
<1>2. \A e \in Emails : token'[e] \in {token[e], call[r].link}
  BY <1>1 DEF Inv, TypeOK
<1>3. call[r].link \notin used /\ call[r].link \in Links
  BY <1>1, LinkOf DEF LinkInv, Fresh, ForgotSteps
<1>4. UsedIsGoing'
  BY <1>1, <1>2, <1>3 DEF LinkInv, UsedIsGoing, Ending
<1>5. ASSUME NEW q \in Requests PROVE Pending(call[q])' /\ Fresh(q)'
  <2>1. CASE q = r
    BY <1>1, <2>1, LinkOf DEF Pending, Fresh, ForgotSteps, ResetSteps, Ending
  <2>2. CASE q # r
    <3>1. call[q].pc \in ForgotSteps => call[q].link \in Links
      BY LinkOf DEF ForgotSteps
    <3> QED
      BY <1>1, <1>2, <2>2, <3>1, LinkOf, LinksAssumption DEF LinkInv, Pending, Fresh
  <2> QED
    BY <2>1, <2>2
<1> QED
  BY <1>1, <1>4, <1>5 DEF LinkInv, OneAddress, UsedWasSent

LEMMA LinkReset ==
  ASSUME Inv, LinkInv, OneResetAtATime', NEW r \in Requests, NEW e \in Emails,
         NEW l \in Links, NEW p \in Passwords, BeginReset(r, e, l, p)
  PROVE  LinkInv'
<1>1. /\ \A q \in Requests \ {r} : call'[q] = call[q]
      /\ call[r] = Idle /\ call'[r].pc = "findUser" /\ call'[r].email = e
      /\ call'[r].link = l /\ token[e] = l
      /\ UNCHANGED <<token, outbox, used>>
  BY IdleIsGood DEF BeginReset, TokenMatches, store, Inv, TypeOK, Call, Idle
<1>2. UsedIsGoing'
  BY <1>1, LinkOf DEF LinkInv, UsedIsGoing, Ending
<1>3. l \notin used
  <2> SUFFICES ASSUME l \in used PROVE FALSE
    OBVIOUS
  <2>1. PICK q \in Requests : call[q].pc \in Ending /\ call[q].email = e
    BY <1>1 DEF LinkInv, UsedIsGoing
  <2>2. q # r /\ call'[q] = call[q]
    BY <1>1, <2>1, LinkOf DEF Ending
  <2> QED
    BY <1>1, <2>1, <2>2 DEF OneResetAtATime, ResetSteps
<1>4. ASSUME NEW q \in Requests PROVE Pending(call[q])' /\ Fresh(q)'
  <2>1. CASE q = r
    BY <1>1, <1>3, <2>1 DEF Pending, Fresh, ForgotSteps
  <2>2. CASE q # r
    BY <1>1, <2>2 DEF LinkInv, Pending, Fresh
  <2> QED
    BY <2>1, <2>2
<1> QED
  BY <1>1, <1>2, <1>4 DEF LinkInv, OneAddress, UsedWasSent

\* The one step that uses a link.
LEMMA LinkWrite ==
  ASSUME Inv, LinkInv, OneResetAtATime, NEW r \in Requests, WritePassword(r),
         IsRow(call[r].email, call[r].id)
  PROVE  LinkInv'
<1>1. PICK e \in Emails, l \in Links : /\ e = call[r].email /\ l = call[r].link
                                      /\ Mail(e, l) \in outbox
                                      /\ call[r].pc = "writePassword"
  BY LinkOf DEF WritePassword, ResetSteps
<1>2. /\ \A q \in Requests \ {r} : call'[q] = call[q]
      /\ call'[r].pc = "mailNotice" /\ call'[r].email = e /\ call'[r].link = l
      /\ used' = used \cup {l} /\ UNCHANGED <<token, outbox>>
  BY <1>1, Locals DEF WritePassword, Goto, Inv, TypeOK, Call
<1>3. ASSUME NEW m \in outbox, m.link = l
      PROVE  m.to = e
  BY <1>1, <1>3 DEF LinkInv, OneAddress, Mail
<1>4. UsedIsGoing'
  <2> SUFFICES ASSUME NEW a \in Emails, token[a] \in used \cup {l}
               PROVE  \E q \in Requests : call'[q].pc \in Ending /\ call'[q].email = a
    BY <1>2 DEF UsedIsGoing
  <2>1. CASE token[a] = l
    <3>1. Mail(a, l) \in outbox
      BY <2>1, LinksAssumption DEF Inv, StoredLinksWereMailed
    <3>2. a = e
      BY <1>3, <3>1 DEF Mail
    <3> QED
      BY <1>2, <3>2 DEF Ending
  <2>2. CASE token[a] \in used
    BY <1>1, <1>2, <2>2 DEF LinkInv, UsedIsGoing, Ending
  <2> QED
    BY <2>1, <2>2
<1>5. UsedWasSent'
  BY <1>1, <1>2 DEF LinkInv, UsedWasSent, Mail
<1>6. ASSUME NEW q \in Requests PROVE Pending(call[q])'
  <2>1. CASE q = r
    BY <1>2, <2>1 DEF Pending, ResetSteps, Ending
  <2>2. CASE q # r
    <3> SUFFICES ASSUME call[q].pc \in ResetSteps \ Ending
                 PROVE  call[q].link \notin used \cup {l}
      BY <1>2, <2>2 DEF Pending
    <3>1. call[q].link = l => call[q].email = e
      BY <1>3, LinkOf DEF Mail
    <3>2. call[q].email # e
      BY <1>1, <2>2 DEF OneResetAtATime, ResetSteps
    <3> QED
      BY <3>1, <3>2 DEF LinkInv, Pending
  <2> QED
    BY <2>1, <2>2
<1>7. ASSUME NEW q \in Requests PROVE Fresh(q)'
  <2>1. CASE q = r
    BY <1>2, <2>1 DEF Fresh, ForgotSteps
  <2>2. CASE q # r
    BY <1>1, <1>2, <2>2 DEF LinkInv, Fresh
  <2> QED
    BY <2>1, <2>2
<1> QED
  BY <1>2, <1>4, <1>5, <1>6, <1>7 DEF LinkInv, OneAddress

LEMMA LinkDrop ==
  ASSUME Inv, LinkInv, NEW r \in Requests, DropLink(r)
  PROVE  LinkInv'
<1>1. /\ \A q \in Requests \ {r} : call'[q] = call[q]
      /\ call[r].pc = "dropLink" /\ call'[r] = Idle
      /\ token' = [token EXCEPT ![call[r].email] = NoLink]
      /\ UNCHANGED <<outbox, used>>
  BY DEF DropLink, Finish, Inv, TypeOK
<1>2. \A e \in Emails : token'[e] = IF e = call[r].email THEN NoLink ELSE token[e]
  BY <1>1 DEF Inv, TypeOK
<1>3. UsedIsGoing'
  BY <1>1, <1>2, LinkOf DEF LinkInv, UsedIsGoing
<1>4. ASSUME NEW q \in Requests PROVE Pending(call[q])' /\ Fresh(q)'
  <2>1. CASE q = r
    BY <1>1, <2>1, LinkOf DEF Pending, Fresh, ForgotSteps, ResetSteps, Ending
  <2>2. CASE q # r
    <3>1. call[q].pc \in ForgotSteps => call[q].link \in Links
      BY LinkOf DEF ForgotSteps
    <3> QED
      BY <1>1, <1>2, <2>2, <3>1, LinkOf, LinksAssumption DEF LinkInv, Pending, Fresh
  <2> QED
    BY <2>1, <2>2
<1> QED
  BY <1>1, <1>3, <1>4 DEF LinkInv, OneAddress, UsedWasSent

LEMMA LinkStep ==
  /\ Inv /\ Inv' /\ LinkInv /\ OneResetAtATime /\ OneResetAtATime'
  /\ [Next]_vars /\ [DropsLink]_vars
  => LinkInv'
<1> SUFFICES ASSUME Inv, Inv', LinkInv, OneResetAtATime, OneResetAtATime',
                    [Next]_vars, [DropsLink]_vars
             PROVE  LinkInv'
  OBVIOUS
<1>1. CASE UNCHANGED <<call, token, outbox, used>>
  BY <1>1, LinkRests
<1>2. ASSUME NEW r \in Requests, FindUser(r) \/ CheckUser(r) \/ MailNotice(r)
      PROVE  LinkInv'
  <2>1. /\ \A q \in Requests \ {r} : call'[q] = call[q]
        /\ UNCHANGED <<token, outbox, used>>
        /\ call[r].pc \in ResetSteps
        /\ \/ call'[r] = Idle /\ call[r].pc \notin Ending
           \/ /\ call'[r].email = call[r].email /\ call'[r].link = call[r].link
              /\ call'[r].pc \in ResetSteps
              /\ call[r].pc \in Ending <=> call'[r].pc \in Ending
    BY <1>2, Locals DEF FindUser, CheckUser, MailNotice, Goto, Finish, store, Inv, TypeOK,
       Call, ResetSteps, Ending
  <2> QED
    BY <2>1, LinkMoves
<1>3. ASSUME NEW r \in Requests, WritePassword(r)
      PROVE  LinkInv'
  <2>1. CASE ~IsRow(call[r].email, call[r].id)
    <3>1. /\ \A q \in Requests \ {r} : call'[q] = call[q]
          /\ UNCHANGED <<token, outbox, used>> /\ call'[r] = Idle
          /\ call[r].pc \notin Ending
      BY <1>3, <2>1 DEF WritePassword, Finish, Inv, TypeOK, Ending
    <3> QED
      BY <3>1, LinkMoves
  <2> QED
    BY <1>3, <2>1, LinkWrite
<1>4. ASSUME NEW r \in Requests, Fail(r)
      PROVE  LinkInv'
  <2>1. /\ \A q \in Requests \ {r} : call'[q] = call[q]
        /\ UNCHANGED <<token, outbox, used>> /\ call'[r] = Idle /\ call[r] # Idle
    BY <1>4 DEF Fail, Finish, store, Inv, TypeOK
  <2>2. CASE call[r].pc \in Ending
    <3>1. DropLink(r)
      BY <2>1, <2>2 DEF DropsLink, vars
    <3> QED
      BY <3>1, LinkDrop
  <2>3. CASE call[r].pc \notin Ending
    BY <2>1, <2>3, LinkMoves
  <2> QED
    BY <2>2, <2>3
<1>5. ASSUME NEW e \in Emails, ExpireLink(e)
      PROVE  LinkInv'
  <2>1. /\ \A a \in Emails : token'[a] \in {token[a], NoLink}
        /\ UNCHANGED <<outbox, call, used>>
    BY <1>5 DEF ExpireLink, Inv, TypeOK
  <2> QED
    BY <2>1, LinkRests
<1>6. ASSUME NEW e \in Emails, NEW verified \in BOOLEAN,
             VerifyAccount(e) \/ RemoveUser(e) \/ CreateAccount(e, verified)
      PROVE  UNCHANGED <<call, token, outbox, used>>
  BY <1>6 DEF VerifyAccount, RemoveUser, CreateAccount
<1>7. UNCHANGED vars => UNCHANGED <<call, token, outbox, used>>
  BY DEF vars, store
<1> QED
  BY <1>1, <1>2, <1>3, <1>4, <1>5, <1>6, <1>7, LinkForgot, LinkMail, LinkStore, LinkReset,
     LinkDrop DEF Next, Handle

\* As long as the resets of one address do not overlap and each that changes a
\* password deletes the key, a link changes a password once, whatever is mailed,
\* replaced, expires, fails before the change or is removed (resetPassword).
THEOREM LinksUsedOnceAlone ==
  Spec /\ []OneResetAtATime /\ ResetsDropTheirLink => LinksUsedOnce
<1>1. Init => LinkInv
  BY LinksAssumption
  DEF Init, LinkInv, UsedIsGoing, OneAddress, UsedWasSent, Pending, Fresh, Idle, ForgotSteps,
      ResetSteps, Ending
<1>2. /\ Inv /\ Inv' /\ LinkInv /\ OneResetAtATime /\ OneResetAtATime'
      /\ [Next]_vars /\ [DropsLink]_vars
      => LinkInv'
  BY LinkStep
<1>3. Inv /\ LinkInv =>
        [\A r \in Requests : WritePassword(r) /\ IsRow(call[r].email, call[r].id) =>
            call[r].link \notin used]_vars
  BY DEF LinkInv, Pending, WritePassword, ResetSteps, Ending
<1> QED
  BY <1>1, <1>2, <1>3, Invariant, PTL DEF Spec, ResetsDropTheirLink, LinksUsedOnce
=============================================================================
