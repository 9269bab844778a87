---------------------- MODULE EmailVerificationProofs ----------------------
(* Theorems about EmailVerification, for every set of addresses, codes and *)
(* requests and every limit.                                               *)
EXTENDS EmailVerification, TLAPS

\* What a request's locals hold where it stands: a code it was given or drew,
\* a count read below the limit.
HoldsCode == {"mailOtp", "readAttempts", "compare", "countWrong", "markVerified"}
HoldsCount == {"compare", "countWrong", "bumpResends"}

SoundCall == {c \in Call : /\ c.pc \in HoldsCode => c.code \in Codes
                           /\ c.pc \in HoldsCount => c.count < AttemptLimit}

\* The bound on registrations leaves room for the next one.
Room == \A e \in Emails : users[e].live \/ users[e].id < MaxAccounts

\* The inductive strengthening of TypeOK.
Typed ==
    /\ TypeOK
    /\ call \in [Requests -> SoundCall]
    /\ Room

LEMMA IdleIsSound == Idle \in SoundCall
  BY EmailsAssumption, MaxAccountsAssumption, AttemptLimitAssumption
  DEF Idle, SoundCall, Call, Steps, HoldsCode, HoldsCount

LEMMA FinishSound ==
  ASSUME Typed, NEW r \in Requests, Finish(r)
  PROVE  call' \in [Requests -> SoundCall]
  BY IdleIsSound DEF Typed, Finish

LEMMA GotoSound ==
  ASSUME Typed, NEW r \in Requests, NEW pc \in Steps, Goto(r, pc),
         pc \in HoldsCode => call[r].pc \in HoldsCode,
         pc \in HoldsCount => call[r].pc \in HoldsCount
  PROVE  call' \in [Requests -> SoundCall]
<1>1. [call[r] EXCEPT !.pc = pc] \in SoundCall
  BY DEF Typed, SoundCall, Call
<1> QED
  BY <1>1 DEF Typed, Goto

LEMMA BeginSound ==
  ASSUME Typed, NEW r \in Requests, NEW e \in Emails, NEW pc \in Steps \ HoldsCount,
         NEW c \in Codes \cup {NoCode}, Begin(r, e, pc, c),
         pc \in HoldsCode => c \in Codes
  PROVE  call' \in [Requests -> SoundCall]
<1>1. [Idle EXCEPT !.pc = pc, !.email = e, !.id = users[e].id, !.code = c] \in SoundCall
  BY IdleIsSound DEF Typed, TypeOK, SoundCall, Call, Account, Idle
<1> QED
  BY <1>1 DEF Typed, Begin

LEMMA CountedSound ==
  ASSUME Typed, NEW r \in Requests, NEW n \in 0..(AttemptLimit - 1),
         NEW pc \in HoldsCount, pc \in HoldsCode => call[r].pc \in HoldsCode
  PROVE  [call[r] EXCEPT !.pc = pc, !.count = n] \in SoundCall
<1> DEFINE c == [call[r] EXCEPT !.pc = pc, !.count = n]
<1>1. n \in 0..AttemptLimit /\ n < AttemptLimit /\ pc \in Steps
  BY AttemptLimitAssumption DEF HoldsCount, Steps
<1>2. call[r] \in Call /\ (call[r].pc \in HoldsCode => call[r].code \in Codes)
  BY DEF Typed, SoundCall
<1>3. c \in Call /\ c.pc = pc /\ c.count = n /\ c.code = call[r].code
  BY <1>1, <1>2 DEF Call
<1> QED
  BY <1>1, <1>2, <1>3 DEF SoundCall

LEMMA CodeDrawnSound ==
  ASSUME Typed, NEW r \in Requests, NEW c \in Codes
  PROVE  [call[r] EXCEPT !.pc = "mailOtp", !.code = c] \in SoundCall
<1> DEFINE d == [call[r] EXCEPT !.pc = "mailOtp", !.code = c]
<1>1. call[r] \in Call /\ "mailOtp" \in Steps
  BY DEF Typed, SoundCall, Steps
<1>2. d \in Call /\ d.pc = "mailOtp" /\ d.code = c
  BY <1>1 DEF Call
<1> HIDE DEF d
<1>3. d \in SoundCall
  BY <1>2 DEF SoundCall, HoldsCount
<1> QED
  BY <1>3 DEF d

LEMMA RemovedAccount ==
  ASSUME NEW a \in Account
  PROVE  /\ [a EXCEPT !.live = FALSE] \in Account
         /\ [a EXCEPT !.live = FALSE].id = a.id
  BY DEF Account

LEMMA LocalsSound ==
  ASSUME Typed, NEW r \in Requests
  PROVE  /\ call[r].email \in Emails
         /\ call[r].pc \in HoldsCode => call[r].code \in Codes
         /\ call[r].pc \in HoldsCount => call[r].count \in 0..(AttemptLimit - 1)
  BY AttemptLimitAssumption DEF Typed, SoundCall, Call

LEMMA TypedFromParts ==
  ASSUME users' \in [Emails -> Account], Room',
         otp' \in [Emails -> Codes \cup {NoCode}],
         attempts' \in [Emails -> 0..AttemptLimit],
         resends' \in [Emails -> 0..AttemptLimit],
         outbox' \subseteq [to : Emails, code : Codes],
         call' \in [Requests -> SoundCall],
         issued' \in [Emails -> SUBSET Codes],
         refused' \in [Emails -> 0..AttemptLimit + 1],
         overtaken' \subseteq Requests, stale' \subseteq Emails
  PROVE  Typed'
  BY DEF Typed, TypeOK, SoundCall

LEMMA TypedStep == Typed /\ [Next]_vars => Typed'
<1> SUFFICES ASSUME Typed, [Next]_vars PROVE Typed'
  OBVIOUS
<1> USE EmailsAssumption, CodesAssumption, AttemptLimitAssumption,
        SoftDeleteAssumption, MaxAccountsAssumption, TypedFromParts
<1> USE DEF Typed, TypeOK, store, history
<1>1. ASSUME NEW r \in Requests, NEW e \in Emails, BeginRegister(r, e) PROVE Typed'
  <2>1. call' \in [Requests -> SoundCall]
    BY <1>1, BeginSound DEF BeginRegister, Steps, HoldsCode, HoldsCount
  <2> QED
    BY <1>1, <2>1 DEF BeginRegister, Begin, Room
<1>2. ASSUME NEW r \in Requests, InsertUser(r) PROVE Typed'
  <2> DEFINE e == call[r].email
  <2>1. call' \in [Requests -> SoundCall] /\ e \in Emails
    BY <1>2, FinishSound, GotoSound, LocalsSound
    DEF InsertUser, Steps, HoldsCode, HoldsCount
  <2>2. CASE EmailTaken(e)
    BY <1>2, <2>1, <2>2 DEF InsertUser, Room
  <2>3. CASE ~EmailTaken(e)
    <3>1. NewAccount(e, FALSE) \in Account /\ NewAccount(e, FALSE).live
      BY <2>1, <2>3 DEF NewAccount, EmailTaken, Room, Account
    <3>2. users' = [users EXCEPT ![e] = NewAccount(e, FALSE)]
      BY <1>2, <2>3 DEF InsertUser
    <3>3. users' \in [Emails -> Account] /\ Room'
      BY <2>1, <3>1, <3>2 DEF Room
    <3> QED
      BY <1>2, <2>1, <3>3 DEF InsertUser
  <2> QED
    BY <2>2, <2>3
<1>3. ASSUME NEW r \in Requests, StoreOtp(r) PROVE Typed'
  <2>1. PICK c \in Codes :
          /\ otp' = [otp EXCEPT ![call[r].email] = c]
          /\ issued' = [issued EXCEPT ![call[r].email] = @ \cup {c}]
          /\ call' = [call EXCEPT ![r].pc = "mailOtp", ![r].code = c]
    BY <1>3 DEF StoreOtp
  <2>2. [call[r] EXCEPT !.pc = "mailOtp", !.code = c] \in SoundCall
    BY CodeDrawnSound
  <2>3. call' \in [Requests -> SoundCall]
    BY <2>1, <2>2
  <2> QED
    BY <1>3, <2>1, <2>3, LocalsSound DEF StoreOtp, Room
<1>4. ASSUME NEW r \in Requests, MailOtp(r) PROVE Typed'
  <2>1. [to |-> call[r].email, code |-> call[r].code] \in [to : Emails, code : Codes]
    BY <1>4, LocalsSound DEF MailOtp, HoldsCode
  <2> QED
    BY <1>4, <2>1, FinishSound DEF MailOtp, Room
<1>5. ASSUME NEW r \in Requests, NEW e \in Emails, BeginLogin(r, e) PROVE Typed'
  <2>1. call' \in [Requests -> SoundCall]
    BY <1>5, BeginSound DEF BeginLogin, Steps, Verified, HoldsCode, HoldsCount
  <2> QED
    BY <1>5, <2>1 DEF BeginLogin, Begin, Room
<1>6. ASSUME NEW r \in Requests, NEW e \in Emails, GoogleSignIn(r, e) PROVE Typed'
  <2> DEFINE a == IF Registered(e) THEN [users[e] EXCEPT !.verified = TRUE]
                                   ELSE NewAccount(e, TRUE)
  <2>1. a \in Account /\ a.live
    <3>1. CASE Registered(e)
      BY <3>1 DEF Registered, Account
    <3>2. CASE ~Registered(e)
      BY <3>2 DEF Registered, NewAccount, Room, Account
    <3> QED
      BY <3>1, <3>2
  <2>2. users' = [users EXCEPT ![e] = a]
    BY <1>6 DEF GoogleSignIn
  <2> HIDE DEF a
  <2>3. users' \in [Emails -> Account] /\ Room' /\ users'[e] = a
    BY <2>1, <2>2 DEF Room
  <2>4. [Idle EXCEPT !.pc = "issueTokens", !.email = e, !.id = a.id] \in SoundCall
    <3> DEFINE d == [Idle EXCEPT !.pc = "issueTokens", !.email = e, !.id = a.id]
    <3>1. Idle \in Call /\ a.id \in 0..MaxAccounts /\ "issueTokens" \in Steps
      BY <2>1, IdleIsSound DEF SoundCall, Account, Steps, Verified
    <3>2. d \in Call /\ d.pc = "issueTokens"
      BY <3>1 DEF Call
    <3> HIDE DEF d
    <3>3. d \in SoundCall
      BY <3>2 DEF SoundCall, HoldsCode, HoldsCount
    <3> QED
      BY <3>3 DEF d
  <2>5. call' \in [Requests -> SoundCall]
    BY <1>6, <2>3, <2>4 DEF GoogleSignIn
  <2> QED
    BY <1>6, <2>3, <2>5 DEF GoogleSignIn
<1>7. ASSUME NEW r \in Requests, NEW e \in Emails, BeginResend(r, e) PROVE Typed'
  <2>1. call' \in [Requests -> SoundCall]
    BY <1>7, BeginSound DEF BeginResend, Steps, HoldsCode, HoldsCount
  <2> QED
    BY <1>7, <2>1 DEF BeginResend, Begin, Room
<1>8. ASSUME NEW r \in Requests, NEW e \in Emails, NEW c \in Codes, BeginVerify(r, e, c)
      PROVE  Typed'
  <2>1. call' \in [Requests -> SoundCall]
    BY <1>8, BeginSound DEF BeginVerify, Steps, HoldsCode, HoldsCount
  <2> QED
    BY <1>8, <2>1 DEF BeginVerify, Begin, Room
<1>9. ASSUME NEW r \in Requests, ReadAttempts(r) PROVE Typed'
  <2> DEFINE n == attempts[call[r].email]
  <2>1. CASE LimitReached(n)
    BY <1>9, <2>1, FinishSound DEF ReadAttempts, Room
  <2>2. CASE ~LimitReached(n)
    <3>1. n \in 0..(AttemptLimit - 1)
      BY <2>2, LocalsSound DEF LimitReached
    <3> HIDE DEF n
    <3>2. [call[r] EXCEPT !.pc = "compare", !.count = n] \in SoundCall
      BY <1>9, <3>1, CountedSound DEF ReadAttempts, HoldsCode, HoldsCount
    <3>3. call' \in [Requests -> SoundCall]
      BY <1>9, <2>2, <3>2 DEF ReadAttempts, n
    <3> QED
      BY <1>9, <3>3 DEF ReadAttempts, Room
  <2> QED
    BY <2>1, <2>2
<1>10. ASSUME NEW r \in Requests, CompareOtp(r) PROVE Typed'
  <2>1. call' \in [Requests -> SoundCall]
    BY <1>10, GotoSound DEF CompareOtp, Steps, HoldsCode, HoldsCount
  <2> QED
    BY <1>10, <2>1 DEF CompareOtp, Room
<1>11. ASSUME NEW r \in Requests, CountWrong(r) PROVE Typed'
  <2>1. call[r].email \in Emails /\ call[r].count + 1 \in 0..AttemptLimit
    BY <1>11, LocalsSound DEF CountWrong, HoldsCount
  <2>2. attempts' \in [Emails -> 0..AttemptLimit]
    BY <1>11, <2>1 DEF CountWrong, Counted
  <2>3. refused' \in [Emails -> 0..AttemptLimit + 1]
    BY <1>11, <2>1 DEF CountWrong, AtMost
  <2> QED
    BY <1>11, <2>2, <2>3, FinishSound DEF CountWrong, Room
<1>12. ASSUME NEW r \in Requests, MarkVerified(r) PROVE Typed'
  <2> DEFINE e == call[r].email
             v == users[e].verified \/ (users[e].live /\ users[e].id = call[r].id)
  <2>1. e \in Emails /\ v \in BOOLEAN
    BY LocalsSound
  <2> HIDE DEF v
  <2>2. users' = [users EXCEPT ![e].verified = v]
    BY <1>12 DEF MarkVerified, VerifyById, v
  <2>3. users' \in [Emails -> Account] /\ Room'
    BY <2>1, <2>2 DEF Room, Account
  <2>4. call' \in [Requests -> SoundCall]
    BY <1>12, GotoSound DEF MarkVerified, Steps, Verified, HoldsCode, HoldsCount
  <2> QED
    BY <1>12, <2>3, <2>4 DEF MarkVerified
<1>13. ASSUME NEW r \in Requests, DropOtp(r) PROVE Typed'
  <2>1. call' \in [Requests -> SoundCall]
    BY <1>13, GotoSound DEF DropOtp, Steps, Verified, HoldsCode, HoldsCount
  <2> QED
    BY <1>13, <2>1 DEF DropOtp, Room
<1>14. ASSUME NEW r \in Requests, DropAttempts(r) PROVE Typed'
  <2>1. call' \in [Requests -> SoundCall]
    BY <1>14, GotoSound DEF DropAttempts, Steps, Verified, HoldsCode, HoldsCount
  <2> QED
    BY <1>14, <2>1, LocalsSound DEF DropAttempts, ClearAttempts, Counting, Room
<1>15. ASSUME NEW r \in Requests, MailWelcome(r) PROVE Typed'
  <2>1. call' \in [Requests -> SoundCall]
    BY <1>15, GotoSound DEF MailWelcome, Steps, Verified, HoldsCode, HoldsCount
  <2> QED
    BY <1>15, <2>1 DEF MailWelcome, Room
<1>16. ASSUME NEW r \in Requests, IssueTokens(r) PROVE Typed'
  BY <1>16, FinishSound DEF IssueTokens, Room
<1>17. ASSUME NEW r \in Requests, ReadResends(r) PROVE Typed'
  <2> DEFINE n == resends[call[r].email]
  <2>1. CASE LimitReached(n)
    BY <1>17, <2>1, FinishSound DEF ReadResends, Room
  <2>2. CASE ~LimitReached(n)
    <3>1. n \in 0..(AttemptLimit - 1)
      BY <2>2, LocalsSound DEF LimitReached
    <3> HIDE DEF n
    <3>2. [call[r] EXCEPT !.pc = "bumpResends", !.count = n] \in SoundCall
      BY <3>1, CountedSound DEF HoldsCode, HoldsCount
    <3>3. call' \in [Requests -> SoundCall]
      BY <1>17, <2>2, <3>2 DEF ReadResends, n
    <3> QED
      BY <1>17, <3>3 DEF ReadResends, Room
  <2> QED
    BY <2>1, <2>2
<1>18. ASSUME NEW r \in Requests, BumpResends(r) PROVE Typed'
  <2>1. call[r].email \in Emails /\ call[r].count + 1 \in 0..AttemptLimit
    BY <1>18, LocalsSound DEF BumpResends, HoldsCount
  <2>2. call' \in [Requests -> SoundCall]
    BY <1>18, GotoSound DEF BumpResends, Steps, HoldsCode, HoldsCount
  <2> QED
    BY <1>18, <2>1, <2>2 DEF BumpResends, Room
<1>19. ASSUME NEW r \in Requests, Fail(r) PROVE Typed'
  BY <1>19, FinishSound DEF Fail, Room
<1>20. ASSUME NEW e \in Emails, ExpireOtp(e) PROVE Typed'
  BY <1>20 DEF ExpireOtp, Room
<1>21. ASSUME NEW e \in Emails, ExpireAttempts(e) PROVE Typed'
  BY <1>21 DEF ExpireAttempts, ClearAttempts, Counting, Room
<1>22. ASSUME NEW e \in Emails, ExpireResends(e) PROVE Typed'
  BY <1>22 DEF ExpireResends, Room
<1>23. ASSUME NEW e \in Emails, RemoveUser(e) PROVE Typed'
  <2> DEFINE a == [users[e] EXCEPT !.live = FALSE]
  <2>1. a \in Account /\ a.id = users[e].id
    BY RemovedAccount
  <2>2. users' = [users EXCEPT ![e] = a] /\ users[e].id < MaxAccounts
    BY <1>23 DEF RemoveUser
  <2> HIDE DEF a
  <2>3. users' \in [Emails -> Account] /\ Room'
    BY <2>1, <2>2 DEF Room
  <2> QED
    BY <1>23, <2>3 DEF RemoveUser
<1>24. CASE UNCHANGED vars
  BY <1>24 DEF vars, Room
<1> HIDE DEF Typed, TypeOK, store, history
<1>25. ASSUME NEW r \in Requests, Handle(r) PROVE Typed'
  BY <1>2, <1>3, <1>4, <1>9, <1>10, <1>11, <1>12, <1>13, <1>14, <1>15, <1>16, <1>17,
     <1>18, <1>25
  DEF Handle
<1>26. ASSUME NEW r \in Requests, NEW e \in Emails, Arrive(r, e) PROVE Typed'
  BY <1>1, <1>5, <1>6, <1>7, <1>8, <1>26 DEF Arrive
<1> QED
  BY <1>19, <1>20, <1>21, <1>22, <1>23, <1>24, <1>25, <1>26 DEF Next

LEMMA TypedInvariant == Spec => []Typed
<1>1. Init => Typed
  BY IdleIsSound, MaxAccountsAssumption, AttemptLimitAssumption
  DEF Init, Typed, TypeOK, Room, Account, SoundCall
<1> QED
  BY <1>1, TypedStep, PTL DEF Spec

\* The state stays in its types: no counter passes its limit, no request holds
\* a code or an address that is none.
THEOREM TypeInvariant == Spec => []TypeOK
<1>1. Typed => TypeOK
  BY DEF Typed
<1> QED
  BY <1>1, TypedInvariant, PTL

-----------------------------------------------------------------------------
(* Codes: what Redis holds, what a request took from Redis or put there,   *)
(* and what was mailed are all codes stored for that address.              *)

Carries == {"mailOtp", "markVerified"}

StoredWereIssued == \A e \in Emails : otp[e] \in issued[e] \cup {NoCode}

CarriedWereIssued ==
    \A r \in Requests : call[r].pc \in Carries => call[r].code \in issued[call[r].email]

CodesInv == StoredWereIssued /\ CarriedWereIssued /\ MailedCodesWereStored

\* A request that ends, begins or goes on to a step without a code of Redis.
LEMMA StepWithoutCode ==
  ASSUME Typed, CarriedWereIssued, NEW r \in Requests, UNCHANGED issued,
         \/ Finish(r)
         \/ \E pc \in Steps \ Carries : Goto(r, pc)
         \/ \E e \in Emails, pc \in Steps \ Carries, c \in Codes \cup {NoCode} :
               Begin(r, e, pc, c)
  PROVE  CarriedWereIssued'
<1>1. CASE Finish(r)
  BY <1>1 DEF Typed, TypeOK, Finish, Idle, Carries, CarriedWereIssued
<1>2. ASSUME NEW pc \in Steps \ Carries, Goto(r, pc) PROVE CarriedWereIssued'
  BY <1>2 DEF Typed, TypeOK, Goto, Call, CarriedWereIssued
<1>3. ASSUME NEW e \in Emails, NEW pc \in Steps \ Carries, NEW c \in Codes \cup {NoCode},
             Begin(r, e, pc, c)
      PROVE  CarriedWereIssued'
  <2>1. call'[r].pc = pc /\ \A q \in Requests \ {r} : call'[q] = call[q]
    BY <1>3 DEF Typed, TypeOK, Begin, Idle
  <2> QED
    BY <2>1 DEF CarriedWereIssued
<1> QED
  BY <1>1, <1>2, <1>3

LEMMA CodesInvariant == Spec => []CodesInv
<1>1. Init => CodesInv
  BY DEF Init, CodesInv, StoredWereIssued, CarriedWereIssued, MailedCodesWereStored, Idle, Carries
<1>2. Typed /\ CodesInv /\ [Next]_vars => CodesInv'
  <2> SUFFICES ASSUME Typed, CodesInv, [Next]_vars PROVE CodesInv'
    OBVIOUS
  <2> USE CodesAssumption, StepWithoutCode
  <2> USE DEF Typed, TypeOK, CodesInv, StoredWereIssued, MailedCodesWereStored, store, history
  <2>1. ASSUME NEW r \in Requests, NEW e \in Emails, BeginRegister(r, e) PROVE CodesInv'
    <3>1. CarriedWereIssued'
      BY <2>1 DEF BeginRegister, Begin, Steps, Carries
    <3> QED
      BY <2>1, <3>1 DEF BeginRegister, Begin
  <2>2. ASSUME NEW r \in Requests, InsertUser(r) PROVE CodesInv'
    <3>1. CarriedWereIssued'
      BY <2>2 DEF InsertUser, Steps, Carries
    <3> QED
      BY <2>2, <3>1 DEF InsertUser
  <2>3. ASSUME NEW r \in Requests, StoreOtp(r) PROVE CodesInv'
    <3>1. PICK c \in Codes :
            /\ otp' = [otp EXCEPT ![call[r].email] = c]
            /\ issued' = [issued EXCEPT ![call[r].email] = @ \cup {c}]
            /\ call' = [call EXCEPT ![r].pc = "mailOtp", ![r].code = c]
      BY <2>3 DEF StoreOtp
    <3>2. call[r].email \in Emails
      BY LocalsSound
    <3>3. \A e \in Emails : issued[e] \subseteq issued'[e]
      BY <3>1
    <3>4. CarriedWereIssued'
      <4> SUFFICES ASSUME NEW q \in Requests, call'[q].pc \in Carries
                   PROVE  call'[q].code \in issued'[call'[q].email]
        BY DEF CarriedWereIssued
      <4>1. CASE q = r
        <5>1. call'[r].code = c /\ call'[r].email = call[r].email
          BY <3>1 DEF Call
        <5> QED
          BY <3>1, <3>2, <4>1, <5>1
      <4>2. CASE q # r
        BY <3>1, <3>3, <4>2, LocalsSound DEF CarriedWereIssued
      <4> QED
        BY <4>1, <4>2
    <3> QED
      BY <2>3, <3>1, <3>2, <3>3, <3>4 DEF StoreOtp
  <2>4. ASSUME NEW r \in Requests, MailOtp(r) PROVE CodesInv'
    <3>1. CarriedWereIssued'
      BY <2>4 DEF MailOtp
    <3>2. call[r].code \in issued[call[r].email]
      BY <2>4 DEF MailOtp, CarriedWereIssued, Carries
    <3> QED
      BY <2>4, <3>1, <3>2 DEF MailOtp
  <2>5. ASSUME NEW r \in Requests, NEW e \in Emails, BeginLogin(r, e) PROVE CodesInv'
    <3>1. CarriedWereIssued'
      <4>1. \E pc \in {"issueTokens", "storeOtp"} : Begin(r, e, pc, NoCode)
        BY <2>5 DEF BeginLogin
      <4> QED
        BY <4>1 DEF Begin, Steps, Verified, Carries
    <3> QED
      BY <2>5, <3>1 DEF BeginLogin, Begin
  <2>6. ASSUME NEW r \in Requests, NEW e \in Emails, GoogleSignIn(r, e) PROVE CodesInv'
    <3>1. \A q \in Requests : call'[q] = call[q] \/ call'[q].pc = "issueTokens"
      BY <2>6 DEF GoogleSignIn, Idle
    <3>2. CarriedWereIssued'
      BY <2>6, <3>1 DEF GoogleSignIn, CarriedWereIssued, Carries
    <3> QED
      BY <2>6, <3>2 DEF GoogleSignIn
  <2>7. ASSUME NEW r \in Requests, NEW e \in Emails, BeginResend(r, e) PROVE CodesInv'
    <3>1. CarriedWereIssued'
      BY <2>7 DEF BeginResend, Begin, Steps, Carries
    <3> QED
      BY <2>7, <3>1 DEF BeginResend, Begin
  <2>8. ASSUME NEW r \in Requests, NEW e \in Emails, NEW c \in Codes, BeginVerify(r, e, c)
        PROVE  CodesInv'
    <3>1. CarriedWereIssued'
      BY <2>8 DEF BeginVerify, Begin, Steps, Carries
    <3> QED
      BY <2>8, <3>1 DEF BeginVerify, Begin
  <2>9. ASSUME NEW r \in Requests, ReadAttempts(r) \/ ReadResends(r) PROVE CodesInv'
    <3>1. \A q \in Requests : call'[q] = call[q] \/ call'[q].pc \notin Carries
      BY <2>9 DEF ReadAttempts, ReadResends, Finish, Idle, Carries, Call
    <3>2. CarriedWereIssued'
      BY <2>9, <3>1 DEF ReadAttempts, ReadResends, CarriedWereIssued
    <3> QED
      BY <2>9, <3>2 DEF ReadAttempts, ReadResends
  <2>10. ASSUME NEW r \in Requests, CompareOtp(r) PROVE CodesInv'
    <3>1. CASE OtpMatches(call[r].email, call[r].code)
      <4>1. call[r].code \in issued[call[r].email]
        BY <2>10, <3>1, LocalsSound DEF CompareOtp, OtpMatches, HoldsCode
      <4>2. CarriedWereIssued'
        BY <2>10, <3>1, <4>1 DEF CompareOtp, Goto, CarriedWereIssued, Call
      <4> QED
        BY <2>10, <3>1, <4>2 DEF CompareOtp
    <3>2. CASE ~OtpMatches(call[r].email, call[r].code)
      <4>1. CarriedWereIssued'
        BY <2>10, <3>2 DEF CompareOtp, Steps, Carries
      <4> QED
        BY <2>10, <3>2, <4>1 DEF CompareOtp
    <3> QED
      BY <3>1, <3>2
  <2>11. ASSUME NEW r \in Requests, CountWrong(r) PROVE CodesInv'
    <3>1. CarriedWereIssued'
      BY <2>11 DEF CountWrong
    <3> QED
      BY <2>11, <3>1 DEF CountWrong
  <2>12. ASSUME NEW r \in Requests, MarkVerified(r) PROVE CodesInv'
    <3>1. CarriedWereIssued'
      BY <2>12 DEF MarkVerified, Steps, Verified, Carries
    <3> QED
      BY <2>12, <3>1 DEF MarkVerified
  <2>13. ASSUME NEW r \in Requests, DropOtp(r) PROVE CodesInv'
    <3>1. CarriedWereIssued'
      BY <2>13 DEF DropOtp, Steps, Verified, Carries
    <3> QED
      BY <2>13, <3>1 DEF DropOtp
  <2>14. ASSUME NEW r \in Requests, DropAttempts(r) PROVE CodesInv'
    <3>1. CarriedWereIssued'
      BY <2>14 DEF DropAttempts, Steps, Verified, Carries
    <3> QED
      BY <2>14, <3>1 DEF DropAttempts
  <2>15. ASSUME NEW r \in Requests, MailWelcome(r) PROVE CodesInv'
    <3>1. CarriedWereIssued'
      BY <2>15 DEF MailWelcome, Steps, Verified, Carries
    <3> QED
      BY <2>15, <3>1 DEF MailWelcome
  <2>16. ASSUME NEW r \in Requests, IssueTokens(r) \/ Fail(r) PROVE CodesInv'
    <3>1. CarriedWereIssued'
      BY <2>16 DEF IssueTokens, Fail
    <3> QED
      BY <2>16, <3>1 DEF IssueTokens, Fail
  <2>17. ASSUME NEW r \in Requests, BumpResends(r) PROVE CodesInv'
    <3>1. CarriedWereIssued'
      BY <2>17 DEF BumpResends, Steps, Carries
    <3> QED
      BY <2>17, <3>1 DEF BumpResends
  <2>18. ASSUME NEW e \in Emails,
                ExpireOtp(e) \/ ExpireAttempts(e) \/ ExpireResends(e) \/ RemoveUser(e)
         PROVE  CodesInv'
    BY <2>18 DEF ExpireOtp, ExpireAttempts, ExpireResends, RemoveUser, CarriedWereIssued
  <2>19. CASE UNCHANGED vars
    BY <2>19 DEF vars, CarriedWereIssued
  <2> QED
    BY <2>1, <2>2, <2>3, <2>4, <2>5, <2>6, <2>7, <2>8, <2>9, <2>10, <2>11, <2>12, <2>13,
       <2>14, <2>15, <2>16, <2>17, <2>18, <2>19 DEF Next, Handle, Arrive
<1> QED
  BY <1>1, <1>2, TypedInvariant, PTL DEF Spec

\* Every mailed code was in Redis before its mail was queued, whatever failed,
\* expired or was overwritten since (sendVerificationEmail).
THEOREM MailedCodesTheorem == Spec => []MailedCodesWereStored
<1>1. CodesInv => MailedCodesWereStored
  BY DEF CodesInv
<1> QED
  BY <1>1, CodesInvariant, PTL

\* Only a request that found the account and brings a code that Redis held for
\* its address, or Google, verifies it.
THEOREM OnlyStoredCodesTheorem == Spec => OnlyStoredCodesVerify
<1> DEFINE A == \A e \in Emails :
                  users[e].live /\ ~users[e].verified /\ users'[e].verified =>
                     \/ \E r \in Requests : /\ call[r].pc = "markVerified"
                                            /\ call[r].email = e
                                            /\ call[r].id = users[e].id
                                            /\ call[r].code \in issued[e]
                     \/ \E r \in Requests : GoogleSignIn(r, e)
<1>1. Typed /\ CodesInv /\ [Next]_vars => [A]_vars
  <2> SUFFICES ASSUME Typed, CodesInv, [Next]_vars, vars' # vars, NEW e \in Emails,
                      users[e].live, ~users[e].verified, users'[e].verified
               PROVE  \/ \E r \in Requests : /\ call[r].pc = "markVerified"
                                            /\ call[r].email = e
                                            /\ call[r].id = users[e].id
                                            /\ call[r].code \in issued[e]
                      \/ \E r \in Requests : GoogleSignIn(r, e)
    OBVIOUS
  <2>1. ASSUME NEW r \in Requests, InsertUser(r) PROVE FALSE
    BY <2>1, LocalsSound DEF InsertUser, NewAccount, EmailTaken, Typed, TypeOK, Account
  <2>2. ASSUME NEW r \in Requests, MarkVerified(r)
        PROVE  /\ call[r].pc = "markVerified" /\ call[r].email = e
               /\ call[r].id = users[e].id /\ call[r].code \in issued[e]
    <3>1. call[r].email = e /\ call[r].id = users[e].id
      BY <2>2, LocalsSound DEF MarkVerified, VerifyById, Typed, TypeOK, Account
    <3> QED
      BY <2>2, <3>1 DEF MarkVerified, CodesInv, CarriedWereIssued, Carries
  <2>3. ASSUME NEW r \in Requests, NEW d \in Emails, GoogleSignIn(r, d) PROVE GoogleSignIn(r, e)
    <3>1. d = e
      BY <2>3 DEF GoogleSignIn, Typed, TypeOK
    <3> QED
      BY <2>3, <3>1
  <2>4. ASSUME NEW d \in Emails, RemoveUser(d) PROVE FALSE
    BY <2>4 DEF RemoveUser, Typed, TypeOK, Account
  <2>5. CASE UNCHANGED users
    BY <2>5
  <2> QED
    BY <2>1, <2>2, <2>3, <2>4, <2>5
    DEF Next, Handle, Arrive, BeginRegister, StoreOtp, MailOtp, BeginLogin, BeginVerify,
        ReadAttempts, CompareOtp, CountWrong, DropOtp, DropAttempts, MailWelcome, IssueTokens,
        BeginResend, ReadResends, BumpResends, Fail, ExpireOtp, ExpireAttempts, ExpireResends,
        Begin, store
<1> QED
  BY <1>1, TypedInvariant, CodesInvariant, PTL DEF Spec, OnlyStoredCodesVerify

-----------------------------------------------------------------------------
(* Counters: what a request read of a counter that has not lapsed since is  *)
(* covered by wrong codes counted since it last lapsed.                    *)

Counts == {"compare", "countWrong"}

CountsAreHonest ==
    \A r \in Requests \ overtaken :
        call[r].pc \in Counts /\ call[r].email \notin stale =>
            call[r].count <= refused[call[r].email]

CountsInv == LockoutNeedsWrongCodes /\ CountsAreHonest

\* Where a step leaves the requests: the others stand still, and r goes
\* outside P unless its step is one of those that lead into P.
LEMMA StepOutside ==
  ASSUME Typed, NEW P, "idle" \notin P, NEW r \in Requests,
         \/ Finish(r)
         \/ \E pc \in Steps \ P : Goto(r, pc)
         \/ \E e \in Emails, pc \in Steps \ P, c \in Codes \cup {NoCode} : Begin(r, e, pc, c)
  PROVE  \A q \in Requests : call'[q] = call[q] \/ call'[q].pc \notin P
<1>1. CASE Finish(r)
  BY <1>1 DEF Typed, TypeOK, Finish, Idle
<1>2. ASSUME NEW pc \in Steps \ P, Goto(r, pc) PROVE call'[r].pc \notin P
  BY <1>2 DEF Typed, TypeOK, Goto, Call
<1>3. ASSUME NEW e \in Emails, NEW pc \in Steps \ P, NEW c \in Codes \cup {NoCode},
             Begin(r, e, pc, c)
      PROVE  call'[r].pc \notin P
  BY <1>3 DEF Typed, TypeOK, Begin, Idle
<1>4. \A q \in Requests \ {r} : call'[q] = call[q]
  BY DEF Typed, TypeOK, Finish, Goto, Begin
<1> QED
  BY <1>1, <1>2, <1>3, <1>4

\* The steps that leave the counter, and the requests that compare codes, alone.
CountQuiet ==
    /\ \A q \in Requests : call'[q] = call[q] \/ call'[q].pc \notin Counts
    /\ UNCHANGED <<attempts, refused, overtaken, stale>>

LEMMA CountSteps ==
  ASSUME Typed, [Next]_vars
  PROVE  \/ CountQuiet
         \/ \E r \in Requests : \/ ReadAttempts(r) \/ CompareOtp(r) \/ CountWrong(r)
                               \/ DropAttempts(r)
         \/ \E e \in Emails : ExpireAttempts(e)
<1> USE AttemptLimitAssumption, CodesAssumption
<1> USE DEF Typed, TypeOK, store, history
<1> DEFINE Outside == \A q \in Requests : call'[q] = call[q] \/ call'[q].pc \notin Counts
<1>0. ASSUME Outside, UNCHANGED <<attempts, refused, overtaken, stale>> PROVE CountQuiet
  BY <1>0 DEF CountQuiet
<1>1. ASSUME NEW r \in Requests, NEW e \in Emails, BeginRegister(r, e)
      PROVE  CountQuiet
  <2>1. Outside
    BY <1>1, StepOutside DEF BeginRegister, Begin, Steps, Verified, Counts
  <2> QED
    BY <1>1, <2>1, <1>0 DEF BeginRegister, Begin
<1>2. ASSUME NEW r \in Requests, InsertUser(r)
      PROVE  CountQuiet
  <2>1. Outside
    BY <1>2, StepOutside DEF InsertUser, Steps, Verified, Counts
  <2> QED
    BY <1>2, <2>1, <1>0 DEF InsertUser
<1>3. ASSUME NEW r \in Requests, StoreOtp(r)
      PROVE  CountQuiet
  <2>1. Outside
    BY <1>3 DEF StoreOtp, Counts, Call
  <2> QED
    BY <1>3, <2>1, <1>0 DEF StoreOtp
<1>4. ASSUME NEW r \in Requests, MailOtp(r)
      PROVE  CountQuiet
  <2>1. Outside
    BY <1>4, StepOutside DEF MailOtp, Steps, Verified, Counts
  <2> QED
    BY <1>4, <2>1, <1>0 DEF MailOtp
<1>5. ASSUME NEW r \in Requests, NEW e \in Emails, BeginLogin(r, e)
      PROVE  CountQuiet
  <2>1. \E pc \in {"issueTokens", "storeOtp"} : Begin(r, e, pc, NoCode)
    BY <1>5 DEF BeginLogin
  <2>2. Outside
    BY <2>1, StepOutside DEF Steps, Verified, Counts
  <2> QED
    BY <2>1, <2>2, <1>0 DEF Begin
<1>6. ASSUME NEW r \in Requests, NEW e \in Emails, GoogleSignIn(r, e)
      PROVE  CountQuiet
  <2>1. Outside
    BY <1>6 DEF GoogleSignIn, Idle, Counts
  <2> QED
    BY <1>6, <2>1, <1>0 DEF GoogleSignIn
<1>7. ASSUME NEW r \in Requests, NEW e \in Emails, BeginResend(r, e)
      PROVE  CountQuiet
  <2>1. Outside
    BY <1>7, StepOutside DEF BeginResend, Begin, Steps, Verified, Counts
  <2> QED
    BY <1>7, <2>1, <1>0 DEF BeginResend, Begin
<1>8. ASSUME NEW r \in Requests, NEW e \in Emails, NEW c \in Codes, BeginVerify(r, e, c)
      PROVE  CountQuiet
  <2>1. Outside
    BY <1>8, StepOutside DEF BeginVerify, Begin, Steps, Verified, Counts
  <2> QED
    BY <1>8, <2>1, <1>0 DEF BeginVerify, Begin
<1>9. ASSUME NEW r \in Requests, MarkVerified(r)
      PROVE  CountQuiet
  <2>1. Outside
    BY <1>9, StepOutside DEF MarkVerified, Steps, Verified, Counts
  <2> QED
    BY <1>9, <2>1, <1>0 DEF MarkVerified
<1>10. ASSUME NEW r \in Requests, DropOtp(r)
      PROVE  CountQuiet
  <2>1. Outside
    BY <1>10, StepOutside DEF DropOtp, Steps, Verified, Counts
  <2> QED
    BY <1>10, <2>1, <1>0 DEF DropOtp
<1>11. ASSUME NEW r \in Requests, MailWelcome(r)
      PROVE  CountQuiet
  <2>1. Outside
    BY <1>11, StepOutside DEF MailWelcome, Steps, Verified, Counts
  <2> QED
    BY <1>11, <2>1, <1>0 DEF MailWelcome
<1>12. ASSUME NEW r \in Requests, IssueTokens(r)
      PROVE  CountQuiet
  <2>1. Outside
    BY <1>12, StepOutside DEF IssueTokens, Steps, Verified, Counts
  <2> QED
    BY <1>12, <2>1, <1>0 DEF IssueTokens
<1>13. ASSUME NEW r \in Requests, ReadResends(r)
      PROVE  CountQuiet
  <2>1. Outside
    BY <1>13 DEF ReadResends, Finish, Idle, Counts, Call
  <2> QED
    BY <1>13, <2>1, <1>0 DEF ReadResends
<1>14. ASSUME NEW r \in Requests, BumpResends(r)
      PROVE  CountQuiet
  <2>1. Outside
    BY <1>14, StepOutside DEF BumpResends, Steps, Verified, Counts
  <2> QED
    BY <1>14, <2>1, <1>0 DEF BumpResends
<1>15. ASSUME NEW r \in Requests, Fail(r)
      PROVE  CountQuiet
  <2>1. Outside
    BY <1>15, StepOutside DEF Fail, Steps, Verified, Counts
  <2> QED
    BY <1>15, <2>1, <1>0 DEF Fail
<1>16. ASSUME NEW e \in Emails, ExpireOtp(e) \/ ExpireResends(e) \/ RemoveUser(e)
      PROVE  CountQuiet
  BY <1>16, <1>0 DEF ExpireOtp, ExpireResends, RemoveUser
<1>17. CASE UNCHANGED vars
  BY <1>17, <1>0 DEF vars
<1> QED
  BY <1>1, <1>2, <1>3, <1>4, <1>5, <1>6, <1>7, <1>8, <1>9, <1>10, <1>11, <1>12, <1>13, <1>14, <1>15, <1>16, <1>17
  DEF Next, Handle, Arrive

LEMMA CountsInvariant == Spec => []CountsInv
<1>1. Init => CountsInv
  BY DEF Init, CountsInv, LockoutNeedsWrongCodes, CountsAreHonest, Counts, Idle
<1>2. Typed /\ CountsInv /\ [Next]_vars => CountsInv'
  <2> SUFFICES ASSUME Typed, CountsInv, [Next]_vars PROVE CountsInv'
    OBVIOUS
  <2> USE AttemptLimitAssumption, CodesAssumption
  <2> USE DEF Typed, TypeOK, CountsInv, LockoutNeedsWrongCodes, store, history
  <2> DEFINE Outside == \A q \in Requests : call'[q] = call[q] \/ call'[q].pc \notin Counts
  <2>1. ASSUME NEW r \in Requests, ReadAttempts(r)
        PROVE  CountsInv'
    <3>1. \A q \in Requests \ {r} : call'[q] = call[q]
      BY <2>1 DEF ReadAttempts, Finish
    <3>2. \/ call'[r].pc = "idle"
          \/ /\ call'[r].pc = "compare"
             /\ call'[r].email = call[r].email
             /\ call'[r].count = attempts[call[r].email]
      BY <2>1 DEF ReadAttempts, Finish, Idle, Call
    <3>3. CountsAreHonest'
      BY <2>1, <3>1, <3>2, LocalsSound DEF ReadAttempts, CountsAreHonest, Counts
    <3> QED
      BY <2>1, <3>3 DEF ReadAttempts
  <2>2. ASSUME NEW r \in Requests, CompareOtp(r)
        PROVE  CountsInv'
    <3>1. /\ \A q \in Requests \ {r} : call'[q] = call[q]
          /\ call'[r].email = call[r].email /\ call'[r].count = call[r].count
      BY <2>2 DEF CompareOtp, Goto, Call
    <3>2. CountsAreHonest'
      BY <2>2, <3>1 DEF CompareOtp, CountsAreHonest, Counts
    <3> QED
      BY <2>2, <3>2 DEF CompareOtp
  <2>3. ASSUME NEW r \in Requests, CountWrong(r)
        PROVE  CountsInv'
    <3> DEFINE e == call[r].email
               n == call[r].count
    <3>1. e \in Emails /\ n \in 0..(AttemptLimit - 1)
      BY <2>3, LocalsSound DEF CountWrong, HoldsCount
    <3>2. Outside
      BY <2>3, StepOutside DEF CountWrong, Counts
    <3>3. e \notin stale' => n <= refused[e]
      BY <2>3 DEF CountWrong, CountsAreHonest, Counts
    <3>4. /\ attempts' = [attempts EXCEPT ![e] = n + 1]
          /\ refused' = [refused EXCEPT ![e] = AtMost(AttemptLimit + 1, @ + 1)]
          /\ stale \subseteq stale' /\ overtaken' = overtaken
      BY <2>3 DEF CountWrong, Counted
    <3>5. \A d \in Emails : refused[d] <= refused'[d] /\ refused[d] \in Nat
                            /\ refused'[d] \in Nat
      BY <3>1, <3>4 DEF AtMost
    <3>6. CountsAreHonest'
      <4> SUFFICES ASSUME NEW q \in Requests \ overtaken', call'[q].pc \in Counts,
                          call'[q].email \notin stale'
                   PROVE  call'[q].count <= refused'[call'[q].email]
        BY DEF CountsAreHonest
      <4>1. call'[q] = call[q]
        BY <3>2
      <4>2. call[q].count <= refused[call[q].email]
        BY <3>4, <4>1 DEF CountsAreHonest
      <4>3. call[q].email \in Emails /\ call[q].count \in Nat
        BY LocalsSound, <4>1 DEF Counts, HoldsCount
      <4> DEFINE m == call[q].count
                 d == call[q].email
      <4>4. m <= refused[d] /\ m \in Nat /\ d \in Emails
        BY <4>2, <4>3
      <4> HIDE DEF m, d
      <4>5. m <= refused'[d]
        BY <3>5, <4>4
      <4> QED
        BY <4>1, <4>5 DEF m, d
    <3> HIDE DEF e, n
    <3>7. ASSUME NEW d \in Emails, d \notin stale' PROVE attempts'[d] <= refused'[d]
      <4>1. CASE d = e
        <5>1. n <= refused[e] /\ refused[e] \in 0..AttemptLimit + 1
          BY <3>1, <3>3, <3>7, <4>1
        <5>2. attempts'[e] = n + 1 /\ refused'[e] = AtMost(AttemptLimit + 1, refused[e] + 1)
          BY <3>1, <3>4
        <5> QED
          BY <3>1, <4>1, <5>1, <5>2 DEF AtMost
      <4>2. CASE d # e
        <5>1. attempts'[d] = attempts[d] /\ refused'[d] = refused[d]
          BY <3>4, <4>2
        <5> QED
          BY <3>4, <3>7, <5>1
      <4> QED
        BY <4>1, <4>2
    <3> QED
      BY <3>6, <3>7
  <2>4. ASSUME NEW e \in Emails, ClearAttempts(e),
               \A q \in Requests : call'[q] = call[q] \/ call'[q].pc \notin Counts
        PROVE  CountsInv'
    <3>1. CountsAreHonest'
      <4> SUFFICES ASSUME NEW q \in Requests \ overtaken', call'[q].pc \in Counts,
                          call'[q].email \notin stale'
                   PROVE  call'[q].count <= refused'[call'[q].email]
        BY DEF CountsAreHonest
      <4>1. call'[q] = call[q] /\ call[q].email # e /\ q \notin overtaken
        BY <2>4 DEF ClearAttempts, Counting, Counts
      <4>2. call[q].email \notin stale
        BY <2>4, <4>1 DEF ClearAttempts
      <4>3. refused'[call[q].email] = refused[call[q].email]
        BY <2>4, <4>1, LocalsSound DEF ClearAttempts
      <4> QED
        BY <4>1, <4>2, <4>3 DEF CountsAreHonest
    <3>2. LockoutNeedsWrongCodes'
      BY <2>4 DEF ClearAttempts
    <3> QED
      BY <3>1, <3>2
  <2>5. ASSUME NEW r \in Requests, DropAttempts(r)
        PROVE  CountsInv'
    <3>1. Outside
      BY <2>5, StepOutside DEF DropAttempts, Steps, Verified, Counts
    <3> QED
      BY <2>4, <2>5, <3>1, LocalsSound DEF DropAttempts
  <2>7. ASSUME NEW e \in Emails, ExpireAttempts(e) PROVE CountsInv'
    BY <2>4, <2>7 DEF ExpireAttempts
  <2>6. CASE CountQuiet
    BY <2>6 DEF CountQuiet, CountsAreHonest, Counts
  <2> QED
    BY <2>1, <2>2, <2>3, <2>5, <2>6, <2>7, CountSteps
<1> QED
  BY <1>1, <1>2, TypedInvariant, PTL DEF Spec

\* The counter never runs ahead of the wrong codes counted since it last lapsed,
\* but where an overtaken request wrote it, at any limit (verifyEmail).
THEOREM LockoutTheorem == Spec => []LockoutNeedsWrongCodes
<1>1. CountsInv => LockoutNeedsWrongCodes
  BY DEF CountsInv
<1> QED
  BY <1>1, CountsInvariant, PTL

\* While no two requests compare codes of one address at the same time, which
\* the code does nothing to ensure, the count a request read is still right
\* when it writes it back.
OneComparisonAtATime ==
    \A q, r \in Requests :
        q # r /\ call[q].pc \in Counts /\ call[r].pc \in Counts =>
          call[q].email # call[r].email

RefusalsCounted ==
    /\ \A e \in Emails : refused[e] <= attempts[e]
    /\ \A r \in Requests : call[r].pc \in Counts => refused[call[r].email] <= call[r].count

LEMMA RefusalsStep ==
  Typed /\ RefusalsCounted /\ OneComparisonAtATime /\ [Next]_vars => RefusalsCounted'
<1> SUFFICES ASSUME Typed, RefusalsCounted, OneComparisonAtATime, [Next]_vars
             PROVE  RefusalsCounted'
  OBVIOUS
<1> USE AttemptLimitAssumption DEF Typed, TypeOK
<1>1. CASE CountQuiet
  BY <1>1 DEF CountQuiet, RefusalsCounted
<1>2. ASSUME NEW r \in Requests, ReadAttempts(r)
      PROVE  RefusalsCounted'
  <2>1. UNCHANGED <<attempts, refused>> /\ \A q \in Requests \ {r} : call'[q] = call[q]
    BY <1>2 DEF ReadAttempts, Finish, store, history
  <2>2. \/ call'[r].pc = "idle"
        \/ call'[r].email = call[r].email /\ call'[r].count = attempts[call[r].email]
    BY <1>2 DEF ReadAttempts, Finish, Idle, Call
  <2> QED
    BY <2>1, <2>2, LocalsSound DEF RefusalsCounted, Counts
<1>3. ASSUME NEW r \in Requests, CompareOtp(r)
      PROVE  RefusalsCounted'
  <2>1. UNCHANGED <<attempts, refused>> /\ \A q \in Requests \ {r} : call'[q] = call[q]
    BY <1>3 DEF CompareOtp, Goto, store, history
  <2>2. /\ call[r].pc = "compare" /\ call'[r].email = call[r].email
        /\ call'[r].count = call[r].count
    BY <1>3 DEF CompareOtp, Goto, Call
  <2> QED
    BY <2>1, <2>2 DEF RefusalsCounted, Counts
<1>4. ASSUME NEW r \in Requests, CountWrong(r)
      PROVE  RefusalsCounted'
  <2>1. PICK e \in Emails : e = call[r].email
    BY LocalsSound
  <2>2. /\ call[r].pc = "countWrong" /\ call'[r].pc = "idle"
        /\ \A q \in Requests \ {r} : call'[q] = call[q]
        /\ attempts' = [attempts EXCEPT ![e] = call[r].count + 1]
        /\ refused' = [refused EXCEPT ![e] = AtMost(AttemptLimit + 1, refused[e] + 1)]
    BY <1>4, <2>1 DEF CountWrong, Counted, Finish, Idle
  <2>3. refused'[e] <= attempts'[e]
    <3>1. refused[e] <= call[r].count /\ refused[e] \in Nat /\ call[r].count \in Nat
      BY <2>1, <2>2 DEF RefusalsCounted, Counts, Call
    <3>2. refused'[e] <= refused[e] + 1 /\ refused'[e] \in Nat /\ attempts'[e] = call[r].count + 1
      BY <2>2, <3>1 DEF AtMost
    <3> QED
      BY <3>1, <3>2
  <2>4. \A d \in Emails \ {e} : attempts'[d] = attempts[d] /\ refused'[d] = refused[d]
    BY <2>2
  <2>5. ASSUME NEW q \in Requests, call'[q].pc \in Counts
        PROVE  refused'[call'[q].email] <= call'[q].count
    <3>1. q # r /\ call'[q] = call[q]
      BY <2>2, <2>5 DEF Counts
    <3>2. call[q].email \in Emails \ {e}
      BY <2>1, <2>2, <2>5, <3>1, LocalsSound DEF OneComparisonAtATime, Counts
    <3> QED
      BY <2>4, <2>5, <3>1, <3>2 DEF RefusalsCounted
  <2> QED
    BY <2>3, <2>4, <2>5 DEF RefusalsCounted
<1>5. ASSUME NEW e \in Emails,
             attempts' = [attempts EXCEPT ![e] = 0], refused' = [refused EXCEPT ![e] = 0],
             \A q \in Requests : call'[q] = call[q] \/ call'[q].pc \notin Counts
      PROVE  RefusalsCounted'
  <2>1. \A d \in Emails : \/ attempts'[d] = attempts[d] /\ refused'[d] = refused[d]
                          \/ attempts'[d] = 0 /\ refused'[d] = 0
    BY <1>5
  <2>2. \A q \in Requests : call[q].count \in Nat /\ call[q].email \in Emails
    BY DEF Call
  <2> QED
    BY <1>5, <2>1, <2>2 DEF RefusalsCounted
<1>6. ASSUME NEW r \in Requests, DropAttempts(r)
      PROVE  RefusalsCounted'
  <2>1. \A q \in Requests : call'[q] = call[q] \/ call'[q].pc \notin Counts
    BY <1>6, StepOutside DEF DropAttempts, Steps, Verified, Counts
  <2> QED
    BY <1>5, <1>6, <2>1, LocalsSound DEF DropAttempts, ClearAttempts
<1>7. ASSUME NEW e \in Emails, ExpireAttempts(e)
      PROVE  RefusalsCounted'
  BY <1>5, <1>7 DEF ExpireAttempts, ClearAttempts
<1> QED
  BY <1>1, <1>2, <1>3, <1>4, <1>6, <1>7, CountSteps

\* Only verifications of one address that overlap between the read of its
\* counter and the write get past the limit: as long as none do, at most
\* AttemptLimit wrong codes are refused however failures, expiries, resends
\* and accounts under the address interleave (verifyEmail).
THEOREM LimitHoldsAlone == Spec /\ []OneComparisonAtATime => []WithinAttemptLimit
<1>1. Init => RefusalsCounted
  BY DEF Init, RefusalsCounted, Idle, Counts
<1>2. Typed /\ RefusalsCounted => WithinAttemptLimit
  BY AttemptLimitAssumption DEF Typed, TypeOK, RefusalsCounted, WithinAttemptLimit
<1>3. Typed /\ RefusalsCounted /\ OneComparisonAtATime /\ [Next]_vars => RefusalsCounted'
  BY RefusalsStep
<1> QED
  BY <1>1, <1>2, <1>3, TypedInvariant, PTL DEF Spec

-----------------------------------------------------------------------------
(* Accounts: an id is never given twice, and what a request has seen of an *)
(* account stays true of it for as long as it lives.                       *)

EvolvesFrom(old, new) ==
    /\ old.id <= new.id
    /\ new.live /\ new.id = old.id => old.live /\ (old.verified => new.verified)
    /\ old.live /\ new.live => new.id = old.id

LEMMA AccountsEvolve ==
  ASSUME Typed, [Next]_vars
  PROVE  \A e \in Emails : EvolvesFrom(users[e], users'[e])
<1> USE DEF Typed, TypeOK, EvolvesFrom
<1>1. ASSUME NEW r \in Requests, InsertUser(r)
      PROVE  \A e \in Emails : EvolvesFrom(users[e], users'[e])
  <2>1. CASE EmailTaken(call[r].email)
    BY <1>1, <2>1 DEF InsertUser, Account
  <2>2. CASE ~EmailTaken(call[r].email)
    <3>1. users' = [users EXCEPT ![call[r].email] = NewAccount(call[r].email, FALSE)]
      BY <1>1, <2>2 DEF InsertUser
    <3> QED
      BY <2>2, <3>1 DEF NewAccount, EmailTaken, Account
  <2> QED
    BY <2>1, <2>2
<1>2. ASSUME NEW r \in Requests, NEW e \in Emails, GoogleSignIn(r, e)
      PROVE  \A a \in Emails : EvolvesFrom(users[a], users'[a])
  <2>1. CASE Registered(e)
    BY <1>2, <2>1 DEF GoogleSignIn, Registered, Account
  <2>2. CASE ~Registered(e)
    BY <1>2, <2>2 DEF GoogleSignIn, Registered, NewAccount, Account
  <2> QED
    BY <2>1, <2>2
<1>3. ASSUME NEW r \in Requests, MarkVerified(r)
      PROVE  \A e \in Emails : EvolvesFrom(users[e], users'[e])
  BY <1>3, LocalsSound DEF MarkVerified, VerifyById, Account
<1>4. ASSUME NEW e \in Emails, RemoveUser(e)
      PROVE  \A a \in Emails : EvolvesFrom(users[a], users'[a])
  BY <1>4 DEF RemoveUser, Account
<1>5. CASE UNCHANGED users
  BY <1>5 DEF Account
<1> QED
  BY <1>1, <1>2, <1>3, <1>4, <1>5
  DEF Next, Handle, Arrive, BeginRegister, StoreOtp, MailOtp, BeginLogin, BeginVerify,
      ReadAttempts, CompareOtp, CountWrong, DropOtp, DropAttempts, MailWelcome, IssueTokens,
      BeginResend, ReadResends, BumpResends, Fail, ExpireOtp, ExpireAttempts, ExpireResends,
      Begin, store, vars

\* A verified account is unverified by nothing, not even by a registration of
\* the same address that is already under way.
THEOREM VerificationIsFinalTheorem == Spec => VerificationIsFinal
<1>1. Typed /\ [Next]_vars =>
        [\A e \in Emails : users[e].live /\ users[e].verified /\ users'[e].live =>
            users'[e].verified]_vars
  BY AccountsEvolve DEF EvolvesFrom
<1> QED
  BY <1>1, TypedInvariant, PTL DEF Spec, VerificationIsFinal

GoodCall(c) ==
    /\ c.id <= users[c.email].id
    /\ c.pc \in Verified => AccountVerifiedOrGone(c.email, c.id)

AccountsInv == \A r \in Requests : GoodCall(call[r])

LEMMA GoodCallsStayGood ==
  ASSUME Typed, [Next]_vars
  PROVE  \A c \in Call : GoodCall(c) => GoodCall(c)'
<1> SUFFICES ASSUME NEW c \in Call, GoodCall(c) PROVE GoodCall(c)'
  OBVIOUS
<1>1. c.email \in Emails /\ c.id \in Nat
  BY DEF Call
<1>2. users[c.email] \in Account /\ users'[c.email] \in Account
  BY <1>1, TypedStep DEF Typed, TypeOK
<1>3. EvolvesFrom(users[c.email], users'[c.email])
  BY <1>1, AccountsEvolve
<1> QED
  BY <1>1, <1>2, <1>3 DEF GoodCall, AccountVerifiedOrGone, EvolvesFrom, Account

LEMMA NewCallGood ==
  ASSUME Typed, AccountsInv, [Next]_vars, NEW r \in Requests, NEW c \in Call, GoodCall(c),
         call' = [call EXCEPT ![r] = c]
  PROVE  AccountsInv'
<1>1. \A q \in Requests : call'[q] = IF q = r THEN c ELSE call[q]
  BY DEF Typed, TypeOK
<1>2. \A q \in Requests : call[q] \in Call /\ GoodCall(call[q])
  BY DEF Typed, TypeOK, AccountsInv
<1> QED
  BY <1>1, <1>2, GoodCallsStayGood DEF AccountsInv, GoodCall, AccountVerifiedOrGone

\* The three ways a step leaves its own request on record.
LEMMA FinishGood ==
  ASSUME Typed, AccountsInv, [Next]_vars, NEW r \in Requests, Finish(r)
  PROVE  AccountsInv'
<1>1. Idle \in Call
  BY IdleIsSound DEF SoundCall
<1>2. GoodCall(Idle)
  BY <1>1 DEF GoodCall, Idle, Verified, Typed, TypeOK, Account, Call
<1> QED
  BY <1>1, <1>2, NewCallGood DEF Finish

LEMMA GotoGood ==
  ASSUME Typed, AccountsInv, [Next]_vars, NEW r \in Requests, NEW pc \in Steps, Goto(r, pc),
         pc \in Verified => call[r].pc \in Verified
  PROVE  AccountsInv'
<1> DEFINE c == [call[r] EXCEPT !.pc = pc]
<1>1. c \in Call /\ c.pc = pc /\ c.id = call[r].id /\ c.email = call[r].email
  BY DEF Typed, TypeOK, Call
<1>2. GoodCall(c)
  BY <1>1 DEF AccountsInv, GoodCall
<1>3. call' = [call EXCEPT ![r] = c]
  BY DEF Goto, Typed, TypeOK
<1> QED
  BY <1>1, <1>2, <1>3, NewCallGood

LEMMA BeginGood ==
  ASSUME Typed, AccountsInv, [Next]_vars, NEW r \in Requests, NEW e \in Emails,
         NEW pc \in Steps, NEW code \in Codes \cup {NoCode}, Begin(r, e, pc, code),
         pc \in Verified => users[e].verified
  PROVE  AccountsInv'
<1> DEFINE c == [Idle EXCEPT !.pc = pc, !.email = e, !.id = users[e].id, !.code = code]
<1>1. c \in Call /\ c.pc = pc /\ c.id = users[e].id /\ c.email = e
  BY IdleIsSound DEF SoundCall, Typed, TypeOK, Call, Account, Idle
<1>2. GoodCall(c)
  BY <1>1 DEF GoodCall, AccountVerifiedOrGone, Typed, TypeOK, Account
<1> QED
  BY <1>1, <1>2, NewCallGood DEF Begin

LEMMA AccountsStep == Typed /\ AccountsInv /\ [Next]_vars => AccountsInv'
<1> SUFFICES ASSUME Typed, AccountsInv, [Next]_vars PROVE AccountsInv'
  OBVIOUS
<1> USE FinishGood, GotoGood, BeginGood
<1> USE DEF Steps, Verified
<1>1. ASSUME NEW r \in Requests, NEW e \in Emails, BeginRegister(r, e)
      PROVE  AccountsInv'
  BY <1>1 DEF BeginRegister
<1>2. ASSUME NEW r \in Requests, InsertUser(r)
      PROVE  AccountsInv'
  BY <1>2 DEF InsertUser
<1>3. ASSUME NEW r \in Requests, MailOtp(r)
      PROVE  AccountsInv'
  BY <1>3 DEF MailOtp
<1>4. ASSUME NEW r \in Requests, NEW e \in Emails, BeginResend(r, e)
      PROVE  AccountsInv'
  BY <1>4 DEF BeginResend
<1>5. ASSUME NEW r \in Requests, NEW e \in Emails, NEW c \in Codes, BeginVerify(r, e, c)
      PROVE  AccountsInv'
  BY <1>5 DEF BeginVerify
<1>6. ASSUME NEW r \in Requests, CompareOtp(r)
      PROVE  AccountsInv'
  BY <1>6 DEF CompareOtp
<1>7. ASSUME NEW r \in Requests, CountWrong(r)
      PROVE  AccountsInv'
  BY <1>7 DEF CountWrong
<1>8. ASSUME NEW r \in Requests, DropOtp(r)
      PROVE  AccountsInv'
  BY <1>8 DEF DropOtp
<1>9. ASSUME NEW r \in Requests, DropAttempts(r)
      PROVE  AccountsInv'
  BY <1>9 DEF DropAttempts
<1>10. ASSUME NEW r \in Requests, MailWelcome(r)
      PROVE  AccountsInv'
  BY <1>10 DEF MailWelcome
<1>11. ASSUME NEW r \in Requests, IssueTokens(r)
      PROVE  AccountsInv'
  BY <1>11 DEF IssueTokens
<1>12. ASSUME NEW r \in Requests, BumpResends(r)
      PROVE  AccountsInv'
  BY <1>12 DEF BumpResends
<1>13. ASSUME NEW r \in Requests, Fail(r)
      PROVE  AccountsInv'
  BY <1>13 DEF Fail
<1>14. ASSUME NEW r \in Requests, NEW e \in Emails, BeginLogin(r, e) PROVE AccountsInv'
  <2>1. CASE users[e].verified
    BY <1>14, <2>1 DEF BeginLogin
  <2>2. CASE ~users[e].verified
    BY <1>14, <2>2 DEF BeginLogin
  <2> QED
    BY <2>1, <2>2
<1>15. ASSUME NEW r \in Requests, StoreOtp(r) PROVE AccountsInv'
  <2>1. PICK code \in Codes : call' = [call EXCEPT ![r].pc = "mailOtp", ![r].code = code]
    BY <1>15 DEF StoreOtp
  <2> DEFINE c == [call[r] EXCEPT !.pc = "mailOtp", !.code = code]
  <2>2. c \in Call /\ c.pc = "mailOtp" /\ c.id = call[r].id /\ c.email = call[r].email
    BY DEF Typed, TypeOK, Call
  <2>3. GoodCall(c)
    BY <2>2 DEF AccountsInv, GoodCall
  <2>4. call' = [call EXCEPT ![r] = c]
    BY <2>1 DEF Typed, TypeOK
  <2> QED
    BY <2>2, <2>3, <2>4, NewCallGood
<1>16. ASSUME NEW r \in Requests, ReadAttempts(r) PROVE AccountsInv'
  <2> DEFINE n == attempts[call[r].email]
             c == [call[r] EXCEPT !.pc = "compare", !.count = n]
  <2>1. CASE LimitReached(n)
    BY <1>16, <2>1 DEF ReadAttempts
  <2>2. CASE ~LimitReached(n)
    <3>1. n \in 0..AttemptLimit
      BY LocalsSound DEF Typed, TypeOK
    <3>2. call' = [call EXCEPT ![r].pc = "compare", ![r].count = n]
      BY <1>16, <2>2 DEF ReadAttempts
    <3> HIDE DEF n
    <3>3. c \in Call /\ c.pc = "compare" /\ c.id = call[r].id /\ c.email = call[r].email
      BY <3>1 DEF Typed, TypeOK, Call
    <3>4. GoodCall(c)
      BY <3>3 DEF AccountsInv, GoodCall
    <3>5. call' = [call EXCEPT ![r] = c]
      BY <3>2 DEF Typed, TypeOK
    <3> QED
      BY <3>3, <3>4, <3>5, NewCallGood
  <2> QED
    BY <2>1, <2>2
<1>17. ASSUME NEW r \in Requests, ReadResends(r) PROVE AccountsInv'
  <2> DEFINE n == resends[call[r].email]
             c == [call[r] EXCEPT !.pc = "bumpResends", !.count = n]
  <2>1. CASE LimitReached(n)
    BY <1>17, <2>1 DEF ReadResends
  <2>2. CASE ~LimitReached(n)
    <3>1. n \in 0..AttemptLimit
      BY LocalsSound DEF Typed, TypeOK
    <3>2. call' = [call EXCEPT ![r].pc = "bumpResends", ![r].count = n]
      BY <1>17, <2>2 DEF ReadResends
    <3> HIDE DEF n
    <3>3. c \in Call /\ c.pc = "bumpResends" /\ c.id = call[r].id /\ c.email = call[r].email
      BY <3>1 DEF Typed, TypeOK, Call
    <3>4. GoodCall(c)
      BY <3>3 DEF AccountsInv, GoodCall
    <3>5. call' = [call EXCEPT ![r] = c]
      BY <3>2 DEF Typed, TypeOK
    <3> QED
      BY <3>3, <3>4, <3>5, NewCallGood
  <2> QED
    BY <2>1, <2>2
<1>18. ASSUME NEW r \in Requests, MarkVerified(r) PROVE AccountsInv'
  <2> DEFINE e == call[r].email
  <2>1. \A q \in Requests \ {r} : GoodCall(call[q])' /\ call'[q] = call[q]
    BY <1>18, GoodCallsStayGood DEF MarkVerified, Goto, Typed, TypeOK, AccountsInv, GoodCall,
       AccountVerifiedOrGone
  <2>2. call'[r].email = e /\ call'[r].id = call[r].id /\ e \in Emails
    BY <1>18, LocalsSound DEF MarkVerified, Goto, Typed, TypeOK, Call
  <2>3. call[r].id <= users'[e].id
    BY <1>18, <2>2 DEF MarkVerified, VerifyById, AccountsInv, GoodCall, Typed, TypeOK, Account
  <2>4. AccountVerifiedOrGone(e, call[r].id)'
    BY <1>18, <2>2 DEF MarkVerified, VerifyById, AccountVerifiedOrGone, Typed, TypeOK, Account
  <2> QED
    BY <2>1, <2>2, <2>3, <2>4 DEF AccountsInv, GoodCall, AccountVerifiedOrGone
<1>19. ASSUME NEW r \in Requests, NEW e \in Emails, GoogleSignIn(r, e) PROVE AccountsInv'
  <2>1. \A q \in Requests \ {r} : call'[q] = call[q]
    BY <1>19 DEF GoogleSignIn, Typed, TypeOK
  <2>2. \A q \in Requests \ {r} : GoodCall(call[q])'
    BY <2>1, GoodCallsStayGood DEF Typed, TypeOK, AccountsInv, GoodCall, AccountVerifiedOrGone
  <2>3. call'[r].email = e /\ call'[r].id = users'[e].id
    BY <1>19 DEF GoogleSignIn, Typed, TypeOK, Idle
  <2>4. users'[e].verified
    <3>1. CASE Registered(e)
      BY <1>19, <3>1 DEF GoogleSignIn, Typed, TypeOK, Account
    <3>2. CASE ~Registered(e)
      BY <1>19, <3>2 DEF GoogleSignIn, NewAccount, Typed, TypeOK
    <3> QED
      BY <3>1, <3>2
  <2>5. users'[e].id \in Nat
    BY TypedStep, MaxAccountsAssumption DEF Typed, TypeOK, Account
  <2>6. GoodCall(call[r])'
    BY <2>3, <2>4, <2>5 DEF GoodCall, AccountVerifiedOrGone
  <2> QED
    BY <2>2, <2>6 DEF AccountsInv
<1>20. ASSUME NEW e \in Emails,
              ExpireOtp(e) \/ ExpireAttempts(e) \/ ExpireResends(e) \/ RemoveUser(e)
       PROVE  AccountsInv'
  <2>1. UNCHANGED call
    BY <1>20 DEF ExpireOtp, ExpireAttempts, ExpireResends, RemoveUser
  <2> QED
    BY <2>1, GoodCallsStayGood
    DEF Typed, TypeOK, AccountsInv, GoodCall, AccountVerifiedOrGone
<1>21. CASE UNCHANGED vars
  BY <1>21 DEF vars, store, AccountsInv, GoodCall, AccountVerifiedOrGone
<1> QED
  BY <1>1, <1>2, <1>3, <1>4, <1>5, <1>6, <1>7, <1>8, <1>9, <1>10, <1>11,
     <1>12, <1>13, <1>14, <1>15, <1>16, <1>17, <1>18, <1>19, <1>20, <1>21
  DEF Next, Handle, Arrive

\* Tokens go only to an account that is verified or gone, on every path that
\* ends in issueTokens, however long ago the path read the account.
THEOREM TokensTheorem == Spec => []TokensNeedVerification
<1>1. Init => AccountsInv
  <2>1. Idle.email \in Emails /\ Idle.id = 0 /\ Idle.pc \notin Verified
    BY EmailsAssumption DEF Idle, Verified
  <2> QED
    BY <2>1 DEF Init, AccountsInv, GoodCall
<1>2. AccountsInv => TokensNeedVerification
  BY DEF AccountsInv, GoodCall, TokensNeedVerification, Verified
<1> QED
  BY <1>1, <1>2, AccountsStep, TypedInvariant, PTL DEF Spec
=============================================================================
