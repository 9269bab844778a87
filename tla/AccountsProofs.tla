--------------------------- MODULE AccountsProofs ---------------------------
(* Theorems about Accounts, for every set of addresses, Google ids and     *)
(* requests, whichever way accounts are deleted.                           *)
EXTENDS Accounts, TLAPS

\* Every link a row holds is in its history.
GoodRow(e) ==
    /\ rows[e].id <= ids
    /\ rows[e].live => rows[e].id > 0
    /\ rows[e].live /\ rows[e].google # NoGoogle => rows[e].google \in links[rows[e].id]

\* A sign-in that was not overtaken finds the rows as its two reads left them.
Fresh(c) ==
    c.pc \in {"findEmail", "upsert"} /\ ~c.overtaken =>
      /\ \A f \in Emails : ~HasGoogle(f, c.google)
      /\ c.pc = "upsert" /\ rows[c.email].live => rows[c.email].google = NoGoogle

GoodCall(c) ==
    /\ c.pc \in {"findEmail", "upsert", "load", "issue"} => c.google \in Googles
    /\ c.pc \in {"load", "issue"} => c.id \in 1..MaxRows /\ c.google \in links[c.id]

GoodRows  == \A e \in Emails : GoodRow(e)
GoodCalls == \A r \in Requests : GoodCall(call[r])
AllFresh  == \A r \in Requests : Fresh(call[r])

Inv == TypeOK /\ GoodRows /\ GoodCalls /\ AllFresh /\ SessionsOfLinkedAccounts

LEMMA IdleIsGood == Idle \in Call /\ Idle.pc = "idle"
  BY EmailsAssumption, MaxRowsAssumption DEF Idle, Call

LEMMA Locals ==
  ASSUME TypeOK, NEW r \in Requests
  PROVE  call[r] \in Call /\ call[r].email \in Emails /\ rows[call[r].email] \in Row
  BY DEF TypeOK, Call

\* The steps that change neither rows nor history, and the call of one request.
Quiet(r) ==
    \/ \E g \in Googles, e \in Emails : BeginGoogle(r, g, e)
    \/ \E e \in Emails : BeginRegister(r, e)
    \/ FindByEmail(r) \/ Load(r) \/ Fail(r)

-----------------------------------------------------------------------------
(* One request's own next record, for the steps that touch no other call.   *)

LEMMA BeginGoogleCall ==
  ASSUME Inv, NEW r \in Requests, NEW g \in Googles, NEW e \in Emails,
         BeginGoogle(r, g, e)
  PROVE  \E c \in Call : /\ call' = [call EXCEPT ![r] = c]
                         /\ GoodCall(c) /\ Fresh(c)
<1> DEFINE c(pc, id) == [pc |-> pc, google |-> g, email |-> e, id |-> id,
                         overtaken |-> FALSE]
<1>1. ASSUME NEW f \in Emails, HasGoogle(f, g), Begin(r, "issue", g, e, rows[f].id)
      PROVE  /\ call' = [call EXCEPT ![r] = c("issue", rows[f].id)]
             /\ c("issue", rows[f].id) \in Call
             /\ GoodCall(c("issue", rows[f].id)) /\ Fresh(c("issue", rows[f].id))
  <2>1. rows[f] \in Row /\ rows[f].id \in 1..MaxRows /\ g \in links[rows[f].id]
    BY <1>1, NoGoogleAssumption, MaxRowsAssumption
    DEF Inv, TypeOK, GoodRows, GoodRow, HasGoogle, Row
  <2> QED
    BY <1>1, <2>1 DEF Begin, Call, Row, GoodCall, Fresh
<1>2. ASSUME \A f \in Emails : ~HasGoogle(f, g), Begin(r, "findEmail", g, e, 0)
      PROVE  /\ call' = [call EXCEPT ![r] = c("findEmail", 0)]
             /\ c("findEmail", 0) \in Call
             /\ GoodCall(c("findEmail", 0)) /\ Fresh(c("findEmail", 0))
  BY <1>2, MaxRowsAssumption DEF Begin, Call, GoodCall, Fresh
<1> QED
  BY <1>1, <1>2 DEF BeginGoogle

LEMMA QuietCall ==
  ASSUME Inv, NEW r \in Requests, Quiet(r)
  PROVE  \E c \in Call : /\ call' = [call EXCEPT ![r] = c]
                         /\ GoodCall(c) /\ Fresh(c)
<1>1. ASSUME Finish(r)
      PROVE  \E c \in Call : call' = [call EXCEPT ![r] = c] /\ GoodCall(c) /\ Fresh(c)
  BY <1>1, IdleIsGood DEF Finish, GoodCall, Fresh
<1>2. ASSUME NEW e \in Emails, BeginRegister(r, e)
      PROVE  \E c \in Call : call' = [call EXCEPT ![r] = c] /\ GoodCall(c) /\ Fresh(c)
  <2> DEFINE c == [pc |-> "insert", google |-> NoGoogle, email |-> e, id |-> 0,
                   overtaken |-> FALSE]
  <2>1. c \in Call /\ GoodCall(c) /\ Fresh(c)
    BY MaxRowsAssumption DEF Call, GoodCall, Fresh
  <2> QED
    BY <1>2, <2>1 DEF BeginRegister, Begin
<1>3. ASSUME call[r].pc = "findEmail",
             ~(/\ rows[call[r].email].live
               /\ rows[call[r].email].google \notin {NoGoogle, call[r].google}),
             call' = [call EXCEPT ![r].pc = "upsert"]
      PROVE  \E c \in Call : call' = [call EXCEPT ![r] = c] /\ GoodCall(c) /\ Fresh(c)
  <2> DEFINE c == [call[r] EXCEPT !.pc = "upsert"]
  <2>1. /\ c \in Call /\ c.pc = "upsert" /\ c.google = call[r].google
        /\ c.email = call[r].email /\ c.overtaken = call[r].overtaken
    BY Locals DEF Inv, Call
  <2>2. GoodCall(c)
    BY <1>3, <2>1 DEF Inv, GoodCalls, GoodCall
  <2>3. Fresh(c)
    BY <1>3, <2>1, Locals DEF Inv, AllFresh, Fresh, HasGoogle
  <2>4. call' = [call EXCEPT ![r] = c]
    BY <1>3 DEF Inv, TypeOK
  <2> QED
    BY <2>1, <2>2, <2>3, <2>4
<1>4. ASSUME call[r].pc = "load", call' = [call EXCEPT ![r].pc = "issue"]
      PROVE  \E c \in Call : call' = [call EXCEPT ![r] = c] /\ GoodCall(c) /\ Fresh(c)
  <2> DEFINE c == [call[r] EXCEPT !.pc = "issue"]
  <2>1. c \in Call /\ c.pc = "issue" /\ c.google = call[r].google /\ c.id = call[r].id
    BY Locals DEF Inv, Call
  <2>2. GoodCall(c) /\ Fresh(c)
    BY <1>4, <2>1 DEF Inv, GoodCalls, GoodCall, Fresh
  <2>3. call' = [call EXCEPT ![r] = c]
    BY <1>4 DEF Inv, TypeOK
  <2> QED
    BY <2>1, <2>2, <2>3
<1> QED
  BY <1>1, <1>2, <1>3, <1>4, BeginGoogleCall DEF Quiet, FindByEmail, Load, Fail

-----------------------------------------------------------------------------
(* Each kind of step preserves the invariant.                               *)

LEMMA QuietStep ==
  ASSUME Inv, NEW r \in Requests, Quiet(r)
  PROVE  Inv'
<1>1. UNCHANGED <<rows, ids, links, sessions>>
  BY DEF Quiet, BeginGoogle, BeginRegister, FindByEmail, Load, Fail
<1>2. PICK c \in Call : call' = [call EXCEPT ![r] = c] /\ GoodCall(c) /\ Fresh(c)
  BY QuietCall
<1>3. TypeOK'
  BY <1>1, <1>2 DEF Inv, TypeOK
<1>4. \A x \in Requests : call'[x] = IF x = r THEN c ELSE call[x]
  BY <1>2 DEF Inv, TypeOK
<1>5. GoodRows' /\ SessionsOfLinkedAccounts'
  BY <1>1 DEF Inv, GoodRows, GoodRow, SessionsOfLinkedAccounts
<1>6. GoodCalls'
  BY <1>1, <1>2, <1>4 DEF Inv, GoodCalls, GoodCall
<1>7. AllFresh'
  BY <1>1, <1>2, <1>4 DEF Inv, AllFresh, Fresh, HasGoogle
<1> QED
  BY <1>3, <1>5, <1>6, <1>7 DEF Inv

LEMMA IssueStep ==
  ASSUME Inv, NEW r \in Requests, IssueTokens(r)
  PROVE  Inv'
<1>1. /\ call[r].google \in Googles /\ call[r].id \in 1..MaxRows
      /\ call[r].google \in links[call[r].id]
  BY DEF Inv, GoodCalls, GoodCall, IssueTokens
<1>2. UNCHANGED <<rows, ids, links>> /\ Finish(r)
      /\ sessions' = sessions \cup {<<call[r].google, call[r].id>>}
  BY DEF IssueTokens
<1>3. TypeOK'
  BY <1>1, <1>2, IdleIsGood DEF Inv, TypeOK, Finish
<1>4. \A x \in Requests : call'[x] = IF x = r THEN Idle ELSE call[x]
  BY <1>2 DEF Inv, TypeOK, Finish
<1>5. GoodRows'
  BY <1>2 DEF Inv, GoodRows, GoodRow
<1>6. SessionsOfLinkedAccounts'
  BY <1>1, <1>2 DEF Inv, SessionsOfLinkedAccounts
<1>7. GoodCalls'
  BY <1>2, <1>4, IdleIsGood DEF Inv, GoodCalls, GoodCall
<1>8. AllFresh'
  BY <1>2, <1>4, IdleIsGood DEF Inv, AllFresh, Fresh, HasGoogle
<1> QED
  BY <1>3, <1>5, <1>6, <1>7, <1>8 DEF Inv

LEMMA InsertStep ==
  ASSUME Inv, NEW r \in Requests, Insert(r)
  PROVE  Inv'
<1> DEFINE e == call[r].email
           row == [id |-> ids + 1, live |-> TRUE, google |-> NoGoogle]
<1>1. UNCHANGED <<links, sessions>> /\ Finish(r)
  BY DEF Insert
<1>2. e \in Emails /\ rows \in [Emails -> Row] /\ ids \in 0..MaxRows
  BY Locals DEF Inv, TypeOK
<1>3. \/ UNCHANGED <<rows, ids>>
      \/ ids < MaxRows /\ ids' = ids + 1 /\ rows' = [rows EXCEPT ![e] = row]
  BY DEF Insert
<1>4. /\ rows' \in [Emails -> Row] /\ ids' \in 0..MaxRows /\ ids <= ids'
      /\ \A f \in Emails : rows'[f] = rows[f] \/ (rows'[f] = row /\ row.id = ids')
  <2>1. CASE UNCHANGED <<rows, ids>>
    BY <1>2, <2>1, MaxRowsAssumption
  <2>2. CASE ids < MaxRows /\ ids' = ids + 1 /\ rows' = [rows EXCEPT ![e] = row]
    <3>1. row \in Row /\ ids + 1 \in 0..MaxRows
      BY <1>2, <2>2, MaxRowsAssumption DEF Row
    <3> QED
      BY <1>2, <2>2, <3>1, MaxRowsAssumption
  <2> QED
    BY <1>3, <2>1, <2>2
<1>5. TypeOK'
  BY <1>1, <1>4, IdleIsGood DEF Inv, TypeOK, Finish
<1>6. \A x \in Requests : call'[x] = IF x = r THEN Idle ELSE call[x]
  BY <1>1 DEF Inv, TypeOK, Finish
<1>7. \A f \in Emails : rows[f].id \in Nat /\ rows[f].id <= ids
  BY <1>2 DEF Inv, GoodRows, GoodRow, Row
<1>8. GoodRows'
  BY <1>1, <1>2, <1>4, <1>7, MaxRowsAssumption DEF Inv, GoodRows, GoodRow
<1>9. SessionsOfLinkedAccounts'
  BY <1>1 DEF Inv, SessionsOfLinkedAccounts
<1>10. GoodCalls'
  BY <1>1, <1>6, IdleIsGood DEF Inv, GoodCalls, GoodCall
<1>11. AllFresh'
  <2> SUFFICES ASSUME NEW x \in Requests, call[x].pc \in {"findEmail", "upsert"},
                      ~call[x].overtaken, x # r
               PROVE  /\ \A f \in Emails : ~HasGoogle(f, call[x].google)'
                      /\ call[x].pc = "upsert" /\ rows'[call[x].email].live
                           => rows'[call[x].email].google = NoGoogle
    BY <1>6, IdleIsGood DEF AllFresh, Fresh, HasGoogle
  <2>1. call[x].google \in Googles /\ call[x].email \in Emails
    BY Locals DEF Inv, GoodCalls, GoodCall
  <2>2. call[x].google # NoGoogle
    BY <2>1, NoGoogleAssumption
  <2>3. \A f \in Emails : rows'[f] = rows[f] \/ rows'[f].google = NoGoogle
    BY <1>4
  <2>4. /\ \A f \in Emails : ~HasGoogle(f, call[x].google)
        /\ call[x].pc = "upsert" /\ rows[call[x].email].live
             => rows[call[x].email].google = NoGoogle
    BY DEF Inv, AllFresh, Fresh
  <2>5. \A f \in Emails : ~HasGoogle(f, call[x].google)'
    BY <1>6, <2>2, <2>3, <2>4 DEF HasGoogle
  <2>6. rows'[call[x].email] = rows[call[x].email]
          \/ rows'[call[x].email].google = NoGoogle
    BY <2>1, <2>3
  <2> QED
    BY <2>4, <2>5, <2>6
<1> QED
  BY <1>5, <1>8, <1>9, <1>10, <1>11 DEF Inv

LEMMA RemoveStep ==
  ASSUME Inv, NEW e \in Emails, Remove(e)
  PROVE  Inv'
<1>1. UNCHANGED <<ids, links, sessions, call>>
  BY DEF Remove
<1>2. \A f \in Emails : rows'[f] = IF f = e THEN [rows[f] EXCEPT !.live = FALSE]
                                   ELSE rows[f]
  BY DEF Remove, Inv, TypeOK
<1>3. rows' \in [Emails -> Row]
  <2>1. \A f \in Emails : rows[f] \in Row
    BY DEF Inv, TypeOK
  <2>2. [rows[e] EXCEPT !.live = FALSE] \in Row
    BY <2>1 DEF Row
  <2>3. rows' = [rows EXCEPT ![e] = [rows[e] EXCEPT !.live = FALSE]]
    BY DEF Remove, Inv, TypeOK
  <2> QED
    BY <2>2, <2>3 DEF Inv, TypeOK
<1>4. \A f \in Emails : /\ rows'[f].live => rows[f].live
                        /\ rows'[f].id = rows[f].id /\ rows'[f].google = rows[f].google
  BY <1>2 DEF Inv, TypeOK, Row
<1>5. TypeOK'
  BY <1>1, <1>3 DEF Inv, TypeOK
<1>6. GoodRows' /\ SessionsOfLinkedAccounts' /\ GoodCalls'
  BY <1>1, <1>4 DEF Inv, GoodRows, GoodRow, SessionsOfLinkedAccounts, GoodCalls, GoodCall
<1>7. AllFresh'
  BY <1>1, <1>4, Locals DEF Inv, AllFresh, Fresh, HasGoogle
<1> QED
  BY <1>5, <1>6, <1>7 DEF Inv

LEMMA UpsertStep ==
  ASSUME Inv, NEW r \in Requests, Upsert(r)
  PROVE  Inv'
<1> DEFINE e == call[r].email
           g == call[r].google
<1>1. e \in Emails /\ g \in Googles /\ g # NoGoogle /\ rows[e] \in Row /\ ids \in 0..MaxRows
  BY Locals, NoGoogleAssumption DEF Inv, TypeOK, GoodCalls, GoodCall, Upsert
<1>2. PICK id \in 1..MaxRows :
        /\ Linked(r, id) /\ ids' \in 0..MaxRows /\ ids <= ids' /\ id <= ids'
        /\ \E row \in Row : /\ row.id = id /\ row.google = g
                            /\ rows' = [rows EXCEPT ![e] = row]
  <2>1. CASE EmailTaken(e)
    <3>1. rows[e].id \in 1..MaxRows /\ rows[e].id <= ids
      BY <1>1, <2>1 DEF EmailTaken, Inv, GoodRows, GoodRow, Row
    <3>2. /\ [rows[e] EXCEPT !.google = g] \in Row
          /\ [rows[e] EXCEPT !.google = g].id = rows[e].id
          /\ [rows[e] EXCEPT !.google = g].google = g
      BY <1>1 DEF Row
    <3>3. rows' = [rows EXCEPT ![e] = [rows[e] EXCEPT !.google = g]]
      BY <2>1 DEF Upsert, Inv, TypeOK
    <3>4. Linked(r, rows[e].id) /\ ids' = ids
      BY <2>1 DEF Upsert
    <3>5. \E row \in Row : /\ row.id = rows[e].id /\ row.google = g
                            /\ rows' = [rows EXCEPT ![e] = row]
      BY <3>2, <3>3
    <3>6. ids' \in 0..MaxRows /\ ids <= ids' /\ rows[e].id <= ids'
      BY <1>1, <3>1, <3>4, MaxRowsAssumption
    <3> HIDE DEF e, g
    <3> QED
      BY <3>1, <3>4, <3>5, <3>6
  <2>2. CASE ~EmailTaken(e)
    <3> DEFINE row == [id |-> ids + 1, live |-> TRUE, google |-> g]
    <3>1. /\ row \in Row /\ row.id = ids + 1 /\ row.google = g /\ ids + 1 \in 1..MaxRows
          /\ rows' = [rows EXCEPT ![e] = row] /\ ids' = ids + 1 /\ Linked(r, ids + 1)
      BY <1>1, <2>2, MaxRowsAssumption DEF Upsert, Row
    <3>2. ids + 1 \in 0..MaxRows /\ ids <= ids + 1
      BY <1>1, <3>1
    <3>3. \E w \in Row : /\ w.id = ids + 1 /\ w.google = g
                          /\ rows' = [rows EXCEPT ![e] = w]
      BY <3>1
    <3>4. ids' \in 0..MaxRows /\ ids <= ids' /\ ids + 1 <= ids'
      BY <1>1, <3>1, <3>2
    <3> HIDE DEF row, e, g
    <3> QED
      BY <3>1, <3>3, <3>4
  <2> QED
    BY <2>1, <2>2
<1>3. /\ sessions' = sessions /\ call[r].pc = "upsert"
      /\ links' \in [1..MaxRows -> SUBSET Googles] /\ g \in links'[id]
      /\ \A i \in 1..MaxRows : links[i] \subseteq links'[i]
  BY <1>1, <1>2 DEF Upsert, Linked, Inv, TypeOK
<1>4. \A f \in Emails : \/ rows'[f] = rows[f] /\ f # e
                        \/ f = e /\ rows'[f].id = id /\ rows'[f].google = g
  BY <1>1, <1>2 DEF Inv, TypeOK
<1>5. rows' \in [Emails -> Row]
  BY <1>2 DEF Inv, TypeOK
<1>6. \A x \in Requests :
        LET c == call[x] IN
        /\ x = r => call'[x] = [c EXCEPT !.pc = "load", !.id = id]
        /\ x # r => \/ call'[x] = [c EXCEPT !.overtaken = TRUE]
                    \/ /\ call'[x] = c
                       /\ c.pc # "idle" => c.google # g /\ c.email # e
  BY <1>2 DEF Linked
<1>7. \A x \in Requests :
        LET c == call[x]
            d == call'[x]
        IN /\ d \in Call /\ d.google = c.google /\ d.email = c.email
           /\ x = r => d.pc = "load" /\ d.id = id
           /\ x # r => /\ d.pc = c.pc /\ d.id = c.id
                       /\ d.overtaken \/ (d = c /\ (c.pc # "idle" => c.google # g /\ c.email # e))
  <2> SUFFICES ASSUME NEW x \in Requests
               PROVE  LET c == call[x]
                          d == call'[x]
                      IN /\ d \in Call /\ d.google = c.google /\ d.email = c.email
                         /\ x = r => d.pc = "load" /\ d.id = id
                         /\ x # r => /\ d.pc = c.pc /\ d.id = c.id
                                     /\ \/ d.overtaken
                                        \/ d = c /\ (c.pc # "idle" => c.google # g
                                                                  /\ c.email # e)
    OBVIOUS
  <2>1. call[x] \in Call
    BY Locals DEF Inv
  <2>2. CASE x = r
    <3>1. id \in 0..MaxRows
      BY MaxRowsAssumption
    <3>2. call'[x] = [call[x] EXCEPT !.pc = "load", !.id = id]
      BY <1>6, <2>2
    <3>3. /\ call'[x] \in Call /\ call'[x].pc = "load" /\ call'[x].id = id
          /\ call'[x].google = call[x].google /\ call'[x].email = call[x].email
      <4> DEFINE c == call[x]
                 d == call'[x]
      <4>1. c \in Call /\ d = [c EXCEPT !.pc = "load", !.id = id]
        BY <2>1, <3>2
      <4> HIDE DEF c, d
      <4>2. /\ d \in Call /\ d.pc = "load" /\ d.id = id
            /\ d.google = c.google /\ d.email = c.email
        BY <3>1, <4>1 DEF Call
      <4> QED
        BY <4>2 DEF c, d
    <3> QED
      BY <2>2, <3>3
  <2>3. CASE x # r /\ call'[x] = [call[x] EXCEPT !.overtaken = TRUE]
    BY <2>1, <2>3 DEF Call
  <2>4. CASE x # r /\ call'[x] = call[x]
                  /\ (call[x].pc # "idle" => call[x].google # g /\ call[x].email # e)
    BY <2>1, <2>4
  <2> QED
    BY <1>6, <2>2, <2>3, <2>4
<1>8. TypeOK'
  <2>1. call' \in [Requests -> Call]
    BY <1>2, <1>7 DEF Linked
  <2> QED
    BY <1>2, <1>3, <1>5, <2>1 DEF Inv, TypeOK
<1>9. GoodRows'
  <2> SUFFICES ASSUME NEW f \in Emails
               PROVE  GoodRow(f)'
    BY DEF GoodRows
  <2>1. rows[f].id \in 0..MaxRows /\ rows[f].id <= ids
    BY DEF Inv, TypeOK, GoodRows, GoodRow, Row
  <2>2. CASE f = e
    BY <1>1, <1>2, <1>3, <1>4, <2>2, MaxRowsAssumption DEF GoodRow
  <2>3. CASE f # e
    BY <1>1, <1>2, <1>3, <1>4, <2>1, <2>3, MaxRowsAssumption DEF Inv, GoodRows, GoodRow
  <2> QED
    BY <2>2, <2>3
<1>10. GoodCalls'
  BY <1>1, <1>3, <1>7 DEF Inv, GoodCalls, GoodCall
<1>11. AllFresh'
  <2> SUFFICES ASSUME NEW x \in Requests, call'[x].pc \in {"findEmail", "upsert"},
                      ~call'[x].overtaken
               PROVE  /\ \A f \in Emails : ~HasGoogle(f, call[x].google)'
                      /\ call'[x].pc = "upsert" /\ rows'[call[x].email].live
                           => rows'[call[x].email].google = NoGoogle
    BY <1>7 DEF AllFresh, Fresh, HasGoogle
  <2>1. /\ x # r /\ call'[x] = call[x] /\ call[x].google # g /\ call[x].email # e
        /\ call[x].email \in Emails
    BY <1>7, Locals DEF Inv
  <2> QED
    BY <1>4, <2>1 DEF Inv, AllFresh, Fresh, HasGoogle
<1>12. SessionsOfLinkedAccounts'
  BY <1>3 DEF Inv, TypeOK, SessionsOfLinkedAccounts
<1> QED
  BY <1>8, <1>9, <1>10, <1>11, <1>12 DEF Inv

LEMMA InvInit == Init => Inv
  BY IdleIsGood, MaxRowsAssumption
  DEF Init, Inv, TypeOK, Row, GoodRows, GoodRow, GoodCalls, GoodCall, AllFresh, Fresh,
      SessionsOfLinkedAccounts

LEMMA InvStep == Inv /\ [Next]_vars => Inv'
<1>1. ASSUME Inv, UNCHANGED vars
      PROVE  Inv'
  BY <1>1 DEF vars, Inv, TypeOK, GoodRows, GoodRow, GoodCalls, GoodCall, AllFresh, Fresh,
     HasGoogle, SessionsOfLinkedAccounts
<1> QED
  BY <1>1, QuietStep, IssueStep, InsertStep, RemoveStep, UpsertStep DEF Next, Quiet

-----------------------------------------------------------------------------
\* Every row, count, link, token and request keeps its type: no row is numbered
\* past the last insert, and tokens are for rows there have been.
THEOREM TypeCorrect == Spec => []TypeOK
<1>1. Inv => TypeOK
  BY DEF Inv
<1> QED
  BY <1>1, InvInit, InvStep, PTL DEF Spec

\* Google tokens are for a row the Google id was linked to
\* (users.service.ts:48-67).
THEOREM GoogleSessions == Spec => []SessionsOfLinkedAccounts
<1>1. Inv => SessionsOfLinkedAccounts
  BY DEF Inv
<1> QED
  BY <1>1, InvInit, InvStep, PTL DEF Spec

\* Only an upsert writes a Google id over another row's contents.
LEMMA OnlyUpsertsLink ==
  ASSUME Inv, [Next]_vars, NEW e \in Emails, rows'[e].google # rows[e].google \/
         (rows'[e].live /\ ~rows[e].live),
         rows'[e].live, rows'[e].google # NoGoogle
  PROVE  \E r \in Requests : Upsert(r) /\ call[r].email = e /\ rows'[e].google = call[r].google
<1>1. ASSUME NEW r \in Requests, Upsert(r)
      PROVE  call[r].email = e /\ rows'[e].google = call[r].google
  BY <1>1, Locals DEF Upsert, Inv, TypeOK, Row
<1>2. ASSUME NEW r \in Requests, Insert(r)
      PROVE  FALSE
  <2>1. CASE rows' = rows
    BY <2>1
  <2>2. CASE rows' = [rows EXCEPT ![call[r].email] =
                        [id |-> ids + 1, live |-> TRUE, google |-> NoGoogle]]
    <3>1. rows'[e] = rows[e] \/ rows'[e].google = NoGoogle
      BY <2>2 DEF Inv, TypeOK
    <3> QED
      BY <3>1
  <2> QED
    BY <1>2, <2>1, <2>2 DEF Insert
<1>3. ASSUME NEW f \in Emails, Remove(f)
      PROVE  FALSE
  BY <1>3 DEF Remove, Inv, TypeOK, Row
<1> QED
  BY <1>1, <1>2, <1>3
  DEF Next, vars, BeginGoogle, BeginRegister, FindByEmail, Load, IssueTokens, Fail

LEMMA ReplacedLink ==
  ASSUME Inv, [Next]_vars, NEW e \in Emails, rows[e].live, rows[e].google # NoGoogle,
         rows'[e].google # rows[e].google
  PROVE  \E r \in Requests : /\ call[r].pc = "upsert" /\ call[r].email = e
                             /\ call[r].overtaken
<1>1. PICK r \in Requests : Upsert(r) /\ call[r].email = e
  <2>1. ASSUME NEW r \in Requests, Insert(r)
        PROVE  FALSE
    BY <2>1, Locals DEF Insert, EmailTaken, Inv, TypeOK, Row
  <2>2. ASSUME NEW f \in Emails, Remove(f)
        PROVE  FALSE
    BY <2>2 DEF Remove, Inv, TypeOK, Row
  <2>3. ASSUME NEW r \in Requests, Upsert(r)
        PROVE  call[r].email = e
    BY <2>3, Locals DEF Upsert, Inv, TypeOK, Row
  <2> QED
    BY <2>1, <2>2, <2>3
    DEF Next, vars, BeginGoogle, BeginRegister, FindByEmail, Load, IssueTokens, Fail
<1>2. call[r].pc = "upsert"
  BY <1>1 DEF Upsert
<1>3. ~call[r].overtaken => FALSE
  BY <1>1, <1>2 DEF Inv, AllFresh, Fresh
<1> QED
  BY <1>1, <1>2, <1>3

LEMMA SecondAccount ==
  ASSUME Inv, [Next]_vars, NEW e \in Emails, NEW f \in Emails, e # f,
         rows[e].live, rows[e].google # NoGoogle,
         rows'[f].live, rows'[f].google = rows[e].google,
         ~HasGoogle(f, rows[e].google)
  PROVE  \E r \in Requests : /\ call[r].pc = "upsert" /\ call[r].email = f
                             /\ call[r].overtaken
<1>1. PICK r \in Requests : /\ Upsert(r) /\ call[r].email = f
                            /\ rows'[f].google = call[r].google
  BY OnlyUpsertsLink DEF HasGoogle, Inv, TypeOK, Row
<1>2. call[r].pc = "upsert" /\ HasGoogle(e, call[r].google)
  BY <1>1 DEF Upsert, HasGoogle, Inv, TypeOK, Row
<1>3. ~call[r].overtaken => FALSE
  BY <1>2 DEF Inv, AllFresh, Fresh
<1> QED
  BY <1>1, <1>2, <1>3

\* A link is replaced only by a sign-in another one overtook (sys-msg.ts:27).
THEOREM LinksReplaced == Spec => LinksReplacedInRacesOnly
<1>1. Inv /\ [Next]_vars =>
        [\A e \in Emails :
           /\ rows[e].live
           /\ rows[e].google # NoGoogle
           /\ rows'[e].google # rows[e].google
           => \E r \in Requests : /\ call[r].pc = "upsert" /\ call[r].email = e
                                  /\ call[r].overtaken]_vars
  BY ReplacedLink
<1> QED
  BY <1>1, InvInit, InvStep, PTL DEF Spec, LinksReplacedInRacesOnly

\* A Google id gets a second account only by such a sign-in.
THEOREM SecondAccounts == Spec => SecondAccountsInRacesOnly
<1>1. Inv /\ [Next]_vars =>
        [\A e, f \in Emails :
           /\ e # f
           /\ rows[e].live /\ rows[e].google # NoGoogle
           /\ rows'[f].live /\ rows'[f].google = rows[e].google
           /\ ~HasGoogle(f, rows[e].google)
           => \E r \in Requests : /\ call[r].pc = "upsert" /\ call[r].email = f
                                  /\ call[r].overtaken]_vars
  BY SecondAccount
<1> QED
  BY <1>1, InvInit, InvStep, PTL DEF Spec, SecondAccountsInRacesOnly

-----------------------------------------------------------------------------
(* While no two sign-ins are between their lookup by Google id and their   *)
(* upsert, which nothing in the code ensures, nobody is overtaken there,   *)
(* and google_id is as good as unique.                                     *)

Linking == {"findEmail", "upsert"}

OneSignInAtATime ==
    \A q, r \in Requests : call[q].pc \in Linking /\ call[r].pc \in Linking => q = r

OneAccountPerGoogleId ==
    \A e, f \in Emails : \A g \in Googles : HasGoogle(e, g) /\ HasGoogle(f, g) => e = f

LinksAreKept ==
    [][\A e \in Emails : rows[e].live /\ rows[e].google # NoGoogle =>
          rows'[e].google = rows[e].google]_vars

NoneOvertaken == \A r \in Requests : call[r].pc \in Linking => ~call[r].overtaken

LEMMA NoneOvertakenStep ==
  ASSUME Inv, NoneOvertaken, OneSignInAtATime, [Next]_vars
  PROVE  NoneOvertaken'
<1> USE DEF Inv, TypeOK
<1>1. ASSUME NEW r \in Requests, call' = [call EXCEPT ![r] = Idle]
      PROVE  NoneOvertaken'
  BY <1>1, IdleIsGood DEF NoneOvertaken, Linking
<1>2. ASSUME NEW r \in Requests, NEW pc, NEW g, NEW e, NEW id, Begin(r, pc, g, e, id)
      PROVE  NoneOvertaken'
  BY <1>2 DEF NoneOvertaken, Begin
<1>3. ASSUME NEW r \in Requests, FindByEmail(r), ~Finish(r)
      PROVE  NoneOvertaken'
  <2>1. /\ \A q \in Requests \ {r} : call'[q] = call[q]
        /\ call[r].pc \in Linking /\ call'[r].overtaken = call[r].overtaken
    BY <1>3, Locals DEF FindByEmail, Linking, Call
  <2> QED
    BY <2>1 DEF NoneOvertaken
<1>4. ASSUME NEW r \in Requests, Load(r), ~Finish(r)
      PROVE  NoneOvertaken'
  <2>1. (\A q \in Requests \ {r} : call'[q] = call[q]) /\ call'[r].pc = "issue"
    BY <1>4, Locals DEF Load, Call
  <2> QED
    BY <2>1 DEF NoneOvertaken, Linking
<1>5. ASSUME NEW r \in Requests, Upsert(r)
      PROVE  NoneOvertaken'
  <2>1. PICK id : Linked(r, id)
    BY <1>5 DEF Upsert
  <2>2. call[r].pc = "upsert"
    BY <1>5 DEF Upsert
  <2>3. \A q \in Requests : call'[q].pc \in Linking =>
          q # r /\ call[q].pc \in Linking
    <3> SUFFICES ASSUME NEW q \in Requests, call'[q].pc \in Linking
                 PROVE  q # r /\ call[q].pc \in Linking
      OBVIOUS
    <3>1. call[q] \in Call
      BY Locals
    <3>2. CASE q = r
      BY <2>1, <3>1, <3>2 DEF Linked, Linking, Call
    <3>3. CASE q # r
      BY <2>1, <3>1, <3>3 DEF Linked, Call
    <3> QED
      BY <3>2, <3>3
  <2> QED
    BY <2>2, <2>3 DEF OneSignInAtATime, NoneOvertaken, Linking
<1>6. CASE UNCHANGED call
  BY <1>6 DEF NoneOvertaken
<1> QED
  BY <1>1, <1>2, <1>3, <1>4, <1>5, <1>6
  DEF Next, vars, BeginGoogle, BeginRegister, FindByEmail, Load, IssueTokens, Insert,
      Remove, Fail, Finish

LEMMA OneRowChanges ==
  ASSUME Inv, [Next]_vars, NEW e \in Emails, NEW f \in Emails, e # f
  PROVE  rows'[e] = rows[e] \/ rows'[f] = rows[f]
<1>1. rows' = rows \/ \E a \in Emails : \E row : rows' = [rows EXCEPT ![a] = row]
  <2>1. ASSUME NEW r \in Requests, Upsert(r) \/ Insert(r)
        PROVE  rows' = rows \/ \E a \in Emails : \E row : rows' = [rows EXCEPT ![a] = row]
    BY <2>1, Locals DEF Upsert, Insert, Inv, TypeOK
  <2>2. ASSUME NEW a \in Emails, Remove(a)
        PROVE  \E row : rows' = [rows EXCEPT ![a] = row]
    BY <2>2 DEF Remove
  <2> QED
    BY <2>1, <2>2
    DEF Next, vars, BeginGoogle, BeginRegister, FindByEmail, Load, IssueTokens, Fail
<1> QED
  BY <1>1 DEF Inv, TypeOK

LEMMA OneAccountStep ==
  ASSUME Inv, NoneOvertaken, OneAccountPerGoogleId, [Next]_vars
  PROVE  OneAccountPerGoogleId'
<1>1. ASSUME NEW e \in Emails, NEW f \in Emails, NEW g \in Googles, e # f,
             HasGoogle(e, g)', HasGoogle(f, g)', rows'[e] = rows[e]
      PROVE  FALSE
  <2>1. HasGoogle(e, g) /\ g # NoGoogle
    BY <1>1, NoGoogleAssumption DEF HasGoogle
  <2>2. ~HasGoogle(f, g)
    BY <1>1, <2>1 DEF OneAccountPerGoogleId
  <2>3. \E r \in Requests : call[r].pc = "upsert" /\ call[r].overtaken
    BY <1>1, <2>1, <2>2, SecondAccount DEF HasGoogle
  <2> QED
    BY <2>3 DEF NoneOvertaken, Linking
<1> SUFFICES ASSUME NEW e \in Emails, NEW f \in Emails, NEW g \in Googles, e # f,
                    HasGoogle(e, g)', HasGoogle(f, g)'
             PROVE  FALSE
  BY DEF OneAccountPerGoogleId, HasGoogle
<1> QED
  BY <1>1, OneRowChanges

\* Only sign-ins that overlap between the lookup and the upsert give a Google id
\* a second account, or take one from its Google id: without such an overlap
\* neither happens, whatever is registered, removed or fails
\* (users.service.ts:48-67).
THEOREM GoogleIdsAreUniqueAlone ==
  Spec /\ []OneSignInAtATime => []OneAccountPerGoogleId /\ LinksAreKept
<1>1. Init => NoneOvertaken /\ OneAccountPerGoogleId
  BY IdleIsGood DEF Init, NoneOvertaken, Linking, OneAccountPerGoogleId, HasGoogle
<1>2. Inv /\ NoneOvertaken /\ OneSignInAtATime /\ [Next]_vars => NoneOvertaken'
  BY NoneOvertakenStep
<1>3. Inv /\ NoneOvertaken /\ OneAccountPerGoogleId /\ [Next]_vars => OneAccountPerGoogleId'
  BY OneAccountStep
<1>4. Inv /\ NoneOvertaken /\ [Next]_vars =>
        [\A e \in Emails : rows[e].live /\ rows[e].google # NoGoogle =>
            rows'[e].google = rows[e].google]_vars
  BY ReplacedLink DEF NoneOvertaken, Linking
<1> QED
  BY <1>1, <1>2, <1>3, <1>4, InvInit, InvStep, PTL DEF Spec, LinksAreKept
=============================================================================
