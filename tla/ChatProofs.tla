----------------------------- MODULE ChatProofs -----------------------------
(* Theorems about Chat, for any number of users, sockets, calls, chats and *)
(* messages and any context length.                                        *)
EXTENDS Chat, TLAPS

Writing == {"saveStart", "save", "context", "invoke", "reply"}

\* A call that writes to a chat is its owner's; a message saved stays saved.
GoodCall(r) ==
    LET k == call[r] IN
    /\ k.pc \in Writing \cup {"create"} => k.user \in Users
    /\ k.pc \in Writing => k.chat \in 1..chats /\ owner[k.chat] = k.user
    /\ k.pc = "context" => k.mine \in 1..Len(messages[k.chat])

AllCalls     == \A r \in Requests : GoodCall(r)

CInv == /\ TypeOK /\ AllCalls
        /\ AnsweredMessageInContext /\ GoneSocketsLeftTheirRooms

LEMMA IdleIsCall == Idle \in Call
<1>1. (CHOOSE s \in Sockets : TRUE) \in Sockets
  BY SocketsAssumption
<1>2. <<>> \in Seq(1..MaxMessages)
  OBVIOUS
<1> QED
  BY <1>1, <1>2, BoundsAssumption DEF Idle, Call, Steps

LEMMA Numbers ==
  ASSUME TypeOK
  PROVE  /\ chats \in Nat /\ MaxChats \in Nat /\ MaxMessages \in Nat
         /\ 1..chats \subseteq Chats
         /\ \A c \in Chats : /\ Len(messages[c]) \in 0..MaxMessages /\ c \in Nat
                             /\ messages[c] \in Seq(Users)
<1>1. \A c \in Chats : messages[c] \in Seq(Users) /\ Len(messages[c]) <= MaxMessages
  BY DEF TypeOK
<1>2. \A c \in Chats : Len(messages[c]) \in Nat
  BY <1>1
<1> QED
  BY <1>1, <1>2, BoundsAssumption DEF TypeOK, Chats

\* Min picks the smaller of two numbers.
LEMMA MinOfTwo ==
  ASSUME NEW a \in Nat, NEW b \in Nat
  PROVE  /\ Min({a, b}) \in {a, b} /\ Min({a, b}) <= a /\ Min({a, b}) <= b
<1>1. \E x \in {a, b} : \A y \in {a, b} : x <= y
  OBVIOUS
<1> QED
  BY <1>1 DEF Min

\* The page read holds the newest messages, all of them when they are few.
LEMMA PageIsNewest ==
  ASSUME TypeOK, NEW c \in Chats, NEW m \in 1..Len(messages[c])
  PROVE  LET page == NewestFirst(c)
             seen == ToSet(page)
         IN /\ page \in Seq(1..MaxMessages)
            /\ \/ m \in seen
               \/ Len(page) = ContextLength /\ \A i \in seen : i > m
<1> DEFINE n == Len(messages[c])
           k == Min({n, ContextLength})
           page == [i \in 1..k |-> n + 1 - i]
<1>1. NewestFirst(c) = page
  BY DEF NewestFirst
<1>2. n \in 0..MaxMessages /\ MaxMessages \in Nat /\ ContextLength \in Nat /\ m \in 1..n
  BY Numbers, ContextLengthAssumption
<1> HIDE DEF n
<1>3. k \in {n, ContextLength} /\ k <= n /\ k <= ContextLength /\ k \in Nat
  BY <1>2, MinOfTwo
<1> HIDE DEF k
<1>4. page \in [1..k -> 1..MaxMessages]
  BY <1>2, <1>3
<1>5. page \in Seq(1..MaxMessages) /\ Len(page) = k
  BY <1>3, <1>4
<1>6. ToSet(page) = {page[i] : i \in 1..k}
  BY <1>3, <1>5 DEF ToSet
<1>7. CASE m >= n + 1 - k
  <2>1. (n + 1 - m) \in 1..k /\ page[n + 1 - m] = m
    BY <1>2, <1>3, <1>7
  <2>2. m \in ToSet(page)
    BY <1>6, <2>1
  <2> QED
    BY <1>1, <1>5, <2>2
<1>8. CASE m < n + 1 - k
  <2>1. k = ContextLength
    BY <1>2, <1>3, <1>8
  <2>2. \A i \in ToSet(page) : i > m
    BY <1>2, <1>3, <1>6, <1>8
  <2> QED
    BY <1>1, <1>5, <2>1, <2>2
<1> QED
  BY <1>2, <1>3, <1>7, <1>8

-----------------------------------------------------------------------------
(* The invariant, step by step.                                             *)

LEMMA CInvInit == Init => CInv
<1> SUFFICES ASSUME Init
             PROVE  CInv
  OBVIOUS
<1>1. TypeOK
  <2>1. \A c \in Chats : Len(<<>>) <= MaxMessages
    BY BoundsAssumption
  <2> QED
    BY <2>1, IdleIsCall, BoundsAssumption DEF Init, TypeOK
<1>2. \A r \in Requests : call[r].pc = "idle"
  BY DEF Init, Idle
<1>3. AllCalls /\ AnsweredMessageInContext
  BY <1>2 DEF AllCalls, GoodCall, Writing, AnsweredMessageInContext
<1>4. GoneSocketsLeftTheirRooms
  BY DEF Init, GoneSocketsLeftTheirRooms
<1> QED
  BY <1>1, <1>3, <1>4 DEF CInv

\* A step of one call that leaves the tables and the rooms alone.
LEMMA CallStep ==
  ASSUME CInv, NEW r \in Requests, NEW k \in Call, call' = [call EXCEPT ![r] = k],
         UNCHANGED <<chats, owner, messages>>, users' \subseteq Users,
         socket' \in [Sockets -> {"new", "up", "gone"}],
         rooms' \in [Sockets -> SUBSET Chats], replies' \in [Chats -> Nat],
         GoneSocketsLeftTheirRooms',
         k.pc \in Writing \cup {"create"} => k.user \in Users,
         k.pc \in Writing => k.chat \in 1..chats /\ owner[k.chat] = k.user,
         k.pc = "context" => k.mine \in 1..Len(messages[k.chat]),
         k.pc = "invoke" => \/ k.mine \in ToSet(k.context)
                            \/ /\ Len(k.context) = ContextLength
                               /\ \A i \in ToSet(k.context) : i > k.mine
  PROVE  CInv'
<1>1. \A x \in Requests : call'[x] = IF x = r THEN k ELSE call[x]
  BY DEF CInv, TypeOK
<1>2. TypeOK'
  BY DEF CInv, TypeOK
<1>3. AllCalls'
  BY <1>1 DEF CInv, AllCalls, GoodCall
<1>4. AnsweredMessageInContext'
  BY <1>1 DEF CInv, AnsweredMessageInContext
<1> QED
  BY <1>2, <1>3, <1>4 DEF CInv

\* A call ends, one way or another.
LEMMA FinishStep ==
  ASSUME CInv, NEW r \in Requests, Finish(r), UNCHANGED <<tables, net>>
  PROVE  CInv'
<1>1. call' = [call EXCEPT ![r] = Idle] /\ Idle.pc = "idle"
  BY DEF Finish, Idle
<1>2. GoneSocketsLeftTheirRooms'
  BY DEF net, CInv, GoneSocketsLeftTheirRooms
<1> QED
  BY <1>1, <1>2, IdleIsCall, CallStep DEF tables, net, CInv, TypeOK, Writing

LEMMA CreateStep ==
  ASSUME CInv, NEW r \in Requests, NEW b \in BOOLEAN, CreateChat(r, b)
  PROVE  CInv'
<1>1. PICK c \in Chats : c = chats + 1 /\ chats' = c /\ chats \in Nat /\ c \in Nat
  BY Numbers DEF CreateChat, Chats, CInv
<1>2. PICK u \in Users : u = call[r].user
  BY DEF CreateChat, CInv, AllCalls, GoodCall
<1>3. owner' = [owner EXCEPT ![c] = u] /\ UNCHANGED <<users, messages, net>>
  BY <1>1, <1>2 DEF CreateChat
<1>4. \A d \in Chats : d # c => owner'[d] = owner[d]
  BY <1>1, <1>3 DEF CInv, TypeOK
<1>5. owner' \in [Chats -> Users \cup {NoUser}] /\ owner'[c] = u
  BY <1>2, <1>3 DEF CInv, TypeOK
<1>6. PICK k \in Call : /\ call' = [call EXCEPT ![r] = k]
                        /\ k.pc \in {"idle", "saveStart"}
                        /\ k.pc = "saveStart" => k.chat = c /\ k.user = u
  <2>1. CASE b
    <3> DEFINE k == [call[r] EXCEPT !.pc = "saveStart", !.chat = c]
    <3>1. call[r] \in Call /\ c \in 0..MaxChats
      BY <1>1, BoundsAssumption DEF CInv, TypeOK, Chats
    <3>2. k \in Call /\ k.pc = "saveStart" /\ k.chat = c /\ k.user = u
      BY <1>2, <3>1 DEF Call, Steps
    <3>3. call' = [call EXCEPT ![r] = k]
      BY <1>1, <2>1 DEF CreateChat, CInv, TypeOK
    <3> QED
      BY <3>2, <3>3
  <2>2. CASE ~b
    BY <2>2, IdleIsCall DEF CreateChat, Finish, Idle
  <2> QED
    BY <2>1, <2>2
<1>7. \A x \in Requests : call'[x] = IF x = r THEN k ELSE call[x]
  BY <1>6 DEF CInv, TypeOK
<1>8. TypeOK'
  BY <1>1, <1>3, <1>5, <1>6, <1>7, Numbers DEF CInv, TypeOK, Chats, net
<1>9. AllCalls'
  <2> SUFFICES ASSUME NEW x \in Requests
               PROVE  GoodCall(x)'
    BY DEF AllCalls
  <2>1. CASE x = r
    BY <1>1, <1>5, <1>6, <1>7, <2>1 DEF GoodCall, Writing
  <2>2. CASE x # r
    <3>1. GoodCall(x) /\ call'[x] = call[x]
      BY <1>7, <2>2 DEF CInv, AllCalls
    <3>2. \A d \in 1..chats : d \in 1..chats' /\ owner'[d] = owner[d]
      BY <1>1, <1>4, Numbers DEF CInv
    <3> QED
      BY <1>3, <3>1, <3>2 DEF GoodCall
  <2> QED
    BY <2>1, <2>2
<1>10. AnsweredMessageInContext'
  BY <1>6, <1>7 DEF CInv, AnsweredMessageInContext
<1>11. GoneSocketsLeftTheirRooms'
  BY <1>3 DEF CInv, GoneSocketsLeftTheirRooms, net
<1> QED
  BY <1>8, <1>9, <1>10, <1>11 DEF CInv

\* A message of the chat's owner is saved; the messages before it stay.
LEMMA SaveStep ==
  ASSUME CInv, NEW r \in Requests, SaveStartingMessage(r) \/ SaveMessage(r)
  PROVE  CInv'
<1>1. PICK c \in Chats : c = call[r].chat /\ c \in 1..chats /\ owner[c] = call[r].user
                         /\ call[r].user \in Users /\ Len(messages[c]) < MaxMessages
  BY Numbers DEF SaveStartingMessage, SaveMessage, CInv, AllCalls, GoodCall, Writing
<1>2. PICK u \in Users : u = call[r].user /\ owner[c] = u
  BY <1>1
<1>3. messages' = [messages EXCEPT ![c] = Append(messages[c], u)]
      /\ UNCHANGED <<users, chats, owner, net>>
  BY <1>1, <1>2 DEF SaveStartingMessage, SaveMessage, Save
<1>4. messages[c] \in Seq(Users) /\ Len(messages[c]) \in Nat /\ MaxMessages \in Nat
  BY Numbers DEF CInv
<1>5. PICK m : m = Append(messages[c], u)
  OBVIOUS
<1>6. /\ m \in Seq(Users) /\ Len(m) = Len(messages[c]) + 1
      /\ \A i \in DOMAIN m : m[i] = u \/ (i \in DOMAIN messages[c] /\ m[i] = messages[c][i])
  BY <1>2, <1>4, <1>5
<1>7. \A d \in Chats : messages'[d] = IF d = c THEN m ELSE messages[d]
  BY <1>3, <1>5 DEF CInv, TypeOK
<1>8. messages' \in [Chats -> Seq(Users)] /\ \A d \in Chats : Len(messages'[d]) <= MaxMessages
  BY <1>1, <1>3, <1>4, <1>5, <1>6, <1>7 DEF CInv, TypeOK
<1>9. PICK k \in Call : /\ call' = [call EXCEPT ![r] = k]
                        /\ k.pc \in {"idle", "context"}
                        /\ k.pc = "context" => k.chat = c /\ k.user = u /\ k.mine = Len(m)
  <2>1. CASE SaveStartingMessage(r)
    BY <2>1, IdleIsCall DEF SaveStartingMessage, Finish, Idle
  <2>2. CASE SaveMessage(r)
    <3>1. PICK n : n = Len(messages[c]) + 1
      OBVIOUS
    <3> DEFINE k == [call[r] EXCEPT !.pc = "context", !.mine = n]
    <3>2. call[r] \in Call /\ n \in 0..MaxMessages /\ n = Len(m)
      BY <1>1, <1>4, <1>6, <3>1 DEF CInv, TypeOK
    <3>3. k \in Call /\ k.pc = "context" /\ k.chat = c /\ k.user = u /\ k.mine = n
      BY <1>1, <1>2, <3>2 DEF Call, Steps
    <3>4. call' = [call EXCEPT ![r] = k]
      BY <1>1, <2>2, <3>1 DEF SaveMessage, CInv, TypeOK
    <3> QED
      BY <3>2, <3>3, <3>4
  <2> QED
    BY <2>1, <2>2
<1>10. \A x \in Requests : call'[x] = IF x = r THEN k ELSE call[x]
  BY <1>9 DEF CInv, TypeOK
<1>11. TypeOK'
  BY <1>3, <1>8, <1>9, <1>10 DEF CInv, TypeOK, net
<1>12. AllCalls'
  <2> SUFFICES ASSUME NEW x \in Requests
               PROVE  GoodCall(x)'
    BY DEF AllCalls
  <2>1. CASE x = r
    <3>1. k.pc = "context" => k.mine \in 1..Len(messages'[k.chat])
      BY <1>4, <1>6, <1>7, <1>9
    <3> QED
      BY <1>1, <1>2, <1>3, <1>9, <1>10, <2>1, <3>1 DEF GoodCall, Writing
  <2>2. CASE x # r
    <3>1. GoodCall(x) /\ call'[x] = call[x]
      BY <1>10, <2>2 DEF CInv, AllCalls
    <3>2. ASSUME call[x].pc = "context"
          PROVE  call[x].mine \in 1..Len(messages'[call[x].chat])
      <4>1. call[x].mine \in 1..Len(messages[call[x].chat]) /\ call[x].chat \in Chats
        BY <3>1, <3>2, Numbers DEF GoodCall, Writing, CInv
      <4>2. CASE call[x].chat = c
        BY <1>4, <1>6, <1>7, <4>1, <4>2
      <4>3. CASE call[x].chat # c
        BY <1>7, <4>1, <4>3
      <4> QED
        BY <4>2, <4>3
    <3> QED
      BY <1>3, <3>1, <3>2 DEF GoodCall
  <2> QED
    BY <2>1, <2>2
<1>13. AnsweredMessageInContext'
  BY <1>9, <1>10 DEF CInv, AnsweredMessageInContext
<1>14. GoneSocketsLeftTheirRooms'
  BY <1>3 DEF CInv, GoneSocketsLeftTheirRooms, net
<1> QED
  BY <1>11, <1>12, <1>13, <1>14 DEF CInv

LEMMA ContextStep ==
  ASSUME CInv, NEW r \in Requests, ReadContext(r)
  PROVE  CInv'
<1>1. PICK c \in Chats : c = call[r].chat /\ c \in 1..chats /\ owner[c] = call[r].user
                         /\ call[r].user \in Users /\ call[r].mine \in 1..Len(messages[c])
  BY Numbers DEF ReadContext, CInv, AllCalls, GoodCall, Writing
<1>2. PICK page : page = NewestFirst(c)
  OBVIOUS
<1>3. /\ page \in Seq(1..MaxMessages)
      /\ \/ call[r].mine \in ToSet(page)
         \/ Len(page) = ContextLength /\ \A i \in ToSet(page) : i > call[r].mine
  BY <1>1, <1>2, PageIsNewest DEF CInv
<1> DEFINE k == [call[r] EXCEPT !.pc = "invoke", !.context = page]
<1>4. call[r] \in Call
  BY DEF CInv, TypeOK
<1>5. /\ k \in Call /\ k.pc = "invoke" /\ k.context = page /\ k.mine = call[r].mine
      /\ k.chat = c /\ k.user = call[r].user
  BY <1>1, <1>3, <1>4 DEF Call, Steps
<1>6. call' = [call EXCEPT ![r] = k] /\ UNCHANGED <<tables, net>>
  BY <1>1, <1>2 DEF ReadContext, CInv, TypeOK
<1> HIDE DEF k
<1>7. GoneSocketsLeftTheirRooms'
  BY <1>6 DEF net, CInv, GoneSocketsLeftTheirRooms
<1> QED
  BY <1>1, <1>3, <1>5, <1>6, <1>7, CallStep DEF tables, net, CInv, TypeOK

\* The model has answered, or the process throws on the answer.
LEMMA AnswerStep ==
  ASSUME CInv, NEW r \in Requests, Invoke(r) \/ Reply(r)
  PROVE  CInv'
<1>1. SocketServerSet = FALSE
  BY DEF SocketServerSet
<1>2. CASE Finish(r) /\ UNCHANGED <<tables, net>>
  BY <1>2, FinishStep
<1>3. CASE Invoke(r) /\ call' = [call EXCEPT ![r].pc = "reply"]
  <2> DEFINE k == [call[r] EXCEPT !.pc = "reply"]
  <2>1. call[r] \in Call /\ GoodCall(r) /\ call[r].pc = "invoke"
    BY <1>3 DEF CInv, TypeOK, AllCalls, Invoke
  <2>2. /\ k \in Call /\ k.pc = "reply" /\ k.user = call[r].user /\ k.chat = call[r].chat
    BY <2>1 DEF Call, Steps
  <2>3. call' = [call EXCEPT ![r] = k] /\ UNCHANGED <<tables, net>>
    BY <1>3 DEF Invoke, CInv, TypeOK
  <2> HIDE DEF k
  <2>4. GoneSocketsLeftTheirRooms'
    BY <2>3 DEF net, CInv, GoneSocketsLeftTheirRooms
  <2>5. /\ k.user \in Users /\ k.chat \in 1..chats /\ owner[k.chat] = k.user
    BY <2>1, <2>2 DEF GoodCall, Writing
  <2> QED
    BY <2>2, <2>3, <2>4, <2>5, CallStep DEF tables, net, CInv, TypeOK
<1> QED
  BY <1>1, <1>2, <1>3 DEF Invoke, Reply, net

LEMMA BeginStep ==
  ASSUME CInv, NEW r \in Requests,
         \/ \E u \in Users : BeginStart(r, u)
         \/ \E s \in Sockets, u \in Users, c \in Chats : BeginSend(r, s, u, c)
  PROVE  CInv'
<1>1. PICK k \in Call : /\ call' = [call EXCEPT ![r] = k] /\ k.user \in Users
                        /\ k.pc \in {"create", "save"}
                        /\ k.pc = "save" => k.chat \in 1..chats /\ owner[k.chat] = k.user
  <2>1. CASE \E u \in Users : BeginStart(r, u)
    <3>1. PICK u \in Users : BeginStart(r, u)
      BY <2>1
    <3> DEFINE k == [Idle EXCEPT !.pc = "create", !.user = u]
    <3>2. k \in Call /\ k.user = u /\ k.pc = "create"
      BY IdleIsCall DEF Call, Steps
    <3> QED
      BY <3>1, <3>2 DEF BeginStart
  <2>2. CASE \E s \in Sockets, u \in Users, c \in Chats : BeginSend(r, s, u, c)
    <3>1. PICK s \in Sockets, u \in Users, c \in Chats : BeginSend(r, s, u, c)
      BY <2>2
    <3>2. c \in 1..chats /\ c \in 0..MaxChats /\ owner[c] = u
      <4>1. c \in 1..MaxChats /\ c <= chats /\ owner[c] = u
        BY <3>1 DEF BeginSend, Chats
      <4>2. chats \in Nat /\ MaxChats \in Nat
        BY Numbers DEF CInv
      <4> QED
        BY <4>1, <4>2
    <3> DEFINE k == [Idle EXCEPT !.pc = "save", !.user = u, !.chat = c, !.socket = s]
    <3>3. k \in Call /\ k.user = u /\ k.pc = "save" /\ k.chat = c
      BY <3>2, IdleIsCall DEF Call, Steps
    <3> QED
      BY <3>1, <3>2, <3>3 DEF BeginSend
  <2> QED
    BY <2>1, <2>2
<1>2. UNCHANGED <<tables, net>>
  BY DEF BeginStart, BeginSend
<1>3. GoneSocketsLeftTheirRooms'
  BY <1>2 DEF net, CInv, GoneSocketsLeftTheirRooms
<1> QED
  BY <1>1, <1>2, <1>3, CallStep DEF tables, net, CInv, TypeOK, Writing

LEMMA JoinStep ==
  ASSUME CInv, NEW r \in Requests,
         \/ \E s \in Sockets, u \in Users : BeginJoin(r, s, u)
         \/ JoinRooms(r)
  PROVE  CInv'
<1>1. CASE JoinRooms(r)
  <2>1. PICK s \in Sockets : s = call[r].socket
    BY DEF CInv, TypeOK, Call
  <2>2. PICK found \in SUBSET Chats : found = call[r].found
    BY DEF CInv, TypeOK, Call
  <2>3. /\ rooms' = [rooms EXCEPT ![s] = IF socket[s] = "up" THEN rooms[s] \cup found
                                                             ELSE rooms[s]]
        /\ call' = [call EXCEPT ![r] = Idle] /\ UNCHANGED <<tables, socket, replies>>
    BY <1>1, <2>1, <2>2 DEF JoinRooms, Finish
  <2>4. rooms' \in [Sockets -> SUBSET Chats] /\ GoneSocketsLeftTheirRooms'
    BY <2>3 DEF CInv, TypeOK, GoneSocketsLeftTheirRooms
  <2>5. Idle.pc = "idle"
    BY DEF Idle
  <2> QED
    BY <2>3, <2>4, <2>5, IdleIsCall, CallStep DEF tables, CInv, TypeOK, Writing
<1>2. ASSUME NEW s \in Sockets, NEW u \in Users, BeginJoin(r, s, u)
      PROVE  CInv'
  <2>1. /\ socket' = [socket EXCEPT ![s] = "up"] /\ UNCHANGED <<tables, rooms, replies>>
    BY <1>2 DEF BeginJoin
  <2>2. /\ socket' \in [Sockets -> {"new", "up", "gone"}] /\ GoneSocketsLeftTheirRooms'
    BY <2>1 DEF CInv, TypeOK, GoneSocketsLeftTheirRooms
  <2>3. CASE u \notin users
    <3>1. call' = call
      BY <1>2, <2>3 DEF BeginJoin
    <3> QED
      BY <2>1, <2>2, <3>1 DEF tables, CInv, TypeOK, AllCalls, GoodCall,
         AnsweredMessageInContext
  <2>4. CASE u \in users
    <3> DEFINE k == [Idle EXCEPT !.pc = "join", !.socket = s, !.found = ChatsOf(u)]
    <3>1. ChatsOf(u) \subseteq Chats
      BY Numbers DEF ChatsOf, CInv
    <3>2. k \in Call /\ k.pc = "join"
      BY <3>1, IdleIsCall DEF Call, Steps
    <3>3. call' = [call EXCEPT ![r] = k]
      BY <1>2, <2>4 DEF BeginJoin
    <3> HIDE DEF k
    <3> QED
      BY <2>1, <2>2, <3>2, <3>3, CallStep DEF tables, CInv, TypeOK, Writing
  <2> QED
    BY <2>3, <2>4
<1> QED
  BY <1>1, <1>2

LEMMA OutsideStep ==
  ASSUME CInv,
         \/ \E s \in Sockets : Disconnect(s)
         \/ \E u \in Users : RemoveUser(u)
         \/ Crash
  PROVE  CInv'
<1>1. UNCHANGED <<chats, owner, messages, replies>>
  BY DEF Disconnect, RemoveUser, Crash, tables, net
<1>2. users' \subseteq Users
  BY DEF Disconnect, RemoveUser, Crash, tables, CInv, TypeOK
<1>3. /\ socket' \in [Sockets -> {"new", "up", "gone"}]
      /\ rooms' \in [Sockets -> SUBSET Chats] /\ GoneSocketsLeftTheirRooms'
  BY DEF Disconnect, RemoveUser, Crash, net, CInv, TypeOK, GoneSocketsLeftTheirRooms
<1>4. call' = call \/ call' = [r \in Requests |-> Idle]
  BY DEF Disconnect, RemoveUser, Crash
<1>5. call' \in [Requests -> Call]
        /\ \A r \in Requests : call'[r] = call[r] \/ call'[r].pc = "idle"
  <2>1. Idle.pc = "idle" /\ call \in [Requests -> Call]
    BY DEF Idle, CInv, TypeOK
  <2> QED
    BY <1>4, <2>1, IdleIsCall
<1>6. AllCalls' /\ AnsweredMessageInContext'
  BY <1>1, <1>5 DEF CInv, AllCalls, GoodCall, Writing, AnsweredMessageInContext
<1> QED
  BY <1>1, <1>2, <1>3, <1>5, <1>6 DEF CInv, TypeOK

LEMMA CInvStep == CInv /\ [Next]_vars => CInv'
<1> SUFFICES ASSUME CInv, [Next]_vars
             PROVE  CInv'
  OBVIOUS
<1>1. CASE UNCHANGED vars
  BY <1>1 DEF vars, tables, net, CInv, TypeOK, AllCalls, GoodCall,
     AnsweredMessageInContext, GoneSocketsLeftTheirRooms
<1>2. ASSUME NEW r \in Requests, Fail(r)
      PROVE  CInv'
  BY <1>2, FinishStep DEF Fail
<1>3. ASSUME NEW r \in Requests, Handle(r)
      PROVE  CInv'
  BY <1>2, <1>3, CreateStep, SaveStep, ContextStep, AnswerStep, JoinStep DEF Handle
<1> QED
  BY <1>1, <1>3, BeginStep, JoinStep, OutsideStep DEF Next

LEMMA CInvAlways == Spec => []CInv
<1>1. CInv /\ [Next]_vars => CInv'
  BY CInvStep
<1> QED
  BY <1>1, CInvInit, PTL DEF Spec

-----------------------------------------------------------------------------
\* Every variable keeps its type, whatever calls and connections interleave.
THEOREM TypeCorrect == Spec => []TypeOK
<1>1. CInv => TypeOK
  BY DEF CInv
<1> QED
  BY <1>1, CInvAlways, PTL

\* The model sees the message it answers, or the page is full of later ones.
THEOREM AnsweredInContext == Spec => []AnsweredMessageInContext
<1>1. CInv => AnsweredMessageInContext
  BY DEF CInv
<1> QED
  BY <1>1, CInvAlways, PTL

\* A socket that is gone is in no room, also when a join ends after it left.
THEOREM GoneSockets == Spec => []GoneSocketsLeftTheirRooms
<1>1. CInv => GoneSocketsLeftTheirRooms
  BY DEF CInv
<1> QED
  BY <1>1, CInvAlways, PTL
=============================================================================
