-------------------------------- MODULE Chat --------------------------------
(***************************************************************************)
(* The chatbot: ChatController starts chats, ChatGateway lets sockets join *)
(* the rooms of a user's chats and send messages, ChatService stores them  *)
(* and asks the language model.  A request is a slot r of Requests; each   *)
(* step is the code between two awaits.  A call refused at its first read  *)
(* (unknown user or chat, another user's chat) changes nothing and is no   *)
(* step, like the calls that only read.                                    *)
(***************************************************************************)
EXTENDS Naturals, Sequences, SequencesExt

CONSTANTS
    Users,          \* users.id
    NoUser,
    Sockets,        \* socket.io connections, each used once
    Requests,       \* HTTP and socket calls in flight
    ContextLength,  \* CHAT_CONTEXT_LENGTH, how many messages the model sees
    MaxChats,       \* bound: chats started
    MaxMessages     \* bound: messages per chat

Chats == 1..MaxChats

ASSUME NoUserAssumption        == NoUser \notin Users
ASSUME SocketsAssumption       == Sockets # {}
ASSUME ContextLengthAssumption == ContextLength \in Nat \ {0}
ASSUME BoundsAssumption        == MaxChats \in Nat /\ MaxMessages \in Nat

VARIABLES
    users,      \* rows of users that exist
    chats,      \* chats started so far; createdAt orders them
    owner,      \* owner[c]: chats.userId
    messages,   \* messages[c]: senderId of its messages, oldest first
    socket,     \* socket[s]: "new", "up" or "gone"
    rooms,      \* rooms[s]: the rooms of the adapter that s is in
    replies,    \* replies[c]: new_system_msg events sent to the room of c
    call        \* call[r]: where request r stands, and its locals

tables == <<users, chats, owner, messages>>
net    == <<socket, rooms, replies>>
vars   == <<tables, net, call>>

-----------------------------------------------------------------------------
Steps == {"idle", "create", "saveStart", "save", "context", "invoke", "reply",
          "join"}

Call == [pc : Steps, user : Users \cup {NoUser}, chat : 0..MaxChats,
         socket : Sockets, mine : 0..MaxMessages,
         context : Seq(1..MaxMessages), found : SUBSET Chats]

Idle == [pc |-> "idle", user |-> NoUser, chat |-> 0,
         socket |-> CHOOSE s \in Sockets : TRUE, mine |-> 0, context |-> <<>>,
         found |-> {}]

\* The first page of the oldest messages.
OldestFirst(c) == [i \in 1..Min({Len(messages[c]), ContextLength}) |-> i]

\* A page that skips the newest message.
PageAfterNewest(c) ==
    LET n == Len(messages[c]) IN
    [i \in 1..Min({n, ContextLength}) |-> n - i]

\* getMessagesWithCount: one page, createdAt descending.
NewestFirst(c) ==
    LET n == Len(messages[c]) IN
    [i \in 1..Min({n, ContextLength}) |-> n + 1 - i]

\* findActiveChatsByUserId, which asks for no isActive.
ChatsOf(u) == {c \in 1..chats : owner[c] = u}

\* Nest injects the server into gateways; ChatService is none.
SocketServerSet == FALSE

Finish(r) == call' = [call EXCEPT ![r] = Idle]
Save(c, u) == messages' = [messages EXCEPT ![c] = Append(@, u)]

TypeOK ==
    /\ users \subseteq Users
    /\ chats \in 0..MaxChats
    /\ owner \in [Chats -> Users \cup {NoUser}]
    /\ messages \in [Chats -> Seq(Users)]
    /\ \A c \in Chats : Len(messages[c]) <= MaxMessages
    /\ socket \in [Sockets -> {"new", "up", "gone"}]
    /\ rooms \in [Sockets -> SUBSET Chats]
    /\ replies \in [Chats -> Nat]
    /\ call \in [Requests -> Call]

Init ==
    /\ users = Users
    /\ chats = 0
    /\ owner = [c \in Chats |-> NoUser]
    /\ messages = [c \in Chats |-> <<>>]
    /\ socket = [s \in Sockets |-> "new"]
    /\ rooms = [s \in Sockets |-> {}]
    /\ replies = [c \in Chats |-> 0]
    /\ call = [r \in Requests |-> Idle]

-----------------------------------------------------------------------------
(* Seeded faults: plausible slips in the code below, each of which one of  *)
(* the properties must catch, as it must for the two pages above.  No      *)
(* behaviour of Spec uses them.                                            *)

\* The rooms are joined although the socket has gone meanwhile.
JoinRoomsLate(r) ==
    /\ call[r].pc = "join"
    /\ rooms' = [rooms EXCEPT ![call[r].socket] = @ \cup call[r].found]
    /\ Finish(r)
    /\ UNCHANGED <<tables, socket, replies>>

\* The model is asked without a timeout: it may never answer.
InvokeUnlimited(r) == FALSE

-----------------------------------------------------------------------------
(* POST /chats: the user is looked up, the chat saved, then its starting   *)
(* message when there is one.  The model is not asked.                     *)
BeginStart(r, u) ==
    /\ call[r] = Idle
    /\ u \in users
    /\ call' = [call EXCEPT ![r] = [Idle EXCEPT !.pc = "create", !.user = u]]
    /\ UNCHANGED <<tables, net>>

CreateChat(r, startingMessage) ==
    /\ call[r].pc = "create"
    /\ chats < MaxChats
    /\ chats' = chats + 1
    /\ owner' = [owner EXCEPT ![chats'] = call[r].user]
    /\ IF startingMessage
       THEN call' = [call EXCEPT ![r].pc = "saveStart", ![r].chat = chats']
       ELSE Finish(r)
    /\ UNCHANGED <<users, messages, net>>

SaveStartingMessage(r) ==
    /\ call[r].pc = "saveStart"
    /\ Len(messages[call[r].chat]) < MaxMessages
    /\ Save(call[r].chat, call[r].user)
    /\ Finish(r)
    /\ UNCHANGED <<users, chats, owner, net>>

(* send_msg: the chat is found and its owner is the sender that the        *)
(* message names, whoever the socket belongs to.                           *)
BeginSend(r, s, u, c) ==
    /\ call[r] = Idle
    /\ socket[s] = "up"
    /\ c <= chats
    /\ owner[c] = u
    /\ call' = [call EXCEPT ![r] = [Idle EXCEPT !.pc = "save", !.user = u,
                                                !.chat = c, !.socket = s]]
    /\ UNCHANGED <<tables, net>>

(* The message is saved and the sender told that the bot is typing.        *)
SaveMessage(r) ==
    LET c == call[r].chat IN
    /\ call[r].pc = "save"
    /\ Len(messages[c]) < MaxMessages
    /\ Save(c, call[r].user)
    /\ call' = [call EXCEPT ![r].pc = "context", ![r].mine = Len(messages[c]) + 1]
    /\ UNCHANGED <<users, chats, owner, net>>

ReadContext(r) ==
    /\ call[r].pc = "context"
    /\ call' = [call EXCEPT ![r].pc = "invoke",
                            ![r].context = NewestFirst(call[r].chat)]
    /\ UNCHANGED <<tables, net>>

(* LLMService.invoke answers, or throws: at the latest after its timeout.  *)
Invoke(r) ==
    /\ call[r].pc = "invoke"
    /\ call' = [call EXCEPT ![r].pc = "reply"] \/ Finish(r)
    /\ UNCHANGED <<tables, net>>

(* The answer goes to the chat's room; it is never saved.  Without a       *)
(* server the call throws.                                                 *)
Reply(r) ==
    /\ call[r].pc = "reply"
    /\ IF SocketServerSet
       THEN replies' = [replies EXCEPT ![call[r].chat] = @ + 1]
       ELSE UNCHANGED replies
    /\ Finish(r)
    /\ UNCHANGED <<tables, socket, rooms>>

(* handleConnection and join_active_chats: the user's chats are read, then *)
(* joined one by one.  The socket names the user itself.  When there is no *)
(* such user the call rejects and joins nothing; nobody disconnects the    *)
(* socket.  If the unhandled rejection ends the process, that is Crash.    *)
BeginJoin(r, s, u) ==
    /\ call[r] = Idle
    /\ socket[s] # "gone"
    /\ socket' = [socket EXCEPT ![s] = "up"]
    /\ call' = IF u \in users
               THEN [call EXCEPT ![r] = [Idle EXCEPT !.pc = "join", !.socket = s,
                                                     !.found = ChatsOf(u)]]
               ELSE call
    /\ UNCHANGED <<tables, rooms, replies>>

(* A socket that was cleaned up ignores a join.                            *)
JoinRooms(r) ==
    LET s == call[r].socket IN
    /\ call[r].pc = "join"
    /\ rooms' = [rooms EXCEPT ![s] = IF socket[s] = "up" THEN @ \cup call[r].found
                                                         ELSE @]
    /\ Finish(r)
    /\ UNCHANGED <<tables, socket, replies>>

(* handleDisconnect: the socket leaves its rooms; its calls run on.        *)
Disconnect(s) ==
    /\ socket[s] = "up"
    /\ socket' = [socket EXCEPT ![s] = "gone"]
    /\ rooms' = [rooms EXCEPT ![s] = {}]
    /\ UNCHANGED <<tables, replies, call>>

(* DELETE /users: the chats stay, no foreign key ties them to the user.    *)
RemoveUser(u) ==
    /\ u \in users
    /\ users' = users \ {u}
    /\ UNCHANGED <<chats, owner, messages, net, call>>

(* A store call rejects, and the rest of the handler does not run.         *)
Fail(r) ==
    /\ call[r].pc \in {"create", "saveStart", "save", "context", "join"}
    /\ Finish(r)
    /\ UNCHANGED <<tables, net>>

(* The process dies: calls and connections go with it, the tables stay.    *)
Crash ==
    /\ call' = [r \in Requests |-> Idle]
    /\ socket' = [s \in Sockets |-> IF socket[s] = "up" THEN "gone" ELSE socket[s]]
    /\ rooms' = [s \in Sockets |-> {}]
    /\ UNCHANGED <<tables, replies>>

Handle(r) ==
    \/ \E b \in BOOLEAN : CreateChat(r, b)
    \/ SaveStartingMessage(r) \/ SaveMessage(r) \/ ReadContext(r)
    \/ Invoke(r) \/ Reply(r) \/ JoinRooms(r) \/ Fail(r)

Next ==
    \/ \E r \in Requests :
         \/ Handle(r)
         \/ \E u \in Users : BeginStart(r, u)
         \/ \E s \in Sockets, u \in Users : BeginJoin(r, s, u)
         \/ \E s \in Sockets, u \in Users, c \in Chats : BeginSend(r, s, u, c)
    \/ \E s \in Sockets : Disconnect(s)
    \/ \E u \in Users : RemoveUser(u)
    \/ Crash

Spec == Init /\ [][Next]_vars

\* A store call and the model answer or fail; the event loop runs the rest.
FairSpec == Spec /\ \A r \in Requests : WF_vars(Handle(r))

-----------------------------------------------------------------------------
\* The model sees the message it is to answer, unless ContextLength messages
\* of other requests were saved after it (message.action.ts:20-35).
AnsweredMessageInContext ==
    \A r \in Requests : call[r].pc = "invoke" =>
        LET seen == ToSet(call[r].context) IN
        \/ call[r].mine \in seen
        \/ /\ Len(call[r].context) = ContextLength
           /\ \A i \in seen : i > call[r].mine

\* A socket that is gone is in no room, whenever its rooms are joined
\* (chat.service.ts:47-52 against chat.gateway.ts:26-28).
GoneSocketsLeftTheirRooms ==
    \A s \in Sockets : socket[s] # "up" => rooms[s] = {}

\* A message that was saved is handled to the end, whatever the model does:
\* it is asked with a timeout (llm.service.ts:28-34).
SendsEnd == \A r \in Requests : call[r].pc = "context" ~> call[r].pc = "idle"

\* "return message to the sender" (chat.service.ts:128): when the model has
\* answered, the answer is sent to the chat's room.
AnswersAreSent ==
    [][\A r \in Requests :
         call[r].pc = "reply" /\ call'[r].pc = "idle" /\ ~Crash
           => replies'[call[r].chat] > replies[call[r].chat]]_vars
=============================================================================
