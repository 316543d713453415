------------------------------ MODULE Contents ------------------------------
(***************************************************************************)
(* The dummy players (Update.cpp, Player.h): one thread drains g_msgQ into *)
(* RecvLoginJob and RecvChatJob, then connects and sends.  A player takes  *)
(* an account from g_NonConnectedStack, logs in at the login server, moves *)
(* over g_moveQ to the chat server and plays there until its session goes. *)
(*                                                                         *)
(* The two NetClients are two copies of ClientEvents.  g_msgQ is split     *)
(* into their parts: what two clients' workers append comes in any order   *)
(* anyway.  The servers are external and answer each request once, in the  *)
(* way LoginDummy's and ChatDummy's peers are expected to.                 *)
(*                                                                         *)
(* Clocks and rand() are free choices.  A player is named by the id of its *)
(* login session.                                                          *)
(***************************************************************************)
EXTENDS Integers, Sequences, FiniteSets

CONSTANTS
    MaxSession,       \* g_maxSession
    DuplicateLogin,   \* may g_bDuplicateLoginOn be on?
    TestTimeOut,      \* may g_bTestTimeOut be on?
    FreedNodeIntact,  \* does an erased map node keep its value (Update.cpp:558)?
    MaxLogins,        \* bound on login sessions, and so on players
    MaxOthers,        \* bound on chat messages of other players
    MaxFails          \* bound on CONNECT_FAIL jobs of a client in g_msgQ

ASSUME SessionAssumption == MaxSession \in Nat \ {0}
ASSUME ModeAssumption ==
    DuplicateLogin \in BOOLEAN /\ TestTimeOut \in BOOLEAN /\ FreedNodeIntact \in BOOLEAN
ASSUME BoundAssumption == MaxLogins \in Nat /\ MaxOthers \in Nat /\ MaxFails \in Nat

Ids == 0 .. MaxLogins - 1
NoPlayer == -1
Accounts == 1 .. MaxSession
NoAccount == 0

\* field_: its bits.  LOGIN_ACTIVATE_AT_CHAT is only ever set, never read.
Tests == {"DUPLICATE_TARGET", "SESSION_TIMEOUT_TARGET", "LOGIN_TIMOUT_TARGET",
          "DISCONNECT_TARGET"}
Fields == Tests \cup {"REGISTER_AT_SECTOR", "RESERVE_SEND_MESSAGE"}

\* state_; "none" is a Player that is not allocated.
LoginStates == {"LOGIN_CONNECT_SUCCESS", "CS_LOGIN_REQ_LOGIN_SENT", "LOGIN_TRY_DISCONNECT"}
ChatConnectStates == {"CHAT_CONNECT_SUCCESS", "CS_CHAT_REQ_LOGIN_SENT"}
RecvStates == {"CS_CHAT_RES_LOGIN_RECV", "CS_CHAT_RES_SECTOR_MOVE_RECV",
               "CS_CHAT_RES_MESSAGE_RECV"}
SentStates == {"CS_CHAT_REQ_SECTOR_MOVE_SENT", "CS_CHAT_REQ_MESSAGE_SENT"}
States == {"none", "CHAT_CONNECT_TRY", "CHAT_TRY_DISCONNECT"}
          \cup LoginStates \cup ChatConnectStates \cup RecvStates \cup SentStates

NewPlayer(state, account, new) ==
    [state |-> state, field |-> {}, pInfo |-> account, bDuplicateNew |-> new]
Unused == NewPlayer("none", NoAccount, FALSE)

VARIABLES
    loginPhase, loginPending, loginQ,  \* g_pLoginDummy
    chatPhase, chatPending, chatQ,     \* g_pChatDummy
    loginOwes, chatOwes,               \* servers: the replies they owe
    sector,                            \* chat server: sessions that are in a sector
    inbox,                             \* contents of a session's RECV_MESSAGE jobs
    cut,                               \* sessions on which Disconnect was called
    others,                            \* chat messages of other players so far
    disconnectedNum, nonConnected,     \* g_disconnectedNum, g_NonConnectedStack (head = top)
    player,                            \* g_playerPool
    loginMap, moveQ,                   \* g_loginPlayerMap, g_moveQ
    chatConnect, chatLogin,            \* g_chatConnectPlayerMap, g_chatLoginPlayerMap
    gauge,                             \* the three g_..TPS counters of test targets
    acting,                            \* Update() has drained g_msgQ
    broken                             \* a __debugbreak or an undefined access was reached

loginNet == <<loginPhase, loginPending, loginQ>>
chatNet  == <<chatPhase, chatPending, chatQ>>
servers  == <<loginOwes, chatOwes, sector, others>>
slots    == <<disconnectedNum, nonConnected>>
maps     == <<loginMap, moveQ, chatConnect, chatLogin>>
players  == <<player, gauge>>
vars == <<loginNet, chatNet, servers, inbox, cut, slots, players, maps, acting, broken>>

Login == INSTANCE ClientEvents WITH
            phase <- loginPhase, pending <- loginPending, queue <- loginQ
Chat  == INSTANCE ClientEvents WITH
            phase <- chatPhase, pending <- chatPending, queue <- chatQ

Init ==
    /\ Login!Init /\ Chat!Init
    /\ loginOwes = {} /\ chatOwes = [c \in Ids |-> "none"] /\ sector = {} /\ others = 0
    /\ inbox = [c \in Ids |-> <<>>] /\ cut = {}
    /\ disconnectedNum = MaxSession
    /\ nonConnected = [i \in 1 .. MaxSession |-> MaxSession + 1 - i]
    /\ player = [p \in Ids |-> Unused]
    /\ gauge = [duplicate |-> 0, session |-> 0, login |-> 0]
    /\ loginMap = {} /\ moveQ = <<>>
    /\ chatConnect = [c \in Ids |-> NoPlayer] /\ chatLogin = [c \in Ids |-> NoPlayer]
    /\ acting = FALSE /\ broken = FALSE

-----------------------------------------------------------------------------
(* Building blocks *)

Alive == {p \in Ids : player[p].state # "none"}

\* __debugbreak, or an access to what is not there
Break == broken' = TRUE /\ UNCHANGED <<slots, players, maps, cut>>
Fine == UNCHANGED broken

Push(account) == nonConnected' = <<account>> \o nonConnected
Free(p) == player' = [player EXCEPT ![p] = Unused]
Bump(name, n) == gauge' = [gauge EXCEPT ![name] = @ + n]

\* Update() takes a job of one of the two clients.
LoginJob(type) ==
    /\ ~broken /\ ~acting /\ loginQ # <<>> /\ Head(loginQ).type = type
    /\ Login!TakeEvent
    /\ UNCHANGED <<servers, inbox, acting>>
ChatJob(type) ==
    /\ ~broken /\ ~acting /\ chatQ # <<>> /\ Head(chatQ).type = type
    /\ Chat!TakeEvent
    /\ UNCHANGED <<loginNet, servers, acting>>

-----------------------------------------------------------------------------
(* RecvLoginJob *)

\* The new player takes the account on top of g_NonConnectedStack, or that of a
\* player in the chat server, which becomes the target of the duplicate login.
TakeAccount(p) ==
    IF nonConnected = <<>> THEN Break /\ UNCHANGED chatNet
    ELSE /\ player' = [player EXCEPT
                ![p] = NewPlayer("LOGIN_CONNECT_SUCCESS", Head(nonConnected), FALSE)]
         /\ nonConnected' = Tail(nonConnected)
         /\ loginMap' = loginMap \cup {p}
         /\ Fine
         /\ UNCHANGED <<disconnectedNum, gauge, moveQ, chatConnect, chatLogin, cut, chatNet>>

VictimsAny == {v \in Ids : \E c \in Ids : chatLogin[c] = v}          \* mutant
Victims == {v \in Ids : /\ \E c \in Ids : chatLogin[c] = v
                        /\ player[v].field \cap Tests = {}}

TakeOver(p, v) ==
    /\ player' = [player EXCEPT
            ![v].field = @ \cup {"DUPLICATE_TARGET"},
            ![p] = NewPlayer("LOGIN_CONNECT_SUCCESS", player[v].pInfo, TRUE)]
    /\ Bump("duplicate", 1)
    /\ loginMap' = loginMap \cup {p}
    /\ Fine
    /\ UNCHANGED <<slots, moveQ, chatConnect, chatLogin, cut, chatNet>>

LoginConnected ==
    /\ LoginJob("CONNECT_SUCCESS")
    /\ LET p == Head(loginQ).id IN
       \/ TakeAccount(p)
       \/ DuplicateLogin /\ \E v \in Victims : TakeOver(p, v)

\* The login reply: the player leaves the login server.
LoginRecv ==
    /\ LoginJob("RECV_MESSAGE")
    /\ LET p == Head(loginQ).id IN
       IF p \notin loginMap THEN Break /\ UNCHANGED chatNet
       ELSE /\ player' = [player EXCEPT ![p].state = "LOGIN_TRY_DISCONNECT",
                                        ![p].field = @ \cup {"DISCONNECT_TARGET"}]
            /\ cut' = cut \cup {<<"login", p>>}
            /\ Fine
            /\ UNCHANGED <<slots, gauge, maps, chatNet>>

\* Released after a good reply: on to the chat server.  Otherwise the login
\* failed, and account and slot are free again.
ToChatNoConnect(p) ==                                                \* mutant
    /\ player' = [player EXCEPT ![p].state = "CHAT_CONNECT_TRY"]
    /\ moveQ' = Append(moveQ, p)
    /\ UNCHANGED <<slots, gauge, chatNet>>
ToChatNoQueue(p) ==                                                  \* mutant
    /\ player' = [player EXCEPT ![p].state = "CHAT_CONNECT_TRY"]
    /\ Chat!Ask
    /\ UNCHANGED <<slots, gauge, moveQ>>
ToChatFreesSlot(p) ==                                                \* mutant
    /\ player' = [player EXCEPT ![p].state = "CHAT_CONNECT_TRY"]
    /\ moveQ' = Append(moveQ, p)
    /\ Chat!Ask
    /\ disconnectedNum' = disconnectedNum + 1
    /\ UNCHANGED <<nonConnected, gauge>>
ToChat(p) ==
    /\ player' = [player EXCEPT ![p].state = "CHAT_CONNECT_TRY"]
    /\ moveQ' = Append(moveQ, p)
    /\ Chat!Ask
    /\ UNCHANGED <<slots, gauge>>

LoginDown(p) ==
    /\ disconnectedNum' = disconnectedNum + 1
    /\ Push(player[p].pInfo)
    /\ Free(p)
    /\ UNCHANGED <<moveQ, gauge, chatNet>>

LoginReleased ==
    /\ LoginJob("ON_RELEASE")
    /\ LET p == Head(loginQ).id IN
       IF p \notin loginMap THEN Break /\ UNCHANGED chatNet
       ELSE /\ IF player[p].state = "LOGIN_TRY_DISCONNECT" THEN ToChat(p) ELSE LoginDown(p)
            /\ loginMap' = loginMap \ {p}
            /\ Fine
            /\ UNCHANGED <<chatConnect, chatLogin, cut>>

LoginConnectFail ==
    /\ LoginJob("CONNECT_FAIL")
    /\ Fine
    /\ UNCHANGED <<slots, players, maps, cut, chatNet>>

LoginAllReconnectFail ==
    /\ LoginJob("ALL_RECONNECT_FAIL")
    /\ disconnectedNum' = disconnectedNum + 1
    /\ Fine
    /\ UNCHANGED <<nonConnected, players, maps, cut, chatNet>>

-----------------------------------------------------------------------------
(* RecvChatJob *)

\* A player that made the change from one server to the other may be chosen for
\* a timeout test, unless it is the new one of a duplicate login.
TestsFor(p) ==
    {{}} \cup IF TestTimeOut /\ ~player[p].bDuplicateNew
              THEN {{"SESSION_TIMEOUT_TARGET"}, {"LOGIN_TIMOUT_TARGET"}} ELSE {}

StartChatKeepsTarget(p, tests) ==                             \* mutant
    player' = [player EXCEPT ![p].state = "CHAT_CONNECT_SUCCESS",
                             ![p].field = @ \cup tests]
StartChat(p, tests) ==
    player' = [player EXCEPT ![p].state = "CHAT_CONNECT_SUCCESS",
                             ![p].field = (@ \ {"DISCONNECT_TARGET"}) \cup tests]

ChatConnected ==
    /\ ChatJob("CONNECT_SUCCESS")
    /\ LET c == Head(chatQ).id IN
       IF moveQ = <<>> THEN Break
       ELSE \E tests \in TestsFor(Head(moveQ)) :
            /\ StartChat(Head(moveQ), tests)
            /\ gauge' = [gauge EXCEPT
                    !.session = @ + (IF "SESSION_TIMEOUT_TARGET" \in tests THEN 1 ELSE 0),
                    !.login = @ + (IF "LOGIN_TIMOUT_TARGET" \in tests THEN 1 ELSE 0)]
            /\ chatConnect' = [chatConnect EXCEPT ![c] = Head(moveQ)]
            /\ moveQ' = Tail(moveQ)
            /\ Fine
            /\ UNCHANGED <<slots, loginMap, chatLogin, cut>>
    /\ UNCHANGED inbox

\* Released before it was logged in.  The iterator is read after its erase
\* (Update.cpp:555-558).
LeaveConnect(c) ==
    LET p == chatConnect[c] IN
    /\ chatConnect' = [chatConnect EXCEPT ![c] = NoPlayer]
    /\ Push(player[p].pInfo)
    /\ Free(p)
    /\ Bump("session", IF "SESSION_TIMEOUT_TARGET" \in player[p].field THEN -1 ELSE 0)
    /\ broken' = ~FreedNodeIntact
    /\ UNCHANGED chatLogin

\* Released after it was logged in.  The account of a duplicate login's target
\* has gone to the new player.
LeaveLoginPushes(c) ==                                               \* mutant
    LET p == chatLogin[c] IN
    /\ chatLogin' = [chatLogin EXCEPT ![c] = NoPlayer]
    /\ Free(p)
    /\ Push(player[p].pInfo) /\ UNCHANGED gauge
    /\ Fine
    /\ UNCHANGED chatConnect
LeaveLogin(c) ==
    LET p == chatLogin[c] IN
    /\ chatLogin' = [chatLogin EXCEPT ![c] = NoPlayer]
    /\ Free(p)
    /\ IF "DUPLICATE_TARGET" \in player[p].field
       THEN Bump("duplicate", -1) /\ UNCHANGED nonConnected
       ELSE /\ Push(player[p].pInfo)
            /\ Bump("login", IF "LOGIN_TIMOUT_TARGET" \in player[p].field THEN -1 ELSE 0)
    /\ Fine
    /\ UNCHANGED chatConnect

ChatReleased ==
    /\ ChatJob("ON_RELEASE")
    /\ LET c == Head(chatQ).id IN
       IF chatConnect[c] = NoPlayer /\ chatLogin[c] = NoPlayer THEN Break
       ELSE /\ disconnectedNum' = disconnectedNum + 1
            /\ IF chatConnect[c] # NoPlayer THEN LeaveConnect(c) ELSE LeaveLogin(c)
            /\ UNCHANGED <<loginMap, moveQ, cut>>
    /\ UNCHANGED inbox

ChatConnectFail ==
    /\ ChatJob("CONNECT_FAIL")
    /\ Fine
    /\ UNCHANGED <<inbox, slots, players, maps, cut>>

\* The player in front of g_moveQ gives up, whoever's Connect it was.
GiveUpKeepsSlot(p) == Push(player[p].pInfo) /\ UNCHANGED disconnectedNum   \* mutant
GiveUp(p) == Push(player[p].pInfo) /\ disconnectedNum' = disconnectedNum + 1

ChatAllReconnectFail ==
    /\ ChatJob("ALL_RECONNECT_FAIL")
    /\ IF moveQ = <<>> THEN Break
       ELSE /\ GiveUp(Head(moveQ))
            /\ Free(Head(moveQ))
            /\ moveQ' = Tail(moveQ)
            /\ Fine
            /\ UNCHANGED <<gauge, loginMap, chatConnect, chatLogin, cut>>
    /\ UNCHANGED inbox

-----------------------------------------------------------------------------
(* RecvChatMessage *)

Holder(c) == IF chatConnect[c] # NoPlayer THEN chatConnect[c] ELSE chatLogin[c]

\* The job's message is of this type, and it belongs to a player.
ChatMessage(c, type) ==
    /\ ChatJob("RECV_MESSAGE")
    /\ c = Head(chatQ).id /\ Head(inbox[c]) = type
    /\ inbox' = [inbox EXCEPT ![c] = Tail(@)]

\* After a reply the player goes on, or, unless it is part of some test, may be
\* chosen to disconnect.
AnsweredUnchecked(p, c, state) ==                                    \* mutant
    \/ player' = [player EXCEPT ![p].state = state] /\ UNCHANGED cut
    \/ /\ player' = [player EXCEPT ![p].state = "CHAT_TRY_DISCONNECT",
                                   ![p].field = @ \cup {"DISCONNECT_TARGET"}]
       /\ cut' = cut \cup {<<"chat", c>>}
Answered(p, c, state) ==
    \/ player' = [player EXCEPT ![p].state = state] /\ UNCHANGED cut
    \/ /\ player[p].field \cap Tests = {}
       /\ player' = [player EXCEPT ![p].state = "CHAT_TRY_DISCONNECT",
                                   ![p].field = @ \cup {"DISCONNECT_TARGET"}]
       /\ cut' = cut \cup {<<"chat", c>>}

ResLogin(c) ==
    /\ ChatMessage(c, "RES_LOGIN")
    /\ LET p == Holder(c) IN
       IF p = NoPlayer \/ player[p].state # "CS_CHAT_REQ_LOGIN_SENT" THEN Break
       ELSE /\ Answered(p, c, "CS_CHAT_RES_LOGIN_RECV")
            /\ chatConnect' = [chatConnect EXCEPT ![c] = NoPlayer]
            /\ chatLogin' = [chatLogin EXCEPT ![c] = p]
            /\ Fine
            /\ UNCHANGED <<slots, gauge, loginMap, moveQ>>

\* RES_SECTOR_MOVE and the player's own chat message: the reply to what it sent
ReplyTo == [RES_SECTOR_MOVE |-> "CS_CHAT_REQ_SECTOR_MOVE_SENT",
            RES_MESSAGE |-> "CS_CHAT_REQ_MESSAGE_SENT"]
After == [RES_SECTOR_MOVE |-> "CS_CHAT_RES_SECTOR_MOVE_RECV",
          RES_MESSAGE |-> "CS_CHAT_RES_MESSAGE_RECV"]

Registered(c) == Holder(c) # NoPlayer /\ "REGISTER_AT_SECTOR" \in player[Holder(c)].field

ResPlay(c, type) ==
    /\ ChatMessage(c, type)
    /\ LET p == Holder(c) IN
       IF \/ p = NoPlayer \/ player[p].state # ReplyTo[type]
          \/ type = "RES_MESSAGE" /\ ~Registered(c)
       THEN Break
       ELSE /\ Answered(p, c, After[type])
            /\ Fine
            /\ UNCHANGED <<slots, gauge, maps>>

\* A chat message of somebody else in the sector
ResOther(c) ==
    /\ ChatMessage(c, "RES_MESSAGE of another")
    /\ broken' = ~Registered(c)
    /\ UNCHANGED <<slots, players, maps, cut>>

-----------------------------------------------------------------------------
(* Update(): what it does once g_msgQ is drained *)

Drained ==
    /\ ~broken /\ ~acting /\ loginQ = <<>> /\ chatQ = <<>>
    /\ acting' = TRUE
    /\ UNCHANGED <<loginNet, chatNet, servers, inbox, cut, slots, players, maps, broken>>

\* The end of Update(), at once when g_bPlay is off
Return ==
    /\ ~broken /\ acting
    /\ acting' = FALSE
    /\ UNCHANGED <<loginNet, chatNet, servers, inbox, cut, slots, players, maps, broken>>

\* A step of one of the loops in Update.  The loops come one after the other; here
\* their steps come in any order: passes that find g_msgQ empty may lie between.
Acting == ~broken /\ acting /\ UNCHANGED <<inbox, cut, maps, acting, others>>

\* The number of login sessions ever asked for is bounded by MaxLogins.
ConnectKeepsNum ==                                                   \* mutant
    /\ Acting /\ disconnectedNum > 0
    /\ loginPending + Cardinality({i \in Ids : loginPhase[i] # "new"}) < MaxLogins
    /\ Login!Ask
    /\ UNCHANGED <<chatNet, loginOwes, chatOwes, sector, slots, players, broken>>
Connect ==
    /\ Acting /\ disconnectedNum > 0
    /\ loginPending + Cardinality({i \in Ids : loginPhase[i] # "new"}) < MaxLogins
    /\ Login!Ask
    /\ disconnectedNum' = disconnectedNum - 1
    /\ UNCHANGED <<chatNet, loginOwes, chatOwes, sector, nonConnected, players, broken>>

\* A request reaches the server only over a session that is up.
LoginUpdate(p) ==
    /\ Acting /\ p \in loginMap /\ "DISCONNECT_TARGET" \notin player[p].field
    /\ player[p].state \notin {"CS_LOGIN_REQ_LOGIN_SENT", "LOGIN_TRY_DISCONNECT"}
    /\ broken' = (player[p].state # "LOGIN_CONNECT_SUCCESS")
    /\ player' = [player EXCEPT ![p].state = "CS_LOGIN_REQ_LOGIN_SENT"]
    /\ loginOwes' = loginOwes \cup {i \in {p} : loginPhase[i] = "up"}
    /\ UNCHANGED <<loginNet, chatNet, chatOwes, sector, slots, gauge>>

\* SendPacket of a request that the chat server answers with reply
Send(c, reply) == chatOwes' = [chatOwes EXCEPT ![c] = IF chatPhase[c] = "up" THEN reply ELSE @]

\* Who is chosen for the session timeout never asks to log in.
SilentNobody(p) == FALSE                                             \* mutant
Silent(p) == "SESSION_TIMEOUT_TARGET" \in player[p].field

ChatConnectUpdate(c) ==
    /\ Acting /\ chatConnect[c] # NoPlayer
    /\ LET p == chatConnect[c] IN
       /\ IF player[p].state \in ChatConnectStates
          THEN ~Silent(p) /\ player[p].state = "CHAT_CONNECT_SUCCESS" /\ Fine
          ELSE broken' = TRUE
       /\ player' = [player EXCEPT ![p].state = "CS_CHAT_REQ_LOGIN_SENT"]
    /\ Send(c, "RES_LOGIN")
    /\ UNCHANGED <<loginNet, chatNet, loginOwes, sector, slots, gauge>>

\* Who may go on to send: nobody that is to disconnect or is under test.
\* SESSION_TIMEOUT_TARGET, not masked here, never gets into this map.
MayPlay(p) == {"DISCONNECT_TARGET", "DUPLICATE_TARGET", "LOGIN_TIMOUT_TARGET"}
                  \cap player[p].field = {}

ReserveSend(p) ==
    /\ player' = [player EXCEPT ![p].field = @ \cup {"RESERVE_SEND_MESSAGE"}]
    /\ UNCHANGED <<chatOwes, sector>>

\* SendRandomChatMessage: the first request is a sector move, and the player
\* counts as registered from the request on.
RegisterNever(field) == field \ {"RESERVE_SEND_MESSAGE"}             \* mutant
Register(field) == (field \ {"RESERVE_SEND_MESSAGE"}) \cup {"REGISTER_AT_SECTOR"}

SendRandomChatMessage(p, c) ==
    \/ /\ player' = [player EXCEPT ![p].state = "CS_CHAT_REQ_SECTOR_MOVE_SENT",
                                   ![p].field = Register(@)]
       /\ Send(c, "RES_SECTOR_MOVE")
       /\ sector' = sector \cup {i \in {c} : chatPhase[i] = "up"}
    \/ /\ "REGISTER_AT_SECTOR" \in player[p].field
       /\ player' = [player EXCEPT ![p].state = "CS_CHAT_REQ_MESSAGE_SENT",
                                   ![p].field = @ \ {"RESERVE_SEND_MESSAGE"}]
       /\ Send(c, "RES_MESSAGE")
       /\ UNCHANGED sector

ChatLoginUpdate(c) ==
    /\ Acting /\ chatLogin[c] # NoPlayer
    /\ LET p == chatLogin[c] IN
       /\ player[p].state \notin SentStates \cup {"CS_CHAT_REQ_LOGIN_SENT", "CHAT_TRY_DISCONNECT"}
       /\ player[p].state \in RecvStates => MayPlay(p)
       /\ broken' = (player[p].state \notin RecvStates)
       /\ IF "RESERVE_SEND_MESSAGE" \in player[p].field
          THEN SendRandomChatMessage(p, c) ELSE ReserveSend(p)
    /\ UNCHANGED <<loginNet, chatNet, loginOwes, slots, gauge>>

-----------------------------------------------------------------------------
(* The clients below and the servers behind them *)

Outside == ~broken /\ UNCHANGED <<slots, players, maps, acting, broken>>
LoginSide == Outside /\ UNCHANGED <<chatNet, chatOwes, sector, others, inbox>>
ChatSide == Outside /\ UNCHANGED <<loginNet, loginOwes>>

\* Ids are given out in order.  At most MaxFails CONNECT_FAIL jobs
\* are in a queue at a time: they change nothing.
InOrder(phase, i) == \A j \in Ids : j < i => phase[j] # "new"
MayFail(queue) ==
    Cardinality({n \in DOMAIN queue : queue[n].type = "CONNECT_FAIL"}) < MaxFails

LoginAnswers ==
    /\ LoginSide /\ UNCHANGED <<loginOwes, cut>>
    /\ \/ \E p \in Ids : InOrder(loginPhase, p) /\ Login!Connected(p)
       \/ Login!GivenUp
LoginAttempt == LoginSide /\ UNCHANGED <<loginOwes, cut>> /\ MayFail(loginQ) /\ Login!Attempt

LoginReplies(p) ==
    /\ LoginSide /\ p \in loginOwes /\ Login!Message(p)
    /\ loginOwes' = loginOwes \ {p}
    /\ UNCHANGED cut

LoginGone(p) ==
    /\ LoginSide /\ Login!Released(p)
    /\ loginOwes' = loginOwes \ {p}
    /\ cut' = cut \ {<<"login", p>>}

ChatAnswers ==
    /\ ChatSide /\ UNCHANGED <<chatOwes, sector, others, inbox, cut>>
    /\ \/ \E c \in Ids : InOrder(chatPhase, c) /\ Chat!Connected(c)
       \/ Chat!GivenUp
ChatAttempt ==
    /\ ChatSide /\ UNCHANGED <<chatOwes, sector, others, inbox, cut>>
    /\ MayFail(chatQ) /\ Chat!Attempt

ChatReplies(c) ==
    /\ ChatSide /\ chatOwes[c] # "none" /\ Chat!Message(c)
    /\ inbox' = [inbox EXCEPT ![c] = Append(@, chatOwes[c])]
    /\ chatOwes' = [chatOwes EXCEPT ![c] = "none"]
    /\ UNCHANGED <<sector, others, cut>>

ChatOther(c) ==
    /\ ChatSide /\ c \in sector /\ others < MaxOthers /\ Chat!Message(c)
    /\ inbox' = [inbox EXCEPT ![c] = Append(@, "RES_MESSAGE of another")]
    /\ others' = others + 1
    /\ UNCHANGED <<chatOwes, sector, cut>>

ChatGone(c) ==
    /\ ChatSide /\ Chat!Released(c)
    /\ chatOwes' = [chatOwes EXCEPT ![c] = "none"]
    /\ sector' = sector \ {c}
    /\ cut' = cut \ {<<"chat", c>>}
    /\ UNCHANGED <<others, inbox>>

-----------------------------------------------------------------------------
RecvLoginJob ==
    \/ LoginConnected \/ LoginRecv \/ LoginReleased
    \/ LoginConnectFail \/ LoginAllReconnectFail

RecvChatMessage ==
    \E c \in Ids :
        \/ ResLogin(c) \/ ResOther(c)
        \/ \E type \in {"RES_SECTOR_MOVE", "RES_MESSAGE"} : ResPlay(c, type)

RecvChatJob ==
    \/ ChatConnected \/ RecvChatMessage \/ ChatReleased
    \/ ChatConnectFail \/ ChatAllReconnectFail

Act ==
    \/ Connect
    \/ \E i \in Ids : LoginUpdate(i) \/ ChatConnectUpdate(i) \/ ChatLoginUpdate(i)

Network ==
    \/ LoginAnswers \/ LoginAttempt \/ ChatAnswers \/ ChatAttempt
    \/ \E i \in Ids : LoginReplies(i) \/ LoginGone(i)
    \/ \E i \in Ids : ChatReplies(i) \/ ChatOther(i) \/ ChatGone(i)

Next == RecvLoginJob \/ RecvChatJob \/ Drained \/ Return \/ Act \/ Network

Spec == Init /\ [][Next]_vars
=============================================================================
