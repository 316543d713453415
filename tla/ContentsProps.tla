--------------------------- MODULE ContentsProps ---------------------------
(***************************************************************************)
(* What the players must guarantee: none is lost, no account is used       *)
(* twice, every answer finds its player in the state it expects.           *)
(***************************************************************************)
EXTENDS Contents

PlayerRecords ==
    [state : States, field : SUBSET Fields, pInfo : Accounts \cup {NoAccount},
     bDuplicateNew : BOOLEAN]
Replies == {"RES_LOGIN", "RES_SECTOR_MOVE", "RES_MESSAGE"}

\* Every variable holds a value of its kind.
TypeOK ==
    /\ loginOwes \subseteq Ids /\ sector \subseteq Ids /\ loginMap \subseteq Ids
    /\ chatOwes \in [Ids -> Replies \cup {"none"}]
    /\ inbox \in [Ids -> Seq(Replies \cup {"RES_MESSAGE of another"})]
    /\ cut \subseteq {"login", "chat"} \X Ids /\ others \in 0 .. MaxOthers
    /\ disconnectedNum \in 0 .. MaxSession /\ nonConnected \in Seq(Accounts)
    /\ player \in [Ids -> PlayerRecords] /\ moveQ \in Seq(Ids)
    /\ chatConnect \in [Ids -> Ids \cup {NoPlayer}]
    /\ chatLogin \in [Ids -> Ids \cup {NoPlayer}]
    /\ gauge \in [{"duplicate", "session", "login"} -> Int]
    /\ acting \in BOOLEAN /\ broken \in BOOLEAN

-----------------------------------------------------------------------------
\* Jobs in a client's part of g_msgQ
JobsIn(queue, types) == Cardinality({n \in DOMAIN queue : queue[n].type \in types})
Times(x, q) == Cardinality({n \in DOMAIN q : q[n] = x})
Flagged(flag) == {p \in Ids : flag \in player[p].field}

\* No handler and no loop reaches a __debugbreak, a find() that fails, an empty
\* stack or an empty queue: what the jobs of the two clients, in whatever order
\* they come, ask of a player agrees with what the player did before.
NoBreak == ~broken

\* g_disconnectedNum, the connects under way and the players together are always
\* g_maxSession: no path through login, chat, retry and release loses a slot or
\* counts it twice (Update.cpp:241, 481, 495, 548, 611).
SlotsConserved ==
    disconnectedNum + loginPending
    + JobsIn(loginQ, {"CONNECT_SUCCESS", "ALL_RECONNECT_FAIL"})
    + Cardinality(Alive) = MaxSession

\* An account is in g_NonConnectedStack or held by one player, not counting
\* the targets of duplicate logins, whose account has gone to the new player.
AccountOnce ==
    \A a \in Accounts :
        Times(a, nonConnected)
        + Cardinality({p \in Alive \ Flagged("DUPLICATE_TARGET") : player[p].pInfo = a}) = 1

\* A player is in exactly one of the three maps and g_moveQ, and in the one that
\* its state belongs to.
OnePlace ==
    \A p \in Ids :
        LET inLogin == p \in loginMap
            inConnect == {c \in Ids : chatConnect[c] = p}
            inChat == {c \in Ids : chatLogin[c] = p}
        IN  /\ (IF inLogin THEN 1 ELSE 0) + Times(p, moveQ) + Cardinality(inConnect)
               + Cardinality(inChat) = (IF p \in Alive THEN 1 ELSE 0)
            /\ inLogin => player[p].state \in LoginStates
            /\ Times(p, moveQ) > 0 => player[p].state = "CHAT_CONNECT_TRY"
            /\ inConnect # {} => player[p].state \in ChatConnectStates
            /\ inChat # {} =>
                  player[p].state \in RecvStates \cup SentStates \cup {"CHAT_TRY_DISCONNECT"}

\* g_moveQ has one player for each Connect to the chat server that the handlers
\* have not seen answered: no answer finds it empty, nobody waits in it for ever.
MoveQMatches ==
    Len(moveQ) = chatPending + JobsIn(chatQ, {"CONNECT_SUCCESS", "ALL_RECONNECT_FAIL"})

\* The chat client is never asked for more than its maxSession_ connections, what
\* NetClient's Connect relies on.
ChatFits ==
    chatPending + JobsIn(chatQ, {"CONNECT_SUCCESS", "ALL_RECONNECT_FAIL"})
    + Cardinality({c \in Ids : Holder(c) # NoPlayer}) <= MaxSession

\* The monitor's numbers of duplicate login and session timeout clients
\* (Monitor.cpp:117-118) are the numbers of such players.
GaugesExact ==
    /\ gauge.duplicate = Cardinality(Flagged("DUPLICATE_TARGET"))
    /\ gauge.session = Cardinality(Flagged("SESSION_TIMEOUT_TARGET"))

\* No message comes for a target of the session timeout test, and for one of the
\* login timeout test none but RES_LOGIN (Update.cpp:632-633): each sends no more
\* than its test allows, and a test never starts on a player that has others.
TestedStayQuiet ==
    \A c \in Ids :
        LET p == Holder(c)
            expected == {chatOwes[c]} \cup {inbox[c][n] : n \in DOMAIN inbox[c]}
        IN  p # NoPlayer =>
            /\ "SESSION_TIMEOUT_TARGET" \in player[p].field => expected \subseteq {"none"}
            /\ "LOGIN_TIMOUT_TARGET" \in player[p].field =>
                  expected \subseteq {"none", "RES_LOGIN"}
            /\ Cardinality(player[p].field \cap Tests) <= 1

\* A player that was replaced at the chat server stays as it was: it is neither
\* disconnected nor starts to send, until its session is released.
ReplacedStays ==
    \A c \in Ids :
        LET p == chatLogin[c] IN
        p # NoPlayer /\ "DUPLICATE_TARGET" \in player[p].field =>
            \/ chatLogin'[c] = NoPlayer
            \/ /\ player'[p].field \cap Tests = {"DUPLICATE_TARGET"}
               /\ player[p].state \in RecvStates => player'[p].state = player[p].state
ReplacedWaits == [][ReplacedStays]_vars

\* The number of login timeout clients (Monitor.cpp:119)
LoginTimeoutGauge == gauge.login = Cardinality(Flagged("LOGIN_TIMOUT_TARGET"))

-----------------------------------------------------------------------------
\* Update() runs for ever and drains; the clients answer each Connect and release
\* what was disconnected (ComesToRest of NetClientProps).
\* The servers need not answer.
Fairness ==
    /\ WF_vars(RecvLoginJob) /\ WF_vars(RecvChatJob) /\ WF_vars(Return)
    /\ WF_vars(LoginAnswers) /\ WF_vars(ChatAnswers)
    /\ \A i \in Ids :
        /\ WF_vars(<<"login", i>> \in cut /\ LoginGone(i))
        /\ WF_vars(<<"chat", i>> \in cut /\ ChatGone(i))

LiveSpec == Spec /\ Fairness

\* A player that is to disconnect does so: it arrives at the chat server, or it
\* goes and its account and slot are free again.
DisconnectHappens ==
    \A p \in Ids : "DISCONNECT_TARGET" \in player[p].field
                   ~> "DISCONNECT_TARGET" \notin player[p].field
=============================================================================
