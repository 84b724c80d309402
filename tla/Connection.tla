----------------------------- MODULE Connection -----------------------------
(***************************************************************************)
(* The frontend's connection to the backend: the client of                 *)
(* shared/src/client.ts (socket, connect promise, reconnect timer, pending *)
(* requests), the token and status check of frontend scripts/ws-client.ts, *)
(* and the server of backend/src/api/api.ts that admits sockets and        *)
(* answers their requests in whatever order they finish.                   *)
(*                                                                         *)
(* A socket runs its callbacks one by one; what waits for it goes on       *)
(* within the callback.  Only what a failed request does next comes        *)
(* between the onerror and the onclose of a socket.  A slot of Socket is   *)
(* used again once its socket is closed and nothing refers to it.          *)
(***************************************************************************)
EXTENDS Naturals, FiniteSets

CONSTANTS Socket,             \* numbers of slots: sockets there may be at once
          Request,
          MaxConnectionEvents \* bound: requests made, tokens set, sockets lost

ASSUME ConnectionAssumption == /\ Socket \subseteq Nat \ {0} /\ 1 \in Socket
                               /\ MaxConnectionEvents \in Nat

VARIABLES
  sock,             \* per socket: its state, and whether its URL has the right token
  ws, connected, connectPromise, reconnectTimer, autoReconnect,   \* of WsClient
  request,          \* per request: waiting for a connect, pending on a socket, settled
  token,            \* "", "bad" or "good": backendToken
  statusCheck,      \* the token the check under way was sent with, or "none"
  status, hasConnectedOnce,
  up,               \* the backend runs
  connectionEvents

clientVars == <<ws, connected, connectPromise, reconnectTimer, autoReconnect>>
statusVars == <<token, statusCheck, status, hasConnectedOnce>>
connectionVars == <<sock, clientVars, request, statusVars, up, connectionEvents>>

NoSocket == 0
Closed == [at |-> "closed", good |-> FALSE]
Idle == [at |-> "idle", on |-> NoSocket]
ConnectionTypeOK ==
  /\ sock \in [Socket -> [at : {"closed", "connecting", "open", "failing", "erred", "closing"}, good : BOOLEAN]]
  /\ {ws, connectPromise} \subseteq Socket \cup {NoSocket}
  /\ request \in [Request -> [at : {"idle", "waiting", "pending", "done", "failed", "hung"},
                              on : Socket \cup {NoSocket}]]
  /\ \A b \in {connected, reconnectTimer, autoReconnect, hasConnectedOnce, up} : b \in BOOLEAN
  /\ token \in {"", "bad", "good"} /\ statusCheck \in {"none", "", "bad", "good"}
  /\ status \in {"connecting", "connected", "disconnected", "auth-required", "auth-failed"}
  /\ connectionEvents \in 0..MaxConnectionEvents

\* The constructor connects, and the module checks the status.
ConnectionInit ==
  /\ token \in {"", "good"} /\ up = TRUE
  /\ sock = [s \in Socket |-> IF s = 1 THEN [at |-> "connecting", good |-> token = "good"] ELSE Closed]
  /\ ws = 1 /\ connectPromise = 1
  /\ connected = FALSE /\ reconnectTimer = FALSE /\ autoReconnect = TRUE
  /\ request = [r \in Request |-> Idle] /\ statusCheck = token
  /\ status = "connecting" /\ hasConnectedOnce = FALSE /\ connectionEvents = 0

Between == \E s \in Socket : sock[s].at = "erred"
Happens == ~Between /\ connectionEvents < MaxConnectionEvents /\ connectionEvents' = connectionEvents + 1
Free(s) == /\ sock[s].at = "closed" /\ s \notin {ws, connectPromise}
           /\ \A r \in Request : request[r].on # s
IsConnected == connected /\ ws # NoSocket /\ sock[ws].at = "open"
ToSocket(s, at) == sock' = [sock EXCEPT ![s].at = at]

\* connect(): nothing when it is, or is being, connected; else a new socket.
NewSocket(s, good) == /\ Free(s) /\ sock' = [sock EXCEPT ![s] = [at |-> "connecting", good |-> good]]
                      /\ ws' = s /\ connectPromise' = s
connect(good) == IF IsConnected \/ connectPromise # NoSocket
                 THEN UNCHANGED <<sock, ws, connectPromise>>
                 ELSE \E s \in Socket : NewSocket(s, good) /\ \A t \in Socket : Free(t) => s <= t

-----------------------------------------------------------------------------
(* call() and the server *)

\* What becomes of a request that is sent: nothing can be sent on no socket or on one that connects.
Sent(at) == IF ws = NoSocket THEN [at |-> "failed", on |-> NoSocket]
            ELSE IF at[ws].at = "connecting" THEN [at |-> "failed", on |-> NoSocket]
            ELSE [at |-> "pending", on |-> ws]
Call(r) ==
  /\ connectionEvents < MaxConnectionEvents /\ connectionEvents' = connectionEvents + 1 /\ request[r].at = "idle"
  /\ IF IsConnected
     THEN request' = [request EXCEPT ![r] = Sent(sock)] /\ UNCHANGED <<sock, ws, connectPromise>>
     ELSE /\ connect(token = "good")
          /\ request' = [request EXCEPT ![r] = [at |-> "waiting", on |-> connectPromise']]
  /\ UNCHANGED <<connected, reconnectTimer, autoReconnect, statusVars, up>>
\* handleMessage of the server, and of the client.
Answer(r) == /\ ~Between /\ request[r].at = "pending" /\ sock[request[r].on].at = "open"
             /\ request' = [request EXCEPT ![r] = [at |-> "done", on |-> NoSocket]]
             /\ UNCHANGED <<sock, clientVars, statusVars, up, connectionEvents>>

-----------------------------------------------------------------------------
(* The sockets *)

Admitted(s) == up /\ sock[s].good
OnOpen(s) ==
  /\ ~Between /\ sock[s].at = "connecting" /\ Admitted(s) /\ ToSocket(s, "open")
  /\ connected' = TRUE /\ connectPromise' = NoSocket
  /\ request' = [r \in Request |-> IF request[r].at = "waiting" /\ request[r].on = s
                                   THEN Sent(sock') ELSE request[r]]
  /\ status' = "connected" /\ hasConnectedOnce' = TRUE
  /\ UNCHANGED <<ws, reconnectTimer, autoReconnect, token, statusCheck, up, connectionEvents>>
\* Closed before it opened, or not admitted: onerror settles the promise, unless some other socket counts as connected.
OnError(s) ==
  /\ ~Between
  /\ sock[s].at = "failing" \/ (sock[s].at = "connecting" /\ ~Admitted(s))
  /\ ToSocket(s, "erred")
  /\ IF connected THEN UNCHANGED <<connectPromise, request>>
     ELSE /\ connectPromise' = NoSocket
          /\ request' = [r \in Request |-> IF request[r].at = "waiting" /\ request[r].on = s
                                           THEN [at |-> "failed", on |-> NoSocket] ELSE request[r]]
  /\ statusCheck' = IF hasConnectedOnce \/ statusCheck # "none" THEN statusCheck ELSE token
  /\ UNCHANGED <<ws, connected, reconnectTimer, autoReconnect, token, status, hasConnectedOnce, up, connectionEvents>>
\* onclose of any socket drops the client's, refuses what is pending, and reconnects later.
Closes(s, again) ==
  /\ sock[s].at = "erred" \/ (sock[s].at = "closing" /\ ~Between)
  /\ ToSocket(s, "closed")
  /\ connected' = FALSE /\ connectPromise' = NoSocket /\ ws' = NoSocket
  /\ request' = [r \in Request |->   \* a promise that was not settled yet never is
       IF request[r].at = "pending" THEN [at |-> "failed", on |-> NoSocket]
       ELSE IF request[r] = [at |-> "waiting", on |-> s] THEN [at |-> "hung", on |-> NoSocket] ELSE request[r]]
  /\ reconnectTimer' = (autoReconnect /\ again)
  /\ IF hasConnectedOnce THEN status' = "disconnected" /\ UNCHANGED statusCheck
     ELSE statusCheck' = (IF statusCheck = "none" THEN token ELSE statusCheck) /\ UNCHANGED status
  /\ UNCHANGED <<autoReconnect, token, hasConnectedOnce, up, connectionEvents>>
\* Mutant: only the socket the client holds brings a new one.
ClosesForGood(s) == Closes(s, s = ws)
OnClose(s) == Closes(s, TRUE)
Lost(s) == /\ Happens /\ sock[s].at = "open" /\ ToSocket(s, "closing")
           /\ UNCHANGED <<clientVars, request, statusVars, up>>
Timer == /\ ~Between /\ reconnectTimer /\ reconnectTimer' = FALSE /\ connect(token = "good")
         /\ UNCHANGED <<connected, autoReconnect, request, statusVars, up, connectionEvents>>
\* The backend stops, or starts again.
Stops == /\ Happens /\ up /\ up' = FALSE
         /\ sock' = [s \in Socket |-> IF sock[s].at = "open" THEN [sock[s] EXCEPT !.at = "closing"] ELSE sock[s]]
         /\ UNCHANGED <<clientVars, request, statusVars>>
Starts == ~up /\ up' = TRUE /\ UNCHANGED <<sock, clientVars, request, statusVars, connectionEvents>>

-----------------------------------------------------------------------------
(* The token and the status check *)

\* close() of the socket there is: an open one closes, one that connects fails.
CloseSocket == IF ws = NoSocket THEN UNCHANGED sock
               ELSE sock' = [sock EXCEPT ![ws].at = IF @ = "open" THEN "closing"
                                                    ELSE IF @ = "connecting" THEN "failing" ELSE @]
\* The token is asked for on the screen of a client that is not connected.  A check under way is joined, whatever token it was sent with.
setBackendToken(t) ==
  /\ Happens /\ ~connected /\ status \in {"auth-required", "auth-failed"} /\ token' = t /\ status' = "connecting" /\ UNCHANGED <<connected, hasConnectedOnce, request, up>>
  /\ statusCheck' = IF statusCheck = "none" THEN t ELSE statusCheck
  /\ autoReconnect' = TRUE /\ reconnectTimer' = (reconnectTimer \/ (~connected /\ connectPromise = NoSocket))
  /\ IF ws # NoSocket THEN CloseSocket /\ UNCHANGED <<ws, connectPromise>> ELSE connect(t = "good")
StatusAnswers ==
  /\ ~Between /\ statusCheck # "none" /\ statusCheck' = "none"
  /\ IF up /\ statusCheck # "good"
     THEN /\ autoReconnect' = FALSE /\ reconnectTimer' = FALSE /\ CloseSocket
          /\ status' = IF token = "" THEN "auth-required" ELSE "auth-failed"
     ELSE /\ UNCHANGED <<autoReconnect, reconnectTimer, sock>>
          /\ status' = IF connected THEN status ELSE IF up THEN "connecting" ELSE "disconnected"
  /\ UNCHANGED <<ws, connected, connectPromise, request, token, hasConnectedOnce, up, connectionEvents>>

ConnectionNext ==
  \/ \E r \in Request : Call(r) \/ Answer(r)
  \/ \E s \in Socket : OnOpen(s) \/ OnError(s) \/ OnClose(s) \/ Lost(s)
  \/ Timer \/ Stops \/ Starts \/ (\E t \in {"bad", "good"} : setBackendToken(t)) \/ StatusAnswers

-----------------------------------------------------------------------------
(* A request that was sent is answered or refused in the end: also when    *)
(* its socket is not the one the client holds any more, because another's  *)
(* onclose dropped it or a call replaced one that was closing.             *)
SentReturns == \A r \in Request : request[r].at = "pending" ~> request[r].at # "pending"

(* A client that is to reconnect does: whatever sockets were lost, however *)
(* late their callbacks come and whoever connected meanwhile, with the     *)
(* right token and the backend up in the end it is connected, unless the   *)
(* status check stopped it.                                                *)
Reconnects == (autoReconnect /\ token = "good") ~> (connected \/ ~autoReconnect \/ token # "good")
=============================================================================
