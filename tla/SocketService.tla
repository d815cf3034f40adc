---------------------------- MODULE SocketService ----------------------------
(***************************************************************************)
(* The web page's connection to the backend's event stream                 *)
(* (frontend/app/services/socket.js) together with the session it depends  *)
(* on (services/api.js): pages log in and out, the server stops, restarts  *)
(* and may come back with another SECRET, sockets open and close, and a    *)
(* timer reconnects.                                                       *)
(*                                                                         *)
(* Each browser event (a socket's open or close, the timer, the answer to  *)
(* a request, a click) runs its handler to the end, so each is one action. *)
(* Tokens have no expiry: a token is stood for by the SECRET it was signed *)
(* with, a number, and is valid while that is the server's.  The length of *)
(* the back-off is left out; the timer may fire at any time.               *)
(***************************************************************************)
EXTENDS Integers, FiniteSets

CONSTANTS
    Sockets,    \* WebSocket objects; one whose close event ran is used again
    None,       \* no socket, no token, no timer
    Stored,     \* what localStorage may hold when the page loads: tokens, None
    FirstSecret,    \* the server's SECRET when the page loads
    LastSecret,     \* bound: its last SECRET
    MaxLogins,  \* bound on logins
    MaxStops    \* bound on how often the server stops

ASSUME SecretsAssumption ==
    /\ {FirstSecret, LastSecret, MaxLogins, MaxStops} \subseteq Nat
    /\ FirstSecret <= LastSecret
    /\ Stored \subseteq 0 .. FirstSecret \cup {None}
    /\ None \notin Sockets \cup Nat

VARIABLES
    sock,       \* per socket: its state and the token in its url
    ws,         \* #ws: the socket the service takes for its own
    timer,      \* #reconnectTimer: the token in the url it will open
    intentional,    \* #intentionalClose
    connected,  \* connected
    token,      \* ApiService.token
    asked,      \* tokens of the requests in flight
    up,         \* the server is running
    secret,     \* the server's SECRET
    logins,     \* logins so far
    stops       \* stops of the server so far

service == <<sock, ws, timer, intentional, connected>>
server  == <<up, secret, stops>>
vars    == <<service, token, asked, server, logins>>

Secrets == 0 .. LastSecret
Tokens  == Secrets \cup {None}

\* "lost": the connection is gone and the close event has not run yet;
\* "closing": close() was called.
SocketStates == {"free", "connecting", "open", "lost", "closing"}

Free      == [st |-> "free", url |-> None]
InState(S) == {s \in Sockets : sock[s].st \in S}
Live      == InState({"connecting", "open", "lost"})

\* #open(url): the new socket takes the place of whatever #ws was.
Open(s, url) ==
    /\ sock[s] = Free
    /\ sock' = [sock EXCEPT ![s] = [st |-> "connecting", url |-> url]]
    /\ ws' = s

\* The application route restores the session and, if there is one, connects.
Init ==
    /\ token \in Stored
    /\ \/ /\ token = None
          /\ sock = [s \in Sockets |-> Free]
          /\ ws = None
       \/ /\ token # None
          /\ ws \in Sockets
          /\ sock = [s \in Sockets |->
                        IF s = ws THEN [st |-> "connecting", url |-> token] ELSE Free]
    /\ timer = None
    /\ intentional = FALSE
    /\ connected = FALSE
    /\ asked = {}
    /\ up = TRUE
    /\ secret = FirstSecret
    /\ logins = 0
    /\ stops = 0
-----------------------------------------------------------------------------
(* The session.                                                            *)

\* connect() leaves a socket alone that is still there.
Connecting(url, leaving) ==
    IF ws # None
    THEN UNCHANGED service
    ELSE /\ intentional' = leaving
         /\ \E s \in Sockets : Open(s, url)
         /\ UNCHANGED <<timer, connected>>

\* Mutant: the mark of an earlier disconnect stays.
ConnectStillLeaving(url) == Connecting(url, intentional)

Connect(url) == Connecting(url, FALSE)

\* LoginController.login: the new session is stored, and the socket connects.
\* The login page sends a page with a session away.
Login ==
    /\ token = None
    /\ up
    /\ logins < MaxLogins
    /\ token' = secret
    /\ Connect(secret)
    /\ logins' = logins + 1
    /\ UNCHANGED <<asked, server>>

\* logout() and disconnect() as the queue page calls them, a token left or not (a late
\* 401 may have cleared it while the page is shown).
LeavingSocket(next) ==
    /\ token' = None
    /\ intentional' = TRUE
    /\ timer' = None
    /\ connected' = FALSE
    /\ sock' = IF ws # None THEN [sock EXCEPT ![ws].st = "closing"] ELSE sock
    /\ ws' = next
    /\ UNCHANGED <<asked, server, logins>>

\* Mutant: #ws is left to the close event.
LogoutKeepingWs == LeavingSocket(ws)

LogoutFromQueue == LeavingSocket(None)

\* The search and the settings page clear the session and leave the socket.
LogoutElsewhere ==
    /\ token # None
    /\ token' = None
    /\ UNCHANGED <<service, asked, server, logins>>

\* ApiService.request sends the token of the moment, or none ...
Ask ==
    /\ asked' = asked \cup {token}
    /\ asked' # asked
    /\ UNCHANGED <<service, token, server, logins>>

\* ... and a 401 clears the session of the moment it arrives.
Answer(t) ==
    /\ t \in asked
    /\ asked' = asked \ {t}
    /\ token' = IF up /\ t # secret THEN None ELSE token
    /\ UNCHANGED <<service, server, logins>>
-----------------------------------------------------------------------------
(* The socket's events.                                                    *)

\* ws_handler checks the signature of the token before it upgrades.
SocketOpens(s) ==
    /\ sock[s] = [st |-> "connecting", url |-> secret]
    /\ up
    /\ sock' = [sock EXCEPT ![s].st = "open"]
    /\ connected' = TRUE
    /\ UNCHANGED <<ws, timer, intentional, token, asked, server, logins>>

Refused(s) == sock[s].st = "connecting" /\ (~up \/ sock[s].url # secret)

\* The close handler does not look whether s is the socket in #ws.
Closes(s, says, again) ==
    /\ sock[s].st \in {"lost", "closing"} \/ Refused(s)
    /\ sock' = [sock EXCEPT ![s] = Free]
    /\ connected' = says
    /\ ws' = None
    /\ timer' = IF again THEN sock[s].url ELSE timer
    /\ UNCHANGED <<intentional, token, asked, server, logins>>

\* Mutants: connected is not reset; a refused connection is not tried again.
ClosesQuietly(s) == Closes(s, connected, ~ intentional)
ClosesForGood(s) == Closes(s, FALSE, ~ intentional /\ connected)

SocketCloses(s) == Closes(s, FALSE, ~ intentional)

\* The callback of #scheduleReconnect does not look whether #ws is taken.
TimerFires ==
    /\ timer # None
    /\ timer' = None
    /\ IF ~ intentional /\ token # None
       THEN \E s \in Sockets : Open(s, timer)
       ELSE UNCHANGED <<sock, ws>>
    /\ UNCHANGED <<intentional, connected, token, asked, server, logins>>
-----------------------------------------------------------------------------
(* The server.                                                             *)

ServerStops ==
    /\ up
    /\ stops < MaxStops
    /\ stops' = stops + 1
    /\ up' = FALSE
    /\ sock' = [s \in Sockets |->
                   IF s \in Live THEN [sock[s] EXCEPT !.st = "lost"] ELSE sock[s]]
    /\ UNCHANGED <<ws, timer, intentional, connected, token, asked, secret, logins>>

ServerStarts ==
    /\ ~ up
    /\ up' = TRUE
    /\ secret' \in {secret, secret + 1} \cap Secrets
    /\ UNCHANGED <<service, token, asked, stops, logins>>

Session == Login \/ LogoutFromQueue \/ LogoutElsewhere \/ Ask \/ \E t \in asked : Answer(t)
Socket  == (\E s \in Sockets : SocketOpens(s) \/ SocketCloses(s)) \/ TimerFires
Server  == ServerStops \/ ServerStarts

Next == Session \/ Socket \/ Server

\* The browser delivers the events of a socket and runs timers that are due, every
\* request is answered in the end, and a server that stopped comes back.  Nobody
\* has to log in or out or to send a request.
Fairness ==
    /\ \A s \in Sockets : WF_vars(SocketOpens(s)) /\ WF_vars(SocketCloses(s))
    /\ WF_vars(TimerFires)
    /\ \A t \in Tokens : WF_vars(Answer(t))
    /\ WF_vars(ServerStarts)

Spec     == Init /\ [][Next]_vars
FairSpec == Spec /\ Fairness
-----------------------------------------------------------------------------
\* Types, and: the socket in #ws is one that has not been closed (socket.js:26-45).
TypeOK ==
    /\ sock \in [Sockets -> [st : SocketStates, url : Tokens]]
    /\ ws \in Live \cup {None}
    /\ timer \in Tokens
    /\ intentional \in BOOLEAN
    /\ connected \in BOOLEAN
    /\ token \in Tokens
    /\ asked \subseteq Tokens
    /\ up \in BOOLEAN
    /\ secret \in Secrets
    /\ logins \in 0 .. MaxLogins
    /\ stops \in 0 .. MaxStops

\* A page that shows itself connected has a socket that was open a moment ago:
\* whichever of several sockets closes, connected goes with it (socket.js:51-62).
ConnectedIsTrue == connected => InState({"open", "lost"}) # {}

\* A page with a session is never left without a socket and without a timer that
\* will open one, whatever the order of logout, login, close events and timers.
Persistent == token # None => Live # {} \/ timer # None

\* socket.js:11 "Automatically reconnects": a page whose session is good and whose
\* server is up gets an open socket.
Good == token = secret /\ up
Reconnects == Good ~> (InState({"open"}) # {} \/ ~ Good)
=============================================================================
