------------------------- MODULE SocketServiceProofs -------------------------
(***************************************************************************)
(* Proofs about SocketService: for any number of sockets, logins, restarts *)
(* and secrets, a page with a session always has a socket or a timer that  *)
(* will open one, and a page that shows itself connected has a socket.     *)
(***************************************************************************)
EXTENDS SocketService, TLAPS

USE SecretsAssumption

\* Nothing of the service is left behind a disconnect, except sockets on their
\* way to close, until connect() is called again.
Idle == intentional => token = None /\ ws = None /\ timer = None

\* Every socket in use was opened with a token.
Opened == \A s \in Sockets : sock[s] # Free => sock[s].url # None

IInv == TypeOK /\ Idle /\ Opened /\ Persistent /\ ConnectedIsTrue

-----------------------------------------------------------------------------
\* The initial states satisfy the invariant (application route, socket.js:13-22).
LEMMA InitIInv == Init => IInv
<1> SUFFICES ASSUME Init PROVE IInv
  OBVIOUS
<1>1. token \in Tokens
  BY DEF Init, Tokens, Secrets
<1>2. TypeOK
  <2>1. Free \in [st : SocketStates, url : Tokens]
    BY DEF Free, SocketStates, Tokens
  <2>2. [st |-> "connecting", url |-> token] \in [st : SocketStates, url : Tokens]
    BY <1>1 DEF SocketStates
  <2>3. sock \in [Sockets -> [st : SocketStates, url : Tokens]]
    BY <2>1, <2>2 DEF Init
  <2>4. ws \in Live \cup {None}
    BY DEF Init, Live, InState
  <2>5. timer \in Tokens /\ secret \in Secrets
    BY DEF Init, Tokens, Secrets
  <2>6. logins \in 0 .. MaxLogins /\ stops \in 0 .. MaxStops
    BY DEF Init
  <2> QED BY <1>1, <2>3, <2>4, <2>5, <2>6 DEF Init, TypeOK
<1>3. Persistent
  BY DEF Init, Persistent, Live, InState
<1> QED BY <1>2, <1>3 DEF IInv, Idle, Opened, Init, ConnectedIsTrue

\* Session actions: login and connect(), the two ways to log out, requests.
LEMMA LoginIInv == IInv /\ Login => IInv'
<1> SUFFICES ASSUME IInv, Login PROVE IInv'
  OBVIOUS
<1> USE DEF IInv, TypeOK, Tokens, Secrets, Live, InState
<1>1. secret # None /\ token' = secret
  BY DEF Login
<1>2. CASE ws # None
  <2>1. sock' = sock /\ ws' = ws /\ timer' = timer /\ intentional' = intentional
        /\ connected' = connected
    BY <1>2 DEF Login, Connect, Connecting, service
  <2>2. TypeOK'
    BY <1>1, <2>1 DEF Login, server
  <2>3. Idle' /\ Opened' /\ Persistent' /\ ConnectedIsTrue'
    BY <1>2, <2>1 DEF Idle, Opened, Persistent, ConnectedIsTrue
  <2> QED BY <2>2, <2>3
<1>3. CASE ws = None
  <2>1. PICK s \in Sockets : Open(s, secret)
    BY <1>3 DEF Login, Connect, Connecting
  <2>2. sock' = [sock EXCEPT ![s] = [st |-> "connecting", url |-> secret]] /\ ws' = s
        /\ sock[s].st = "free"
    BY <2>1 DEF Open, Free
  <2>3. sock' \in [Sockets -> [st : SocketStates, url : Tokens]]
    BY <2>2 DEF SocketStates
  <2>4. sock'[s].st = "connecting"
        /\ \A x \in Sockets : x # s => sock'[x] = sock[x]
    BY <2>2
  <2>5. TypeOK'
    <3>1. ws' \in Live'
      BY <2>2, <2>4
    <3>2. logins' \in 0 .. MaxLogins
      BY DEF Login
    <3> QED BY <1>1, <1>3, <2>3, <3>1, <3>2 DEF Login, Connect, Connecting, server
  <2>6. Idle' /\ Opened' /\ Persistent'
    BY <1>1, <1>3, <2>2, <2>4 DEF Login, Connect, Connecting, Idle, Opened, Persistent
  <2>7. ConnectedIsTrue'
    BY <1>3, <2>2, <2>4 DEF Login, Connect, Connecting, ConnectedIsTrue
  <2> QED BY <2>5, <2>6, <2>7
<1> QED BY <1>2, <1>3

LEMMA LogoutIInv == IInv /\ (LogoutFromQueue \/ LogoutElsewhere) => IInv'
<1> SUFFICES ASSUME IInv, LogoutFromQueue \/ LogoutElsewhere PROVE IInv'
  OBVIOUS
<1> USE DEF IInv, TypeOK, Tokens, Secrets, Live, InState
<1>1. CASE LogoutFromQueue
  <2>1. sock' \in [Sockets -> [st : SocketStates, url : Tokens]]
    BY <1>1 DEF LogoutFromQueue, LeavingSocket, SocketStates
  <2>2. TypeOK'
    BY <1>1, <2>1 DEF LogoutFromQueue, LeavingSocket, server
  <2>3. Idle' /\ Persistent' /\ ConnectedIsTrue'
    BY <1>1 DEF LogoutFromQueue, LeavingSocket, Idle, Persistent, ConnectedIsTrue
  <2>4. Opened'
    BY <1>1 DEF LogoutFromQueue, LeavingSocket, Opened, Free
  <2> QED BY <2>2, <2>3, <2>4
<1>2. CASE LogoutElsewhere
  BY <1>2 DEF LogoutElsewhere, service, server, Idle, Opened, Persistent, ConnectedIsTrue
<1> QED BY <1>1, <1>2

LEMMA RequestIInv == IInv /\ (Ask \/ \E t \in asked : Answer(t)) => IInv'
<1> SUFFICES ASSUME IInv, Ask \/ \E t \in asked : Answer(t) PROVE IInv'
  OBVIOUS
<1> USE DEF IInv
<1>1. UNCHANGED <<service, server, logins>>
  BY DEF Ask, Answer
<1>2. token' \in {token, None} /\ asked' \subseteq asked \cup {token}
  BY DEF Ask, Answer
<1>3. TypeOK'
  BY <1>1, <1>2 DEF TypeOK, service, server, Tokens, Live, InState
<1>4. Idle' /\ Opened' /\ Persistent' /\ ConnectedIsTrue'
  BY <1>1, <1>2 DEF service, Idle, Opened, Persistent, ConnectedIsTrue, Live, InState
<1> QED BY <1>3, <1>4

-----------------------------------------------------------------------------
\* Socket events (socket.js:47-88).
LEMMA OpensIInv == ASSUME NEW s \in Sockets, IInv, SocketOpens(s) PROVE IInv'
<1> USE DEF IInv, TypeOK, Tokens, Secrets, Live, InState
<1>1. sock' \in [Sockets -> [st : SocketStates, url : Tokens]]
  BY DEF SocketOpens, SocketStates
<1>2. sock'[s].st = "open" /\ \A x \in Sockets : x # s => sock'[x] = sock[x]
  BY DEF SocketOpens
<1>3. TypeOK'
  BY <1>1, <1>2 DEF SocketOpens, server
<1>4. Idle' /\ Opened' /\ Persistent' /\ ConnectedIsTrue'
  BY <1>2 DEF SocketOpens, Idle, Opened, Free, Persistent, ConnectedIsTrue
<1> QED BY <1>3, <1>4

LEMMA ClosesIInv == ASSUME NEW s \in Sockets, IInv, SocketCloses(s) PROVE IInv'
<1> USE DEF IInv, TypeOK, Tokens, Secrets, Live, InState
<1>1. sock' \in [Sockets -> [st : SocketStates, url : Tokens]]
  BY DEF SocketCloses, Closes, SocketStates, Free
<1>2. sock[s].url \in Tokens /\ timer' \in Tokens
  BY DEF SocketCloses, Closes
<1>3. TypeOK'
  BY <1>1, <1>2 DEF SocketCloses, Closes, server
<1>4. Idle' /\ Opened'
  BY DEF SocketCloses, Closes, Idle, Opened
<1>5. Persistent' /\ ConnectedIsTrue'
  <2>1. token # None => ~ intentional
    BY DEF Idle
  <2>2. sock[s].url # None
    BY DEF SocketCloses, Closes, Refused, Opened, Free
  <2> QED BY <2>1, <2>2 DEF SocketCloses, Closes, Persistent, ConnectedIsTrue
<1> QED BY <1>3, <1>4, <1>5

LEMMA TimerIInv == IInv /\ TimerFires => IInv'
<1> SUFFICES ASSUME IInv, TimerFires PROVE IInv'
  OBVIOUS
<1> USE DEF IInv, TypeOK, Tokens, Secrets, Live, InState
<1>1. CASE ~ intentional /\ token # None
  <2>1. PICK s \in Sockets : Open(s, timer)
    BY <1>1 DEF TimerFires
  <2>2. sock' = [sock EXCEPT ![s] = [st |-> "connecting", url |-> timer]] /\ ws' = s
        /\ sock[s].st = "free"
    BY <2>1 DEF Open, Free
  <2>3. sock' \in [Sockets -> [st : SocketStates, url : Tokens]]
    BY <2>2 DEF SocketStates
  <2>4. sock'[s].st = "connecting"
        /\ \A x \in Sockets : x # s => sock'[x] = sock[x]
    BY <2>2
  <2>5. TypeOK'
    BY <1>1, <2>2, <2>3, <2>4 DEF TimerFires, server
  <2>6. Idle' /\ Opened' /\ Persistent' /\ ConnectedIsTrue'
    BY <1>1, <2>2, <2>4 DEF TimerFires, Idle, Opened, Persistent, ConnectedIsTrue
  <2> QED BY <2>5, <2>6
<1>2. CASE ~ (~ intentional /\ token # None)
  <2>1. sock' = sock /\ ws' = ws
    BY <1>2 DEF TimerFires
  <2>2. TypeOK'
    BY <2>1 DEF TimerFires, server
  <2>3. Idle' /\ Opened' /\ Persistent' /\ ConnectedIsTrue'
    BY <1>2, <2>1 DEF TimerFires, Idle, Opened, Persistent, ConnectedIsTrue
  <2> QED BY <2>2, <2>3
<1> QED BY <1>1, <1>2

LEMMA ServerIInv == IInv /\ Server => IInv'
<1> SUFFICES ASSUME IInv, Server PROVE IInv'
  OBVIOUS
<1> USE DEF IInv, TypeOK, Tokens, Secrets, Live, InState
<1>1. CASE ServerStops
  <2>1. sock' \in [Sockets -> [st : SocketStates, url : Tokens]]
    BY <1>1 DEF ServerStops, SocketStates
  <2>2. \A s \in Sockets :
           sock'[s].st = IF sock[s].st \in {"connecting", "open", "lost"}
                         THEN "lost" ELSE sock[s].st
    BY <1>1 DEF ServerStops
  <2>3. stops' \in 0 .. MaxStops
    BY <1>1 DEF ServerStops
  <2>4. ws' \in Live' \cup {None}
    BY <1>1, <2>2 DEF ServerStops
  <2>5. TypeOK'
    BY <1>1, <2>1, <2>3, <2>4 DEF ServerStops
  <2>6. Opened'
    BY <1>1 DEF ServerStops, Opened, Free
  <2>7. Idle' /\ Persistent' /\ ConnectedIsTrue'
    BY <1>1, <2>2 DEF ServerStops, Idle, Persistent, ConnectedIsTrue
  <2> QED BY <2>5, <2>6, <2>7
<1>2. CASE ServerStarts
  BY <1>2 DEF ServerStarts, service, Idle, Opened, Persistent, ConnectedIsTrue
<1> QED BY <1>1, <1>2 DEF Server

\* Every step keeps the invariant.
LEMMA StepIInv == IInv /\ [Next]_vars => IInv'
<1> SUFFICES ASSUME IInv, [Next]_vars PROVE IInv'
  OBVIOUS
<1>1. CASE Session
  BY <1>1, LoginIInv, LogoutIInv, RequestIInv DEF Session
<1>2. CASE Socket
  BY <1>2, OpensIInv, ClosesIInv, TimerIInv DEF Socket
<1>3. CASE Server
  BY <1>3, ServerIInv
<1>4. CASE UNCHANGED vars
  BY <1>4 DEF vars, service, server, IInv, TypeOK, Idle, Opened, Persistent,
             ConnectedIsTrue, Live, InState
<1> QED BY <1>1, <1>2, <1>3, <1>4 DEF Next

-----------------------------------------------------------------------------
LEMMA SpecIInv == Spec => []IInv
BY InitIInv, StepIInv, PTL DEF Spec

\* The fields of the service keep their types; in particular #ws, when it is set, is a
\* socket that has not closed (socket.js:26-88).
THEOREM SocketTypeOK == Spec => []TypeOK
<1>1. IInv => TypeOK
  BY DEF IInv
<1> QED BY <1>1, SpecIInv, PTL

\* A page with a session has a socket that lives or a timer that will open one, for any
\* number of sockets, logins and restarts (socket.js:26-88).
THEOREM NeverStranded == Spec => []Persistent
<1>1. IInv => Persistent
  BY DEF IInv
<1> QED BY <1>1, SpecIInv, PTL

\* connected is shown only while a socket is there (socket.js:52-75).
THEOREM ShownIsTrue == Spec => []ConnectedIsTrue
<1>1. IInv => ConnectedIsTrue
  BY DEF IInv
<1> QED BY <1>1, SpecIInv, PTL
=============================================================================
