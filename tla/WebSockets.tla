------------------------------ MODULE WebSockets ------------------------------
(***************************************************************************)
(* lib/websocket.js, WebSocketManager: the app sessions with their ping    *)
(* cycle, the sitewide sessions of a login token, and the client that      *)
(* attaches this server to a sitewide service.                             *)
(*                                                                         *)
(* The class's own "connection" listeners pass on this.app_wss, which      *)
(* nothing in the class assigns, so that no client becomes a session, and  *)
(* hand the socket over in the place of the message, which then does not   *)
(* parse and is dropped.  Sessions and tokens' lists come about only where *)
(* the application calls add_ws_session or the sitewide message handler    *)
(* itself with what they are documented to take; it may do so or not.      *)
(*                                                                         *)
(* Time is counted in WSS_PING_INTERVALs: a timer fires before it is late  *)
(* by one, and timers due together fire in any order.  A socket's id is    *)
(* the socket.  The library's ws.close() is taken to succeed.              *)
(***************************************************************************)
EXTENDS Naturals, SequencesExt

CONSTANTS
    Sockets,
    Tokens,     \* tokens of sitewide sessions
    None

ASSUME WebSocketAssumption == None \notin Nat

VARIABLES
    net,        \* net[s]: "new", connected on a path, or "closed"
    going,      \* going_sessions
    alive,      \* alive[s]: _app_x_isAlive
    suspects,   \* supects
    checking,   \* checking_pings
    pingsIn,    \* intervals until each pending do_pings timer fires
    closeIn,    \* intervals until the close_suspects timer fires, or None
    sitewide,   \* sitewide[t]: the sockets of going_ws_sitewide_sessions[t]
    registered, \* history: the sockets that add_ws_session was called with
    silent,     \* silent[s], history: age of an unanswered ping, or None
    client,     \* ws_connection_attempt
    up          \* the process runs

appVars == <<going, alive, suspects, checking, pingsIn, closeIn, registered, silent>>
vars == <<net, appVars, sitewide, client, up>>

Init ==
    /\ net = [s \in Sockets |-> "new"]
    /\ going = {} /\ suspects = {}
    /\ alive = [s \in Sockets |-> FALSE]
    /\ checking = FALSE
    /\ pingsIn = <<>> /\ closeIn = None
    /\ sitewide = [t \in Tokens |-> {}]
    /\ registered = {}
    /\ silent = [s \in Sockets |-> None]
    /\ client = "off"
    /\ up = TRUE

-----------------------------------------------------------------------------
(* App sessions. *)

StartCheckingPings ==
    IF checking THEN UNCHANGED <<checking, pingsIn, closeIn>>
    ELSE /\ checking' = TRUE
         /\ pingsIn' = Append(pingsIn, 1)
         /\ closeIn' = 2

(* The listener finds app_wss unset and leaves the socket alone. *)
AppConnects(s) ==
    /\ up /\ net[s] = "new"
    /\ net' = [net EXCEPT ![s] = "app"]
    /\ UNCHANGED <<appVars, sitewide, client, up>>

(* The application registers each of its sockets once, and hands on what   *)
(* arrives on it.                                                          *)
AddWsSession(s) ==
    /\ up /\ net[s] = "app" /\ s \notin registered
    /\ registered' = registered \cup {s}
    /\ going' = going \cup {s}
    /\ alive' = [alive EXCEPT ![s] = TRUE]
    /\ StartCheckingPings
    /\ UNCHANGED <<net, suspects, silent, sitewide, client, up>>

(* Mutant: the answer does not lift the suspicion. *)
StillSuspect(s) ==
    /\ alive' = [alive EXCEPT ![s] = TRUE]
    /\ UNCHANGED suspects

Ponged(s) ==
    /\ alive' = [alive EXCEPT ![s] = TRUE]
    /\ suspects' = suspects \ {s}

(* A message with a ping_id, or the pong of a library that reports it. *)
Pong(s) ==
    /\ up /\ net[s] = "app" /\ s \in going
    /\ Ponged(s)
    /\ silent' = [silent EXCEPT ![s] = None]
    /\ UNCHANGED <<net, going, checking, pingsIn, closeIn, registered, sitewide, client, up>>

(* close_wss_session, for each of ss; the close event that its own close() *)
(* raises finds the session gone.                                          *)
CloseSessions(ss) ==
    /\ net' = [s \in Sockets |-> IF s \in ss THEN "closed" ELSE net[s]]
    /\ going' = going \ ss

(* The client goes away; a suspicion stays. *)
AppCloses(s) ==
    /\ up /\ net[s] = "app"
    /\ CloseSessions({s})
    /\ UNCHANGED <<alive, suspects, checking, pingsIn, closeIn, registered, silent,
                   sitewide, client, up>>

(* The sessions that have not answered since they were pinged. *)
Unanswering == {s \in going : ~alive[s]}

(* Mutants: the timer is not set again; it is set to the sweep's interval. *)
PingLate(i) == pingsIn' = Append(RemoveAt(pingsIn, i), 2)
PingOnce(i) == pingsIn' = RemoveAt(pingsIn, i)

PingAgain(i) == pingsIn' = Append(RemoveAt(pingsIn, i), 1)

DoPings ==
    LET pinged == {s \in going : alive[s]}
    IN
    /\ up
    /\ \E i \in DOMAIN pingsIn : pingsIn[i] = 0 /\ PingAgain(i)
    /\ suspects' = suspects \cup Unanswering
    /\ alive' = [s \in Sockets |-> alive[s] /\ s \notin pinged]
    /\ silent' = [s \in Sockets |-> IF s \in pinged THEN 0 ELSE silent[s]]
    /\ UNCHANGED <<net, going, checking, closeIn, registered, sitewide, client, up>>

(* The timer is not set again. *)
CloseSuspects ==
    /\ up /\ closeIn = 0
    /\ CloseSessions(suspects)
    /\ suspects' = {}
    /\ closeIn' = None
    /\ UNCHANGED <<alive, checking, pingsIn, registered, silent, sitewide, client, up>>

(* silent counts up to 2, what the properties tell apart. *)
Tick ==
    /\ up /\ checking
    /\ \A i \in DOMAIN pingsIn : pingsIn[i] > 0
    /\ closeIn # 0
    /\ pingsIn' = [i \in DOMAIN pingsIn |-> pingsIn[i] - 1]
    /\ closeIn' = IF closeIn = None THEN None ELSE closeIn - 1
    /\ silent' = [s \in Sockets |-> IF silent[s] \in {0, 1} THEN silent[s] + 1
                                     ELSE silent[s]]
    /\ UNCHANGED <<net, going, alive, suspects, checking, registered, sitewide, client, up>>

-----------------------------------------------------------------------------
(* Sitewide sessions. *)

SitewideConnects(s) ==
    /\ up /\ net[s] = "new"
    /\ net' = [net EXCEPT ![s] = "sitewide"]
    /\ UNCHANGED <<appVars, sitewide, client, up>>

(* A 'setup' that the application passes on.  A 'logout' is sent to the    *)
(* sockets in the list and changes nothing here.                           *)
SitewideSetup(s, t) ==
    /\ up /\ net[s] = "sitewide"
    /\ sitewide' = [sitewide EXCEPT ![t] = @ \cup {s}]
    /\ UNCHANGED <<net, appVars, client, up>>

(* Mutant: the table is declared, and is another one than sitewide. *)
ShutDownQuietly == UNCHANGED up

(* ws_shutdown reads going_ws_sessions, which is not declared: the         *)
(* exception is not caught and ends the process.                           *)
WsShutdown == up' = FALSE

SitewideCloses(s) ==
    /\ up /\ net[s] = "sitewide"
    /\ net' = [net EXCEPT ![s] = "closed"]
    /\ WsShutdown
    /\ UNCHANGED <<appVars, sitewide, client>>

-----------------------------------------------------------------------------
(* The client: the process exits when a retry finds its socket, which the  *)
(* error listener has set to null.                                         *)
Client(from, to) ==
    /\ up /\ client = from
    /\ client' = to
    /\ UNCHANGED <<net, appVars, sitewide, up>>

ClientAttempts == Client("off", "waiting")
ClientOpens == Client("waiting", "open")
ClientRefused == Client("waiting", "retry")
ClientFails == Client("waiting", "lost") \/ Client("open", "lost")

ClientRetries ==
    /\ up /\ client = "retry"
    /\ up' = FALSE
    /\ UNCHANGED <<net, appVars, sitewide, client>>

-----------------------------------------------------------------------------

Next ==
    \/ \E s \in Sockets : \/ AppConnects(s) \/ AddWsSession(s) \/ Pong(s)
                          \/ AppCloses(s)
                          \/ SitewideConnects(s) \/ SitewideCloses(s)
    \/ \E s \in Sockets, t \in Tokens : SitewideSetup(s, t)
    \/ DoPings \/ CloseSuspects \/ Tick
    \/ ClientAttempts \/ ClientOpens \/ ClientRefused \/ ClientFails
    \/ ClientRetries

Spec == Init /\ [][Next]_vars

(* Timers fire and time passes; clients owe nothing. *)
FairSpec ==
    Spec /\ WF_vars(DoPings) /\ WF_vars(CloseSuspects) /\ WF_vars(Tick)

-----------------------------------------------------------------------------
(* Properties. *)

(* Every variable has its type. *)
TypeOK ==
    /\ net \in [Sockets -> {"new", "app", "sitewide", "closed"}]
    /\ going \subseteq Sockets /\ suspects \subseteq Sockets
    /\ alive \in [Sockets -> BOOLEAN]
    /\ checking \in BOOLEAN
    /\ pingsIn \in Seq(0..1) /\ closeIn \in (0..2) \cup {None}
    /\ sitewide \in [Tokens -> SUBSET Sockets]
    /\ registered \subseteq Sockets
    /\ silent \in [Sockets -> {0, 1, 2, None}]
    /\ client \in {"off", "waiting", "open", "retry", "lost"}
    /\ up \in BOOLEAN

(* The session table follows the transport: a registered client can be     *)
(* sent to until the moment it or the sweep closes the connection.         *)
SessionsAreConnected == going = {s \in registered : net[s] = "app"}

(* No client is suspected before a whole interval has passed since the     *)
(* ping it did not answer: a slow answer in the same interval is in time.  *)
FullIntervalToAnswer ==
    [][\A s \in Sockets : s \in suspects' \ suspects => silent[s] = 1]_vars

(* No client that answered is closed by the sweep, also when it answers    *)
(* after the suspicion arose.                                              *)
AnsweringIsNotClosed ==
    [][CloseSuspects =>
          \A s \in going : alive[s] \/ silent[s] = None => s \in going']_vars

(* websocket.js, ponged, do_pings and close_suspects: an answer to a ping  *)
(* is in time for a whole interval, and saves the client also later.       *)
AnsweringIsSafe == FullIntervalToAnswer /\ AnsweringIsNotClosed

(* One ping cycle, however many sessions come and go. *)
OnePingCycle == Len(pingsIn) <= 1

(* A client that leaves a ping unanswered is under suspicion by the time   *)
(* the next interval has gone by, at any time and whoever comes and goes.  *)
SilentIsSuspected == \A s \in going : silent[s] = 2 => s \in suspects

(* One ping cycle covers exactly the connected clients that the            *)
(* application registered: it is never started twice, follows the          *)
(* transport, and leaves no silent client unsuspected.                     *)
PingsCoverSessions == SessionsAreConnected /\ OnePingCycle /\ SilentIsSuspected

(* "Closes off client connections that are not responding to pings"        *)
(* (websocket.js, close_suspects).                                         *)
SuspectsAreClosed ==
    \A s \in Sockets : s \in suspects ~> s \notin suspects \/ ~up

(* A token's list, which a logout is sent to, holds open connections only, *)
(* although nothing takes a socket out of it: ws_shutdown (websocket.js)   *)
(* looks in another table.                                                 *)
ListedAreOpen ==
    up => \A t \in Tokens : \A s \in sitewide[t] : net[s] = "sitewide"
=============================================================================
