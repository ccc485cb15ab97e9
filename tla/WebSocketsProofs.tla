--------------------------- MODULE WebSocketsProofs ---------------------------
(***************************************************************************)
(* Proofs about WebSockets for any sets of sockets and tokens.             *)
(*                                                                         *)
(* The ping cycle is one timer, so what a session's flags say can be read  *)
(* off the timer: a session that was pinged in this interval has not been  *)
(* silent for a whole one, and the next activation that finds it silent    *)
(* for one puts it under suspicion.                                        *)
(***************************************************************************)
EXTENDS WebSockets, TLAPS

(* The ping timer: unset until the first session, then one at any time.    *)
Cycle == pingsIn \in IF checking THEN {<<0>>, <<1>>} ELSE {<<>>}

(* Sessions and suspicions belong to sockets of the app path.              *)
Paths ==
    \A s \in Sockets :
        /\ s \in going <=> s \in registered /\ net[s] = "app"
        /\ s \in suspects \cup registered => net[s] \in {"app", "closed"}
        /\ s \notin registered => silent[s] = None /\ s \notin suspects

(* What the flags of a session say about its last ping. *)
Pinged ==
    \A s \in going :
        /\ alive[s] => silent[s] = None /\ s \notin suspects
        /\ ~alive[s] => silent[s] # None
        /\ silent[s] = 0 => pingsIn = <<1>>
        /\ silent[s] = 1 => pingsIn = <<0>> \/ s \in suspects
        /\ silent[s] = 2 => s \in suspects
        /\ checking

IInv == TypeOK /\ Cycle /\ Paths /\ Pinged /\ ListedAreOpen

-----------------------------------------------------------------------------
(* The list of one timer. *)

(* A timer list of the cycle has at most one timer. *)
LEMMA OneTimer == ASSUME Cycle PROVE Len(pingsIn) <= 1
<1>1. CASE pingsIn = <<>>
  BY <1>1
<1>2. CASE pingsIn = <<0>>
  BY <1>2
<1>3. CASE pingsIn = <<1>>
  BY <1>3
<1> QED BY <1>1, <1>2, <1>3 DEF Cycle

(* Setting the timer that fired leaves one timer, set to an interval. *)
LEMMA TimerIsSetAgain ==
  ASSUME TypeOK, Cycle, NEW i \in DOMAIN pingsIn, pingsIn[i] = 0, PingAgain(i)
  PROVE  pingsIn = <<0>> /\ pingsIn' = <<1>>
<1>1. pingsIn = <<0>> /\ i = 1
  BY DEF Cycle, TypeOK
<1>2. RemoveAt(pingsIn, i) = <<>>
  BY <1>1 DEF RemoveAt
<1>3. Append(<<>>, 1) = <<1>>
  OBVIOUS
<1> QED BY <1>1, <1>2, <1>3 DEF PingAgain

-----------------------------------------------------------------------------
(* One lemma for each action that disturbs the ping cycle or the sitewide  *)
(* sessions.                                                               *)

(* Nobody is connected at the start. *)
LEMMA InitHolds == Init => IInv
<1> SUFFICES ASSUME Init PROVE IInv
  OBVIOUS
<1>1. TypeOK
  <2>1. pingsIn \in Seq(0..1)
    BY DEF Init
  <2>2. alive \in [Sockets -> BOOLEAN] /\ silent \in [Sockets -> {0, 1, 2, None}]
    BY DEF Init
  <2> QED BY <2>1, <2>2 DEF Init, TypeOK
<1>2. Cycle /\ Paths /\ Pinged /\ ListedAreOpen
  BY DEF Init, Cycle, Paths, Pinged, ListedAreOpen
<1> QED BY <1>1, <1>2 DEF IInv

(* A client that is registered is alive and was not pinged. *)
LEMMA RegisterKeeps == ASSUME IInv, NEW s \in Sockets, AddWsSession(s) PROVE IInv'
<1> USE DEF IInv
<1>1. /\ net[s] = "app" /\ s \notin registered
      /\ UNCHANGED <<net, sitewide, client, up, suspects, silent>>
      /\ registered' = registered \cup {s}
      /\ going' = going \cup {s}
      /\ alive' = [alive EXCEPT ![s] = TRUE]
  BY DEF AddWsSession
<1>2. /\ checking' /\ Cycle'
      /\ checking => pingsIn' = pingsIn /\ closeIn' = closeIn
      /\ ~checking => closeIn' = 2 /\ pingsIn' = <<1>>
  <2>1. Append(<<>>, 1) = <<1>>
    OBVIOUS
  <2> QED BY <2>1 DEF AddWsSession, StartCheckingPings, Cycle, TypeOK
<1>3. TypeOK'
  <2>1. pingsIn' \in Seq(0..1)
    <3>1. <<1>> \in Seq(0..1)
      OBVIOUS
    <3> QED BY <1>2, <3>1 DEF TypeOK
  <2>2. closeIn' \in (0..2) \cup {None}
    BY <1>2 DEF TypeOK
  <2> QED BY <1>1, <1>2, <2>1, <2>2 DEF TypeOK
<1>4. Paths'
  BY <1>1 DEF TypeOK, Paths
<1>5. Pinged'
  <2>1. s \notin going /\ s \notin suspects /\ silent[s] = None
    BY <1>1 DEF Paths
  <2>2. ASSUME NEW z \in going', z # s PROVE z \in going /\ alive'[z] = alive[z] /\ checking
    BY <1>1, <2>2 DEF TypeOK, Pinged
  <2>3. ASSUME NEW z \in going', z # s
        PROVE  /\ alive'[z] => silent'[z] = None /\ z \notin suspects'
               /\ ~alive'[z] => silent'[z] # None
               /\ silent'[z] = 0 => pingsIn' = <<1>>
               /\ silent'[z] = 1 => pingsIn' = <<0>> \/ z \in suspects'
               /\ silent'[z] = 2 => z \in suspects'
               /\ checking'
    BY <1>1, <1>2, <2>2, <2>3 DEF Pinged
  <2>4. alive'[s] /\ silent'[s] = None /\ s \notin suspects' /\ None \notin {0, 1, 2}
    BY <1>1, <2>1, WebSocketAssumption DEF TypeOK
  <2> QED BY <1>2, <2>3, <2>4 DEF Pinged
<1>6. ListedAreOpen'
  BY <1>1 DEF ListedAreOpen
<1> QED BY <1>2, <1>3, <1>4, <1>5, <1>6

(* An answer makes up for every silence. *)
LEMMA PongKeeps == ASSUME IInv, NEW s \in Sockets, Pong(s) PROVE IInv'
<1> USE DEF IInv
<1>1. /\ net[s] = "app" /\ s \in going
      /\ alive' = [alive EXCEPT ![s] = TRUE] /\ suspects' = suspects \ {s}
      /\ silent' = [silent EXCEPT ![s] = None]
      /\ UNCHANGED <<net, going, checking, pingsIn, closeIn, registered, sitewide, client, up>>
  BY DEF Pong, Ponged
<1>2. TypeOK' /\ Cycle' /\ ListedAreOpen'
  BY <1>1 DEF TypeOK, Cycle, ListedAreOpen
<1>3. Paths'
  BY <1>1 DEF TypeOK, Paths
<1>4. Pinged'
  BY <1>1, WebSocketAssumption DEF TypeOK, Pinged
<1> QED BY <1>2, <1>3, <1>4

(* Sessions that close leave nothing to keep. *)
LEMMA CloseKeeps ==
  ASSUME IInv, NEW ss \in SUBSET Sockets, CloseSessions(ss),
         \A s \in ss : net[s] \in {"app", "closed"},
         suspects' = suspects \/ (suspects' = {} /\ ss = suspects),
         closeIn' \in {closeIn, None},
         UNCHANGED <<alive, checking, pingsIn, registered, silent, sitewide, client>>,
         up' = up
  PROVE  IInv'
<1> USE DEF IInv
<1>1. /\ net' = [s \in Sockets |-> IF s \in ss THEN "closed" ELSE net[s]]
      /\ going' = going \ ss
  BY DEF CloseSessions
<1>2. TypeOK' /\ Cycle'
  BY <1>1 DEF TypeOK, Cycle
<1>5. ListedAreOpen'
  <2> SUFFICES ASSUME up, NEW t \in Tokens, NEW s \in sitewide[t] PROVE net'[s] = "sitewide"
    BY DEF ListedAreOpen
  <2>1. net[s] = "sitewide" /\ s \in Sockets
    BY DEF ListedAreOpen, TypeOK
  <2> QED BY <1>1, <2>1
<1>3. Paths'
  BY <1>1 DEF TypeOK, Paths
<1>4. Pinged'
  BY <1>1 DEF TypeOK, Pinged
<1> QED BY <1>2, <1>3, <1>4, <1>5

(* The ping timer fires when nobody is silent for less than an interval.   *)
LEMMA PingsKeep == ASSUME IInv, DoPings PROVE IInv'
<1> USE DEF IInv
<1> DEFINE pinged == {s \in going : alive[s]}
<1>1. pingsIn = <<0>> /\ pingsIn' = <<1>>
  BY TimerIsSetAgain DEF DoPings
<1>2. /\ suspects' = suspects \cup Unanswering
      /\ alive' = [s \in Sockets |-> alive[s] /\ s \notin pinged]
      /\ silent' = [s \in Sockets |-> IF s \in pinged THEN 0 ELSE silent[s]]
      /\ UNCHANGED <<net, going, checking, closeIn, registered, sitewide, client, up>>
  BY DEF DoPings
<1>3. TypeOK' /\ Cycle' /\ ListedAreOpen'
  <2>1. pingsIn' \in Seq(0..1) /\ suspects' \subseteq Sockets
    BY <1>1, <1>2 DEF TypeOK, Unanswering
  <2>2. Cycle' /\ ListedAreOpen'
    BY <1>1, <1>2 DEF Cycle, ListedAreOpen
  <2>3. alive' \in [Sockets -> BOOLEAN] /\ silent' \in [Sockets -> {0, 1, 2, None}]
    BY <1>2 DEF TypeOK
  <2> QED BY <1>2, <2>1, <2>2, <2>3 DEF TypeOK
<1>4. Paths'
  BY <1>2 DEF TypeOK, Paths, Unanswering
<1>5. <<0>> # <<1>>
  OBVIOUS
<1>6. Pinged'
  <2> SUFFICES ASSUME NEW s \in going
               PROVE  /\ alive'[s] => silent'[s] = None /\ s \notin suspects'
                      /\ ~alive'[s] => silent'[s] # None
                      /\ silent'[s] = 0 => pingsIn' = <<1>>
                      /\ silent'[s] = 1 => pingsIn' = <<0>> \/ s \in suspects'
                      /\ silent'[s] = 2 => s \in suspects'
                      /\ checking'
    BY <1>2 DEF Pinged
  <2>1. s \in Sockets /\ checking'
    BY <1>2 DEF TypeOK, Pinged
  <2>2. CASE alive[s]
    <3>1. silent'[s] = 0 /\ ~alive'[s]
      BY <1>2, <2>1, <2>2
    <3> QED BY <1>1, <2>1, <3>1, WebSocketAssumption
  <2>3. CASE ~alive[s]
    <3>1. ~alive'[s] /\ s \in suspects' /\ silent'[s] = silent[s] /\ silent[s] # None
      BY <1>2, <2>1, <2>3 DEF Unanswering, Pinged
    <3> QED BY <1>1, <2>1, <3>1
  <2> QED BY <2>2, <2>3
<1> QED BY <1>3, <1>4, <1>6

(* Time passes only while the ping timer is not due. *)
LEMMA TickKeeps == ASSUME IInv, Tick PROVE IInv'
<1> USE DEF IInv
<1>1. pingsIn = <<1>> /\ pingsIn' = <<0>>
  <2>1. pingsIn = <<1>>
    BY DEF Tick, Cycle
  <2> QED BY <2>1 DEF Tick
<1>2. /\ silent' = [s \in Sockets |-> IF silent[s] \in {0, 1} THEN silent[s] + 1
                                     ELSE silent[s]]
      /\ UNCHANGED <<net, going, alive, suspects, checking, registered, sitewide, client, up>>
  BY DEF Tick
<1>3. TypeOK'
  <2>1. closeIn' \in (0..2) \cup {None}
    BY WebSocketAssumption DEF Tick, TypeOK
  <2>2. silent' \in [Sockets -> {0, 1, 2, None}]
    BY <1>2, WebSocketAssumption DEF TypeOK
  <2>3. pingsIn' \in Seq(0..1)
    BY <1>1
  <2> QED BY <1>2, <2>1, <2>2, <2>3 DEF TypeOK
<1>4. Cycle' /\ ListedAreOpen'
  BY <1>1, <1>2 DEF Cycle, ListedAreOpen, Tick
<1>5. Paths'
  BY <1>2, WebSocketAssumption DEF TypeOK, Paths
<1>6. <<0>> # <<1>>
  OBVIOUS
<1>7. Pinged'
  <2> SUFFICES ASSUME NEW s \in going
               PROVE  /\ alive'[s] => silent'[s] = None /\ s \notin suspects'
                      /\ ~alive'[s] => silent'[s] # None
                      /\ silent'[s] = 0 => pingsIn' = <<1>>
                      /\ silent'[s] = 1 => pingsIn' = <<0>> \/ s \in suspects'
                      /\ silent'[s] = 2 => s \in suspects'
                      /\ checking'
    BY <1>2 DEF Pinged
  <2>1. /\ s \in Sockets /\ checking' /\ alive'[s] = alive[s] /\ suspects' = suspects
        /\ silent[s] \in {0, 1, 2, None}
        /\ silent'[s] = IF silent[s] \in {0, 1} THEN silent[s] + 1 ELSE silent[s]
    BY <1>2 DEF TypeOK, Pinged
  <2>2. /\ alive[s] => silent[s] = None /\ s \notin suspects
        /\ ~alive[s] => silent[s] # None
        /\ silent[s] = 1 => s \in suspects
        /\ silent[s] = 2 => s \in suspects
    BY <1>1, <1>6 DEF Pinged
  <2>3. None \notin {0, 1, 2}
    BY WebSocketAssumption
  <2> QED BY <1>1, <2>1, <2>2, <2>3
<1> QED BY <1>3, <1>4, <1>5, <1>7

(* The sitewide sessions grow. *)
LEMMA SetupKeeps ==
  ASSUME IInv, NEW s \in Sockets, NEW t \in Tokens, SitewideSetup(s, t)
  PROVE  IInv'
<1> USE DEF IInv
<1>1. /\ net[s] = "sitewide" /\ sitewide' = [sitewide EXCEPT ![t] = @ \cup {s}]
      /\ UNCHANGED <<net, appVars, client, up>>
  BY DEF SitewideSetup
<1>2. TypeOK' /\ Cycle' /\ Paths' /\ Pinged'
  BY <1>1 DEF TypeOK, Cycle, Paths, Pinged, appVars
<1>3. ListedAreOpen'
  BY <1>1 DEF TypeOK, ListedAreOpen
<1> QED BY <1>2, <1>3

(* The actions that leave the ping cycle and the sessions alone. *)
LEMMA OthersKeep ==
  ASSUME IInv, UNCHANGED <<appVars, sitewide>>, ~up => ~up',
         client' \in {"off", "waiting", "open", "retry", "lost"}, up' \in BOOLEAN,
         \/ net' = net
         \/ \E s \in Sockets : \/ /\ net[s] = "new"
                                  /\ net' \in {[net EXCEPT ![s] = "sitewide"],
                                               [net EXCEPT ![s] = "app"]}
                               \/ /\ net[s] = "sitewide" /\ ~up'
                                  /\ net' = [net EXCEPT ![s] = "closed"]
  PROVE  IInv'
<1> USE DEF IInv
<1>1. TypeOK' /\ Cycle' /\ ListedAreOpen'
  BY DEF TypeOK, Cycle, ListedAreOpen, appVars
<1>2. Paths'
  BY DEF TypeOK, Paths, appVars
<1>3. Pinged'
  BY DEF TypeOK, Pinged, appVars
<1> QED BY <1>1, <1>2, <1>3

(* Every step keeps the inductive invariant. *)
LEMMA StepKeeps == IInv /\ [Next]_vars => IInv'
<1> SUFFICES ASSUME IInv, [Next]_vars PROVE IInv'
  OBVIOUS
<1>1. ASSUME NEW s \in Sockets, AddWsSession(s) PROVE IInv'
  BY <1>1, RegisterKeeps
<1>2. ASSUME NEW s \in Sockets, Pong(s) PROVE IInv'
  BY <1>2, PongKeeps
<1>3. ASSUME NEW s \in Sockets, AppCloses(s) PROVE IInv'
  <2>1. /\ CloseSessions({s}) /\ \A z \in {s} : net[z] \in {"app", "closed"}
        /\ UNCHANGED <<alive, suspects, checking, pingsIn, closeIn, registered, silent,
                       sitewide, client>>
        /\ up' = up
    BY <1>3 DEF AppCloses
  <2> QED BY <2>1, CloseKeeps
<1>4. CASE DoPings
  BY <1>4, PingsKeep
<1>5. CASE CloseSuspects
  <2>1. /\ CloseSessions(suspects) /\ suspects' = {} /\ closeIn' = None
        /\ UNCHANGED <<alive, checking, pingsIn, registered, silent, sitewide, client>>
        /\ up' = up
    BY <1>5 DEF CloseSuspects
  <2>2. suspects \in SUBSET Sockets /\ \A s \in suspects : net[s] \in {"app", "closed"}
    BY DEF IInv, TypeOK, Paths
  <2> QED BY <2>1, <2>2, CloseKeeps
<1>6. CASE Tick
  BY <1>6, TickKeeps
<1>7. ASSUME NEW s \in Sockets, NEW t \in Tokens, SitewideSetup(s, t) PROVE IInv'
  BY <1>7, SetupKeeps
<1>8. ASSUME NEW s \in Sockets, AppConnects(s) \/ SitewideConnects(s) PROVE IInv'
  BY <1>8, OthersKeep DEF AppConnects, SitewideConnects, IInv, TypeOK
<1>9. ASSUME NEW s \in Sockets, SitewideCloses(s) PROVE IInv'
  BY <1>9, OthersKeep DEF SitewideCloses, WsShutdown, IInv, TypeOK
<1>10. CASE ClientAttempts \/ ClientOpens \/ ClientRefused \/ ClientFails \/ ClientRetries
  BY <1>10, OthersKeep
     DEF ClientAttempts, ClientOpens, ClientRefused, ClientFails, ClientRetries, Client,
         IInv, TypeOK
<1>11. CASE UNCHANGED vars
  BY <1>11, OthersKeep DEF vars, IInv, TypeOK
<1> QED BY <1>1, <1>2, <1>3, <1>4, <1>5, <1>6, <1>7, <1>8, <1>9, <1>10, <1>11 DEF Next

(* The inductive invariant holds. *)
LEMMA Invariance == Spec => []IInv
  BY InitHolds, StepKeeps, PTL DEF Spec

-----------------------------------------------------------------------------
(* Every variable has its type. *)
THEOREM TypeCorrect == Spec => []TypeOK
  BY Invariance, PTL DEF IInv

(* websocket.js, add_ws_session, do_pings, close_suspects: the one ping    *)
(* cycle covers exactly the connected clients that were registered, and    *)
(* suspects every one that stays silent.                                   *)
THEOREM CycleCoversSessions == Spec => []PingsCoverSessions
<1>1. IInv => PingsCoverSessions
  <2> SUFFICES ASSUME IInv PROVE PingsCoverSessions
    OBVIOUS
  <2>1. SessionsAreConnected
    BY DEF IInv, TypeOK, Paths, SessionsAreConnected
  <2>2. OnePingCycle
    BY OneTimer DEF IInv, OnePingCycle
  <2>3. SilentIsSuspected
    BY DEF IInv, Pinged, SilentIsSuspected
  <2> QED BY <2>1, <2>2, <2>3 DEF PingsCoverSessions
<1> QED BY <1>1, Invariance, PTL

(* websocket.js, ponged, do_pings and close_suspects: an answer to a ping  *)
(* is in time for a whole interval, and saves the client also later.       *)
THEOREM AnswersAreInTime == Spec => AnsweringIsSafe
<1>1. ASSUME IInv, [Next]_vars
      PROVE  [\A s \in Sockets : s \in suspects' \ suspects => silent[s] = 1]_vars
  <2> SUFFICES ASSUME Next, NEW s \in Sockets, s \in suspects', s \notin suspects
               PROVE  silent[s] = 1
    BY <1>1
  <2>1. DoPings
    BY DEF Next, AppConnects, AddWsSession, Pong, Ponged, AppCloses, SitewideConnects,
           SitewideCloses, SitewideSetup, CloseSuspects, Tick,
           ClientAttempts, ClientOpens, ClientRefused, ClientFails, ClientRetries,
           Client, appVars
  <2>2. pingsIn = <<0>>
    BY <1>1, <2>1, TimerIsSetAgain DEF DoPings, IInv
  <2>3. s \in going /\ ~alive[s]
    BY <2>1 DEF DoPings, Unanswering
  <2>4. silent[s] \in {0, 1, 2} /\ silent[s] # 2
    BY <1>1, <2>3 DEF IInv, TypeOK, Pinged
  <2>5. silent[s] # 0
    BY <1>1, <2>2, <2>3 DEF IInv, Pinged
  <2> QED BY <2>4, <2>5
<1>2. ASSUME IInv
      PROVE  [CloseSuspects =>
                \A s \in going : alive[s] \/ silent[s] = None => s \in going']_vars
  BY <1>2 DEF CloseSuspects, CloseSessions, IInv, Pinged
<1>3. Spec => FullIntervalToAnswer
  BY <1>1, Invariance, PTL DEF FullIntervalToAnswer, Spec
<1>4. Spec => AnsweringIsNotClosed
  BY <1>2, Invariance, PTL DEF AnsweringIsNotClosed, Spec
<1> QED BY <1>3, <1>4 DEF AnsweringIsSafe

(* websocket.js, ws_sitewide_message_handler and ws_shutdown: as long as   *)
(* the process runs, the sockets that a logout is sent to are open.        *)
THEOREM LogoutsFindOpenSockets == Spec => []ListedAreOpen
  BY Invariance, PTL DEF IInv
=============================================================================
