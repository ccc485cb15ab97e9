------------------------- MODULE UserSessionsProofs -------------------------
(***************************************************************************)
(* Proofs about UserSessions for any set of requests and users.            *)
(*                                                                         *)
(* What keeps a session from coming back is that its token has one taker   *)
(* ever: an entry is put into the cache once, by a login that is then      *)
(* over, and leaves it with the request that takes it.  A session that can *)
(* be logged out was added by that taker, which is then over too, so no    *)
(* request is left that could add the session again.                       *)
(***************************************************************************)
EXTENDS UserSessions, TLAPS

(* What an activation is at each stage of its handler. *)
StageOK(c) ==
    /\ c.pc = "idle" => c = Idle
    /\ c.op = "none" => c.pc = "idle"
    /\ c.answer # "none" => c.pc = "done"
    /\ c.pc = "hash" => c.op \in Actions
    /\ c.pc = "check" => c.op = "login"
    /\ c.pc = "store" => c.op = "register"
    /\ c.pc \in {"match", "add"} => c.op = "secondary"
    /\ c.op \in Actions => c.user \in Users
    /\ c.op \in {"logout", "secondary"} => c.token \in Req
    /\ c.op = "logout" /\ (c.pc # "done" \/ c.answer = "plain") => c.user \in Users
    /\ c.op = "secondary" /\ (c.pc # "done" \/ c.answer \in {"match", "error"}) =>
          c.entry # None /\ c.user = c.entry.user
    /\ c.entry # None /\ (c.pc \in {"fetch", "add"} \/ c.answer = "match") =>
          c.entry.action = "login"
    /\ c.op # "secondary" => c.entry = None
    /\ c.answer = "handshake" => c.op \in Actions
    /\ c.answer = "match" => c.op = "secondary"

Stages == \A r \in Req : StageOK(req[r])

(* Request t was answered with a handshake over entry e. *)
Made(t, e) ==
    /\ req[t].op = e.action
    /\ req[t].answer = "handshake"
    /\ req[t].user = e.user

Has(r, t) == req[r].entry # None /\ req[r].token = t

(* An entry in the cache was made by the request it is named after, and    *)
(* nobody has taken it.                                                    *)
Cached ==
    \A t \in Req : cache[t] # None =>
        Made(t, cache[t]) /\ \A r \in Req : ~Has(r, t)

(* An entry that was taken was made before, and was taken once. *)
Taken ==
    \A r \in Req : req[r].entry # None =>
        /\ Made(req[r].token, req[r].entry)
        /\ \A q \in Req : Has(q, req[r].token) => q = r

(* A session was added by the taker of its token. *)
Added ==
    \A s \in Req : sessions[s] # None =>
        \E r \in Req : Has(r, s) /\ req[r].answer = "match"
                       /\ sessions[s] = req[r].user

(* Who logs out has had a session: its taker is over. *)
LoggingOut ==
    \A r \in Req :
        /\ req[r].op = "logout"
        /\ req[r].pc = "fetch" \/ req[r].answer = "plain"
        => \E k \in Req : /\ Has(k, req[r].token)
                          /\ req[k].answer = "match"
                          /\ req[r].user = req[k].user

(* The entry and the data of a login stay until they are taken and matched. *)
Stashed ==
    \A s \in Req : req[s].op = "login" /\ req[s].answer = "handshake" =>
        /\ (\A r \in Req : ~Has(r, s)) => cache[s] # None
        /\ (\A r \in Req : Has(r, s) => req[r].answer # "match") =>
              release[s] = req[s].user

IInv ==
    /\ TypeOK
    /\ Stages
    /\ Cached
    /\ Taken
    /\ Added
    /\ LoggingOut
    /\ LogoutIsFinal
    /\ Stashed
    /\ DataReachesClient

-----------------------------------------------------------------------------
(* A step of a request does one of five things to the shared state: it     *)
(* keeps it, makes an offer, takes one, adds a session, or ends one.       *)

SameRequest(r) ==
    /\ req'[r].op = req[r].op
    /\ req'[r].token = req[r].token
    /\ req'[r].user = req[r].user
    /\ req'[r].entry = req[r].entry

Opens(r) ==
    /\ req[r].pc = "idle"
    /\ req'[r].entry = None
    /\ req'[r].answer \in {"none", "refused", "failed"}
    /\ req'[r].op = "logout" /\ req'[r].pc = "fetch" =>
          sessions[req'[r].token] = req'[r].user
    /\ UNCHANGED users

GoesOn(r) ==
    /\ req[r].pc # "idle"
    /\ SameRequest(r)
    /\ req'[r].answer \notin {"handshake", "match"}
    /\ req[r].op = "logout" => req'[r].answer # "plain"
    /\ req[r].pc = "add" => req'[r].answer = "error"

Keeps(r) ==
    /\ UNCHANGED <<cache, release, sessions>>
    /\ Opens(r) \/ GoesOn(r)

Offers(r) ==
    /\ req[r].pc \in {"check", "store"}
    /\ SameRequest(r)
    /\ req'[r].answer = "handshake"
    /\ AddLocal(r, req[r].op, req[r].user)
    /\ release' = IF req[r].op = "login" THEN Stash(r, req[r].user) ELSE release
    /\ UNCHANGED sessions

Takes(r) ==
    \E t \in Req :
        /\ req[r].pc = "idle"
        /\ cache[t] # None
        /\ cache' = FetchLocal(t)
        /\ req'[r].op = "secondary"
        /\ req'[r].token = t
        /\ req'[r].entry = cache[t]
        /\ req'[r].answer \in {"none", "failed"}
        /\ UNCHANGED <<users, release, sessions>>

Adds(r) ==
    /\ req[r].pc = "add"
    /\ SameRequest(r)
    /\ req'[r].answer = "match"
    /\ req'[r].data = release[req[r].token]
    /\ sessions' = [sessions EXCEPT ![req[r].token] = req[r].user]
    /\ release' = Released(req[r].token)
    /\ UNCHANGED <<users, cache>>

Ends(r) ==
    /\ req[r].pc = "fetch" /\ req[r].op = "logout"
    /\ SameRequest(r)
    /\ req'[r].answer = "plain"
    /\ sessions' = [sessions EXCEPT ![req[r].token] = None]
    /\ UNCHANGED <<cache, release>>

Moves(r) ==
    /\ req[r].pc # "done"
    /\ req' = [req EXCEPT ![r] = req'[r]]
    /\ req'[r] \in Activation
    /\ StageOK(req'[r])
    /\ users' \in [Users -> User]
    /\ Keeps(r) \/ Offers(r) \/ Takes(r) \/ Adds(r) \/ Ends(r)

-----------------------------------------------------------------------------

Done(c, a) == [c EXCEPT !.pc = "done", !.answer = a]

LEMMA IdleOK == Idle \in Activation /\ StageOK(Idle)
  BY NoneAssumption DEF Idle, Activation, StageOK, Actions

(* Answering or going on replaces the activation of r by a known record.   *)
LEMMA Answered ==
  ASSUME TypeOK, NEW r \in Req, NEW c \in Activation,
         NEW a \in {"handshake", "plain", "refused", "match", "hollow",
                    "failed", "error"},
         Answer(r, c, a)
  PROVE  /\ req' = [req EXCEPT ![r] = req'[r]]
         /\ req'[r] = Done(c, a)
         /\ req'[r] \in Activation
         /\ req'[r].pc = "done" /\ req'[r].answer = a
         /\ req'[r].op = c.op /\ req'[r].user = c.user /\ req'[r].token = c.token
         /\ req'[r].entry = c.entry /\ req'[r].data = c.data
<1>1. Done(c, a) \in Activation
  BY DEF Activation, Done
<1>2. req' = [req EXCEPT ![r] = Done(c, a)]
  BY DEF Answer, Done
<1>3. /\ Done(c, a).pc = "done" /\ Done(c, a).answer = a
      /\ Done(c, a).op = c.op /\ Done(c, a).user = c.user
      /\ Done(c, a).token = c.token /\ Done(c, a).entry = c.entry
      /\ Done(c, a).data = c.data
  BY DEF Activation, Done
<1> QED BY <1>1, <1>2, <1>3 DEF TypeOK

LEMMA Went ==
  ASSUME TypeOK, NEW r \in Req, NEW c \in Activation,
         NEW pc \in {"fetch", "hash", "check", "store", "match", "add"},
         Goes(r, c, pc)
  PROVE  /\ req' = [req EXCEPT ![r] = req'[r]]
         /\ req'[r] \in Activation
         /\ req'[r].pc = pc /\ req'[r].answer = c.answer
         /\ req'[r].op = c.op /\ req'[r].user = c.user /\ req'[r].token = c.token
         /\ req'[r].entry = c.entry /\ req'[r].data = c.data
<1> DEFINE d == [c EXCEPT !.pc = pc]
<1>1. /\ d \in Activation /\ d.pc = pc /\ d.answer = c.answer /\ d.op = c.op
      /\ d.user = c.user /\ d.token = c.token /\ d.entry = c.entry
      /\ d.data = c.data
  BY DEF Activation
<1>2. req' = [req EXCEPT ![r] = d]
  BY DEF Goes
<1> HIDE DEF d
<1> QED BY <1>1, <1>2 DEF TypeOK

(* The records of users after a step that leaves them alone. *)
LEMMA SameUsers ==
  ASSUME TypeOK, UNCHANGED users
  PROVE  users' \in [Users -> User]
  BY DEF TypeOK

-----------------------------------------------------------------------------

LEMMA UserRequestMoves ==
  ASSUME TypeOK, NEW r \in Req, StageOK(req[r]),
         NEW op \in Actions, NEW u \in Users, UserRequest(r, op, u)
  PROVE  Moves(r)
<1> DEFINE c == [Idle EXCEPT !.op = op, !.user = u]
<1>1. /\ c \in Activation /\ c.op = op /\ c.user = u /\ c.entry = None
      /\ c.answer = "none" /\ op \notin {"none", "logout", "secondary"}
  BY IdleOK DEF Idle, Activation, Actions
<1>2. /\ req[r].pc = "idle" /\ UNCHANGED <<users, cache, release, sessions>>
      /\ Answer(r, c, "refused") \/ Goes(r, c, "fetch")
  BY DEF UserRequest
<1> HIDE DEF c
<1>3. /\ req' = [req EXCEPT ![r] = req'[r]] /\ req'[r] \in Activation
      /\ req'[r].op = op /\ req'[r].user = u /\ req'[r].entry = None
      /\ \/ req'[r].pc = "done" /\ req'[r].answer = "refused"
         \/ req'[r].pc = "fetch" /\ req'[r].answer = "none"
  BY <1>1, <1>2, Answered, Went
<1>4. StageOK(req'[r]) /\ Opens(r)
  BY <1>1, <1>2, <1>3 DEF StageOK, Opens
<1> QED BY <1>2, <1>3, <1>4, SameUsers DEF Moves, Keeps

LEMMA LogoutRequestMoves ==
  ASSUME TypeOK, NEW r \in Req, StageOK(req[r]),
         NEW t \in Req, LogoutRequest(r, t)
  PROVE  Moves(r)
<1> DEFINE c == [Idle EXCEPT !.op = "logout", !.token = t, !.user = sessions[t]]
<1>1. /\ c \in Activation /\ c.op = "logout" /\ c.user = sessions[t]
      /\ c.token = t /\ c.entry = None /\ c.answer = "none"
      /\ sessions[t] # None => sessions[t] \in Users
  BY IdleOK DEF Idle, Activation, TypeOK
<1>2. /\ req[r].pc = "idle" /\ UNCHANGED <<users, cache, release, sessions>>
      /\ \/ Answer(r, c, "refused")
         \/ Goes(r, c, "fetch") /\ sessions[t] # None
  BY DEF LogoutRequest
<1> HIDE DEF c
<1>3. /\ req' = [req EXCEPT ![r] = req'[r]] /\ req'[r] \in Activation
      /\ req'[r].op = "logout" /\ req'[r].user = sessions[t]
      /\ req'[r].token = t /\ req'[r].entry = None
      /\ \/ req'[r].pc = "done" /\ req'[r].answer = "refused"
         \/ req'[r].pc = "fetch" /\ req'[r].answer = "none" /\ sessions[t] # None
  BY <1>1, <1>2, Answered, Went
<1>4. StageOK(req'[r]) /\ Opens(r)
  BY <1>1, <1>2, <1>3 DEF StageOK, Opens, Actions
<1> QED BY <1>2, <1>3, <1>4, SameUsers DEF Moves, Keeps

LEMMA SecondaryRequestMoves ==
  ASSUME TypeOK, NEW r \in Req, StageOK(req[r]),
         NEW t \in Req, NEW action \in Actions, SecondaryRequest(r, t, action)
  PROVE  Moves(r)
<1> DEFINE c == [Idle EXCEPT !.op = "secondary", !.token = t, !.entry = cache[t]]
           d == [c EXCEPT !.user = cache[t].user]
<1>1. /\ c \in Activation /\ c.op = "secondary" /\ c.token = t
      /\ c.entry = cache[t] /\ c.answer = "none"
  BY IdleOK DEF Idle, Activation, TypeOK
<1>2. cache[t] # None =>
          /\ d \in Activation /\ d.op = "secondary" /\ d.token = t
          /\ d.entry = cache[t] /\ d.answer = "none" /\ d.user = cache[t].user
  BY IdleOK DEF Idle, Activation, TypeOK, Entry
<1>3. /\ req[r].pc = "idle" /\ UNCHANGED <<users, release, sessions>>
      /\ cache' = FetchLocal(t)
      /\ \/ Answer(r, c, "failed")
         \/ Goes(r, d, "match") /\ cache[t] # None
  BY DEF SecondaryRequest
<1> HIDE DEF c, d
<1>4. /\ req' = [req EXCEPT ![r] = req'[r]] /\ req'[r] \in Activation
      /\ req'[r].op = "secondary" /\ req'[r].token = t
      /\ req'[r].entry = cache[t]
      /\ \/ req'[r].pc = "done" /\ req'[r].answer = "failed"
         \/ /\ req'[r].pc = "match" /\ req'[r].answer = "none"
            /\ req'[r].user = cache[t].user /\ cache[t] # None
  BY <1>1, <1>2, <1>3, Answered, Went
<1>5. StageOK(req'[r])
  BY <1>4 DEF StageOK, Actions
<1>6. CASE cache[t] = None
  <2>1. UNCHANGED cache
    BY <1>3, <1>6 DEF FetchLocal, TypeOK
  <2>2. Opens(r)
    BY <1>3, <1>4, <1>6 DEF Opens
  <2> QED BY <1>3, <1>4, <1>5, <2>1, <2>2, SameUsers DEF Moves, Keeps
<1>7. CASE cache[t] # None
  <2>1. Takes(r)
    BY <1>3, <1>4, <1>7 DEF Takes
  <2> QED BY <1>3, <1>4, <1>5, <2>1, SameUsers DEF Moves
<1> QED BY <1>6, <1>7

(* A hook that answers no, or rejects, ends the activation. *)
LEMMA Declined ==
  ASSUME TypeOK, NEW r \in Req, StageOK(req[r]),
         req[r].pc \notin {"idle", "done"},
         UNCHANGED <<users, cache, release, sessions>>,
         NEW a \in {"plain", "refused", "hollow", "failed", "error"},
         Answer(r, req[r], a),
         req[r].op = "logout" => a # "plain",
         req[r].pc = "add" => a = "error",
         a = "error" => req[r].op = "secondary"
  PROVE  Moves(r)
<1>1. /\ req' = [req EXCEPT ![r] = req'[r]] /\ req'[r] \in Activation
      /\ SameRequest(r) /\ req'[r].pc = "done" /\ req'[r].answer = a
  BY Answered DEF TypeOK, SameRequest
<1>2. StageOK(req'[r])
  BY <1>1 DEF StageOK, SameRequest, Actions
<1>3. GoesOn(r)
  BY <1>1 DEF GoesOn
<1> QED BY <1>1, <1>2, <1>3, SameUsers DEF Moves, Keeps

(* An activation that waits at the next hook. *)
LEMMA Continued ==
  ASSUME TypeOK, NEW r \in Req, StageOK(req[r]),
         req[r].pc \notin {"idle", "done", "add"},
         UNCHANGED <<users, cache, release, sessions>>,
         NEW pc \in {"fetch", "hash", "check", "store"},
         Goes(r, req[r], pc),
         pc = "hash" => req[r].op \in Actions,
         pc = "check" => req[r].op = "login",
         pc = "store" => req[r].op = "register",
         pc = "fetch" => req[r].op = "secondary" /\ req[r].entry.action = "login"
  PROVE  Moves(r)
<1>1. /\ req' = [req EXCEPT ![r] = req'[r]] /\ req'[r] \in Activation
      /\ SameRequest(r) /\ req'[r].pc = pc /\ req'[r].answer = req[r].answer
  BY Went DEF TypeOK, SameRequest
<1>2. req[r].answer = "none"
  BY DEF StageOK, TypeOK, Activation
<1>3. StageOK(req'[r])
  BY <1>1, <1>2 DEF StageOK, SameRequest, Actions
<1>4. GoesOn(r)
  BY <1>1, <1>2 DEF GoesOn
<1> QED BY <1>1, <1>3, <1>4, SameUsers DEF Moves, Keeps

LEMMA RecordOK == NewUser \in User /\ NoUser \in User
  BY DEF NewUser, NoUser, User

LEMMA FlagSet ==
  ASSUME TypeOK, NEW u \in Users
  PROVE  LoggedIn(u) \in [Users -> User]
<1> DEFINE w == [users[u] EXCEPT !.logged_in = TRUE]
<1>1. w \in User
  BY DEF TypeOK, User
<1>2. LoggedIn(u) = [users EXCEPT ![u] = w]
  BY DEF LoggedIn
<1> HIDE DEF w
<1> QED BY <1>1, <1>2 DEF TypeOK

LEMMA SettlesMoves ==
  ASSUME TypeOK, NEW r \in Req, StageOK(req[r]), Settles(r)
  PROVE  Moves(r)
<1> DEFINE c == req[r]
<1>0. c \in Activation /\ cache \in [Req -> Entry \cup {None}]
  BY DEF TypeOK
<1>1. CASE UserFetched(r)
  <2>1. /\ c.op \in Actions /\ c.pc = "fetch"
        /\ UNCHANGED <<users, cache, release, sessions>>
        /\ Answer(r, c, "plain") \/ Goes(r, c, "hash")
    BY <1>1 DEF UserFetched
  <2>2. c.op # "logout"
    BY <2>1 DEF Actions
  <2> QED BY <2>1, <2>2, Declined, Continued
<1>2. CASE Hashed(r)
  <2>1. c.pc = "hash" /\ c.op \in Actions /\ UNCHANGED <<users, cache, release, sessions>>
        /\ Goes(r, c, IF c.op = "login" THEN "check" ELSE "store")
    BY <1>2 DEF Hashed, StageOK
  <2>2. CASE c.op = "login"
    BY <2>1, <2>2, Continued
  <2>3. CASE c.op = "register"
    BY <2>1, <2>3, Continued
  <2> QED BY <2>1, <2>2, <2>3 DEF Actions
<1>3. CASE PasswordChecked(r)
  <2>1. c.pc = "check" /\ c.op = "login" /\ UNCHANGED <<users, sessions>>
    BY <1>3 DEF PasswordChecked, StageOK
  <2>2. CASE Answer(r, c, "plain") /\ UNCHANGED <<cache, release>>
    BY <2>1, <2>2, Declined
  <2>3. CASE /\ Answer(r, c, "handshake") /\ AddLocal(r, "login", c.user)
             /\ release' = Stash(r, c.user)
    <3>1. /\ req' = [req EXCEPT ![r] = req'[r]] /\ req'[r] \in Activation
          /\ SameRequest(r) /\ req'[r].pc = "done" /\ req'[r].answer = "handshake"
      BY <1>0, <2>3, Answered DEF SameRequest
    <3>2. StageOK(req'[r])
      BY <2>1, <3>1 DEF StageOK, SameRequest, Actions
    <3>3. Offers(r)
      BY <2>1, <2>3, <3>1 DEF Offers
    <3> QED BY <2>1, <3>1, <3>2, <3>3, SameUsers DEF Moves
  <2> QED BY <1>3, <2>2, <2>3 DEF PasswordChecked
<1>4. CASE UserStored(r)
  <2>1. /\ c.pc = "store" /\ c.op = "register" /\ UNCHANGED <<release, sessions>>
        /\ c.user \in Users /\ users' = [users EXCEPT ![c.user] = NewUser]
    BY <1>4 DEF UserStored, StageOK, Actions
  <2>2. users' \in [Users -> User]
    BY <2>1, RecordOK DEF TypeOK
  <2>3. CASE Answer(r, c, "plain") /\ UNCHANGED cache
    <3>1. /\ req' = [req EXCEPT ![r] = req'[r]] /\ req'[r] \in Activation
          /\ SameRequest(r) /\ req'[r].pc = "done" /\ req'[r].answer = "plain"
      BY <1>0, <2>3, Answered DEF SameRequest
    <3>2. StageOK(req'[r])
      BY <2>1, <3>1 DEF StageOK, SameRequest, Actions
    <3>3. GoesOn(r)
      BY <2>1, <2>2, <3>1 DEF GoesOn
    <3> QED BY <2>1, <2>2, <2>3, <3>1, <3>2, <3>3 DEF Moves, Keeps
  <2>4. CASE Answer(r, c, "handshake") /\ AddLocal(r, "register", c.user)
    <3>1. /\ req' = [req EXCEPT ![r] = req'[r]] /\ req'[r] \in Activation
          /\ SameRequest(r) /\ req'[r].pc = "done" /\ req'[r].answer = "handshake"
      BY <1>0, <2>4, Answered DEF SameRequest
    <3>2. StageOK(req'[r])
      BY <2>1, <3>1 DEF StageOK, SameRequest, Actions
    <3>3. Offers(r)
      BY <2>1, <2>2, <2>4, <3>1 DEF Offers
    <3> QED BY <2>1, <2>2, <3>1, <3>2, <3>3 DEF Moves
  <2> QED BY <1>4, <2>3, <2>4 DEF UserStored
<1>5. CASE Matched(r)
  <2>1. c.pc = "match" /\ c.op = "secondary" /\ UNCHANGED <<users, cache, release, sessions>>
        /\ \/ Answer(r, c, "failed")
           \/ Goes(r, c, "fetch") /\ c.entry.action = "login"
    BY <1>5 DEF Matched, StageOK
  <2> QED BY <2>1, Declined, Continued
<1>6. CASE OwnerFetched(r)
  <2>1. /\ c.op = "secondary" /\ c.pc = "fetch" /\ UNCHANGED <<cache, release, sessions>>
        /\ c.entry # None /\ c.user = c.entry.user /\ c.user \in Users
        /\ c.answer = "none" /\ c.entry.action = "login"
    BY <1>0, <1>6 DEF OwnerFetched, StageOK, Activation, Entry
  <2>2. CASE Answer(r, c, "hollow") /\ UNCHANGED users
    BY <2>1, <2>2, Declined
  <2>3. CASE users' = LoggedIn(c.user) /\ Goes(r, c, "add")
             /\ users[c.user].stored
    <3>1. /\ req' = [req EXCEPT ![r] = req'[r]] /\ req'[r] \in Activation
          /\ SameRequest(r) /\ req'[r].pc = "add" /\ req'[r].answer = "none"
      BY <1>0, <2>1, <2>3, Went DEF SameRequest
    <3>2. StageOK(req'[r])
      BY <2>1, <3>1 DEF StageOK, SameRequest, Actions
    <3>3. users' \in [Users -> User]
      BY <2>1, <2>3, FlagSet
    <3>4. GoesOn(r)
      BY <2>1, <3>1, <3>3 DEF GoesOn
    <3> QED BY <2>1, <3>1, <3>2, <3>3, <3>4 DEF Moves, Keeps
  <2> QED BY <1>6, <2>2, <2>3 DEF OwnerFetched
<1>7. CASE SessionAdded(r)
  <2> DEFINE d == [c EXCEPT !.data = release[c.token]]
  <2>1. /\ c.pc = "add" /\ c.op = "secondary" /\ UNCHANGED <<users, cache>>
        /\ sessions' = [sessions EXCEPT ![c.token] = c.user]
        /\ release' = Released(c.token) /\ Answer(r, d, "match")
        /\ c.token \in Req
    BY <1>7 DEF SessionAdded, StageOK
  <2>2. /\ d \in Activation /\ d.op = c.op /\ d.token = c.token /\ d.user = c.user
        /\ d.entry = c.entry /\ d.data = release[c.token]
    BY <1>0, <2>1 DEF Activation, TypeOK
  <2> HIDE DEF d
  <2>3. /\ req' = [req EXCEPT ![r] = req'[r]] /\ req'[r] \in Activation
        /\ SameRequest(r) /\ req'[r].pc = "done" /\ req'[r].answer = "match"
        /\ req'[r].data = release[c.token]
    BY <2>1, <2>2, Answered DEF SameRequest
  <2>4. StageOK(req'[r])
    BY <2>1, <2>3 DEF StageOK, SameRequest, Actions
  <2>5. Adds(r)
    BY <2>1, <2>3 DEF Adds
  <2> QED BY <2>1, <2>3, <2>4, <2>5, SameUsers DEF Moves
<1>8. CASE SessionDestroyed(r)
  <2>1. /\ c.op = "logout" /\ c.pc = "fetch"
        /\ sessions' = [sessions EXCEPT ![c.token] = None]
        /\ Answer(r, c, "plain") /\ UNCHANGED <<users, cache, release>>
        /\ c.user \in Users
    BY <1>8 DEF SessionDestroyed, StageOK
  <2>3. /\ req' = [req EXCEPT ![r] = req'[r]] /\ req'[r] \in Activation
        /\ SameRequest(r) /\ req'[r].pc = "done" /\ req'[r].answer = "plain"
    BY <1>0, <2>1, Answered DEF SameRequest
  <2>4. StageOK(req'[r])
    BY <2>1, <2>3 DEF StageOK, SameRequest, Actions
  <2>5. Ends(r)
    BY <2>1, <2>3 DEF Ends
  <2> QED BY <2>1, <2>3, <2>4, <2>5, SameUsers DEF Moves
<1>9. CASE Rejected(r)
  <2>1. /\ c.pc \notin {"idle", "done"} /\ UNCHANGED <<users, cache, release, sessions>>
        /\ Answer(r, c, IF c.op = "secondary" THEN "error" ELSE "refused")
        /\ c.pc = "add" => c.op = "secondary"
    BY <1>9 DEF Rejected, StageOK
  <2>2. CASE c.op = "secondary"
    BY <2>1, <2>2, Declined
  <2>3. CASE c.op # "secondary"
    BY <2>1, <2>3, Declined
  <2> QED BY <2>2, <2>3
<1> QED BY <1>1, <1>2, <1>3, <1>4, <1>5, <1>6, <1>7, <1>8, <1>9 DEF Settles

LEMMA ArrivesMoves ==
  ASSUME TypeOK, NEW r \in Req, StageOK(req[r]), Arrives(r)
  PROVE  Moves(r)
  BY UserRequestMoves, LogoutRequestMoves, SecondaryRequestMoves DEF Arrives

-----------------------------------------------------------------------------
(* Each of the five kinds of step preserves the invariant. *)

(* Only r changes, and who has answered never does. *)
LEMMA Frame ==
  ASSUME IInv, NEW r \in Req, Moves(r)
  PROVE  /\ req' \in [Req -> Activation]
         /\ \A q \in Req : q # r => req'[q] = req[q]
         /\ \A q \in Req : req[q].answer # "none" => q # r
         /\ req[r].answer = "none"
         /\ req[r].pc = "idle" => req[r] = Idle
         /\ Stages'
         /\ users' \in [Users -> User]
<1>1. /\ req \in [Req -> Activation] /\ req'[r] \in Activation
      /\ req' = [req EXCEPT ![r] = req'[r]]
  BY DEF IInv, TypeOK, Moves
<1>2. req' \in [Req -> Activation] /\ \A q \in Req : q # r => req'[q] = req[q]
  BY <1>1
<1>3. \A q \in Req : StageOK(req[q])
  BY DEF IInv, Stages
<1>4. req[r].answer = "none" /\ (req[r].pc = "idle" => req[r] = Idle)
  BY <1>3 DEF Moves, StageOK
<1>5. \A q \in Req : StageOK(req'[q])
  BY <1>2, <1>3 DEF Moves
<1>6. Stages'
  BY <1>5 DEF Stages, StageOK
<1> QED BY <1>2, <1>4, <1>6 DEF Moves

(* What a request offered, took or matched stays so, whatever r does. *)
LEMMA Settled ==
  ASSUME IInv, NEW r \in Req, Moves(r)
  PROVE  /\ \A t \in Req, e \in Entry : Made(t, e) => t # r /\ Made(t, e)'
         /\ \A q \in Req : req[q].entry # None =>
               req[q].token # r /\ req'[req[q].token] = req[req[q].token]
         /\ \A k, t \in Req : Has(k, t) /\ req[k].answer = "match" =>
               /\ k # r
               /\ Has(k, t)'
               /\ req'[k] = req[k]
         /\ \A q \in Req : req[q].answer = "match" =>
               /\ q # r
               /\ req[q].entry # None
<1>1. \A t \in Req, e \in Entry : Made(t, e) => t # r /\ Made(t, e)'
  BY Frame DEF Made
<1>2. \A q \in Req : req[q].entry # None =>
         req[q].token \in Req /\ req[q].entry \in Entry
  BY DEF IInv, TypeOK, Activation, Stages, StageOK
<1>3. \A q \in Req : req[q].entry # None =>
         req[q].token # r /\ req'[req[q].token] = req[req[q].token]
  BY <1>1, <1>2, Frame DEF IInv, Taken
<1>4. \A k, t \in Req : Has(k, t) /\ req[k].answer = "match" =>
         k # r /\ Has(k, t)' /\ req'[k] = req[k]
  BY Frame DEF Has
<1>5. \A q \in Req : req[q].answer = "match" => q # r /\ req[q].entry # None
  BY Frame DEF IInv, Stages, StageOK
<1> QED BY <1>1, <1>3, <1>4, <1>5

(* Unless r takes an entry, the entries that requests have are the same.   *)
LEMMA SameEntries ==
  ASSUME IInv, NEW r \in Req, Moves(r),
         \/ SameRequest(r)
         \/ req[r].entry = None /\ req'[r].entry = None
  PROVE  /\ \A q, t \in Req : Has(q, t)' <=> Has(q, t)
         /\ Taken'
<1>1. \A q, t \in Req : Has(q, t)' <=> Has(q, t)
  BY Frame DEF Has, SameRequest
<1>2. SUFFICES ASSUME NEW q \in Req, req'[q].entry # None
               PROVE  /\ Made(req[q].token, req[q].entry)'
                      /\ \A k \in Req : Has(k, req[q].token)' => k = q
  BY <1>1 DEF Taken
<1>3. /\ req[q].entry # None /\ req'[q].entry = req[q].entry
      /\ req'[q].token = req[q].token
  BY <1>2, Frame DEF SameRequest
<1>4. req[q].token \in Req /\ req[q].entry \in Entry
  BY <1>3 DEF IInv, TypeOK, Activation, Stages, StageOK
<1>5. /\ Made(req[q].token, req[q].entry)
      /\ \A k \in Req : Has(k, req[q].token) => k = q
  BY <1>3 DEF IInv, Taken
<1>6. req'[req[q].token] = req[req[q].token]
  BY <1>3, Settled
<1>7. Made(req[q].token, req[q].entry)'
  BY <1>3, <1>5, <1>6 DEF Made
<1>8. \A k \in Req : Has(k, req[q].token)' => k = q
  BY <1>1, <1>3, <1>4, <1>5 DEF Has
<1> QED BY <1>7, <1>8

(* Whose logout is under way keeps the session's taker. *)
LEMMA LoggingOutStays ==
  ASSUME IInv, NEW r \in Req, Moves(r), SameRequest(r),
         req[r].op # "logout" \/ req[r].pc = "fetch"
  PROVE  LoggingOut'
<1> SUFFICES ASSUME NEW q \in Req, req'[q].op = "logout",
                    req'[q].pc = "fetch" \/ req'[q].answer = "plain"
             PROVE  \E j \in Req : /\ Has(j, req[q].token)'
                                   /\ req'[j].answer = "match"
                                   /\ req'[q].user = req'[j].user
  BY DEF LoggingOut
<1>1. /\ req[q].op = "logout" /\ req'[q].token = req[q].token
      /\ req'[q].user = req[q].user
      /\ req[q].pc = "fetch" \/ req[q].answer = "plain"
  BY Frame DEF SameRequest
<1>2. PICK j \in Req : /\ Has(j, req[q].token) /\ req[j].answer = "match"
                       /\ req[q].user = req[j].user
  BY <1>1 DEF IInv, LoggingOut
<1>3. req'[j] = req[j]
  BY <1>2, Frame
<1> QED BY <1>1, <1>2, <1>3 DEF Has

LEMMA KeepsIInv ==
  ASSUME IInv, NEW r \in Req, Moves(r), Keeps(r)
  PROVE  IInv'
<1>1. /\ \A q \in Req : q # r => req'[q] = req[q]
      /\ req[r].answer = "none"
      /\ req[r].pc = "idle" => req[r] = Idle
      /\ UNCHANGED <<cache, release, sessions>>
      /\ Opens(r) \/ GoesOn(r)
  BY Frame DEF Keeps
<1>2. Idle.entry = None /\ Idle.op = "none" /\ Idle.answer = "none"
  BY DEF Idle
<1>3. \A q, t \in Req : Has(q, t)' <=> Has(q, t)
  BY <1>1, <1>2, SameEntries DEF Opens, GoesOn
<1>4. req'[r].answer \notin {"handshake", "match"}
  BY <1>1 DEF Opens, GoesOn
<1>5. TypeOK'
  BY <1>1, Frame DEF IInv, TypeOK
<1>6. Cached'
  BY <1>1, <1>3, Settled DEF IInv, Cached, TypeOK
<1>7. Taken'
  BY <1>1, <1>2, SameEntries DEF Opens, GoesOn
<1>8. Added'
  BY <1>1, Settled DEF IInv, Added
<1>9. LoggingOut'
  <2> SUFFICES ASSUME NEW q \in Req, req'[q].op = "logout",
                      req'[q].pc = "fetch" \/ req'[q].answer = "plain"
               PROVE  \E k \in Req : /\ Has(k, req[q].token)'
                                     /\ req'[k].answer = "match"
                                     /\ req'[q].user = req'[k].user
    BY DEF LoggingOut
  <2>1. req'[q].token \in Req /\ (req'[q].pc = "fetch" => req'[q].user \in Users)
    BY Frame DEF Stages, StageOK
  <2>2. \E k \in Req : /\ Has(k, req'[q].token)
                       /\ req[k].answer = "match"
                       /\ req'[q].user = req[k].user
    <3>1. CASE q = r /\ Opens(r)
      <4>1. sessions[req'[r].token] = req'[r].user /\ req'[r].user \in Users
        BY <2>1, <3>1 DEF Opens
      <4> QED BY <2>1, <3>1, <4>1, NoneAssumption DEF IInv, Added
    <3>2. CASE q # r \/ GoesOn(r)
      <4>1. /\ req[q].op = "logout" /\ req[q].token = req'[q].token
            /\ req[q].user = req'[q].user
            /\ req[q].pc = "fetch" \/ req[q].answer = "plain"
        BY <1>1, <3>2 DEF GoesOn, SameRequest, IInv, TypeOK, Activation,
           Stages, StageOK, Actions, Moves
      <4> QED BY <4>1 DEF IInv, LoggingOut
    <3> QED BY <1>1, <3>1, <3>2
  <2> QED BY <2>1, <2>2, Settled DEF Has
<1>10. LogoutIsFinal'
  BY <1>1 DEF IInv, LogoutIsFinal, Opens, GoesOn, SameRequest
<1>11. Stashed'
  <2> SUFFICES ASSUME NEW s \in Req, req'[s].op = "login",
                      req'[s].answer = "handshake"
               PROVE  /\ (\A q \in Req : ~Has(q, s)') => cache[s] # None
                      /\ (\A q \in Req : Has(q, s)' => req'[q].answer # "match")
                            => release[s] = req'[s].user
    BY <1>1 DEF Stashed
  <2>1. req'[s] = req[s]
    BY <1>1, <1>4
  <2> QED BY <1>1, <1>3, <2>1, Settled DEF IInv, Stashed
<1>12. DataReachesClient'
  BY <1>1, <1>4, Settled DEF IInv, DataReachesClient
<1> QED BY <1>5, <1>6, <1>7, <1>8, <1>9, <1>10, <1>11, <1>12, Frame DEF IInv

LEMMA OffersIInv ==
  ASSUME IInv, NEW r \in Req, Moves(r), Offers(r)
  PROVE  IInv'
<1> DEFINE e == [action |-> req[r].op, user |-> req[r].user]
<1>1. /\ \A q \in Req : q # r => req'[q] = req[q]
      /\ req[r].answer = "none" /\ req'[r].answer = "handshake"
      /\ cache' = [cache EXCEPT ![r] = e]
      /\ UNCHANGED sessions /\ SameRequest(r)
  BY Frame DEF Offers, AddLocal
<1>2. /\ req[r].op \in Actions /\ req[r].pc \notin {"idle", "add"}
      /\ req[r].user \in Users /\ req[r].entry = None /\ req[r].op # "secondary"
      /\ req[r].op # "logout"
  BY DEF IInv, Stages, StageOK, Offers, Actions
<1>3. e \in Entry /\ e # None /\ e.action = req[r].op /\ e.user = req[r].user
  BY <1>2, NoneAssumption DEF Entry
<1> HIDE DEF e
<1>4. /\ release' \in [Req -> Users \cup {None}]
      /\ req[r].op = "login" => release'[r] = req[r].user
      /\ \A s \in Req : s # r => release'[s] = release[s]
  BY <1>2 DEF Offers, Stash, IInv, TypeOK
<1>5. \A q, t \in Req : Has(q, t)' <=> Has(q, t)
  BY <1>1, SameEntries
<1>6. \A q \in Req : ~Has(q, r)
  BY Settled DEF Has
<1>7. TypeOK'
  BY <1>1, <1>3, <1>4, Frame DEF IInv, TypeOK
<1>8. Cached'
  <2> SUFFICES ASSUME NEW t \in Req, cache'[t] # None
               PROVE  Made(t, cache[t])' /\ \A q \in Req : ~Has(q, t)'
    BY DEF Cached
  <2>1. CASE t = r
    <3>1. cache'[t] = e
      BY <1>1, <2>1 DEF IInv, TypeOK
    <3> QED BY <1>1, <1>3, <1>5, <1>6, <2>1, <3>1 DEF Made, SameRequest
  <2>2. CASE t # r
    <3>1. cache'[t] = cache[t] /\ req'[t] = req[t]
      BY <1>1, <2>2 DEF IInv, TypeOK
    <3> QED BY <1>5, <3>1 DEF IInv, Cached, Made
  <2> QED BY <2>1, <2>2
<1>9. Taken'
  BY <1>1, SameEntries
<1>10. Added'
  BY <1>1, Settled DEF IInv, Added
<1>11. LoggingOut'
  BY <1>1, <1>2, LoggingOutStays
<1>12. LogoutIsFinal'
  BY <1>1, <1>2 DEF IInv, LogoutIsFinal, SameRequest
<1>13. Stashed'
  <2> SUFFICES ASSUME NEW s \in Req, req'[s].op = "login",
                      req'[s].answer = "handshake"
               PROVE  /\ (\A q \in Req : ~Has(q, s)') => cache'[s] # None
                      /\ (\A q \in Req : Has(q, s)' => req'[q].answer # "match")
                            => release'[s] = req'[s].user
    BY DEF Stashed
  <2>1. CASE s = r
    <3>1. cache'[s] # None
      BY <1>1, <1>3, <2>1 DEF IInv, TypeOK
    <3> QED BY <1>1, <1>4, <2>1, <3>1 DEF SameRequest
  <2>2. CASE s # r
    <3>1. req'[s] = req[s] /\ cache'[s] = cache[s] /\ release'[s] = release[s]
      BY <1>1, <1>4, <2>2 DEF IInv, TypeOK
    <3> QED BY <1>5, <3>1, Settled DEF IInv, Stashed
  <2> QED BY <2>1, <2>2
<1>14. DataReachesClient'
  BY <1>1, Settled DEF IInv, DataReachesClient
<1> QED BY <1>7, <1>8, <1>9, <1>10, <1>11, <1>12, <1>13, <1>14, Frame
        DEF IInv

LEMMA TakesIInv ==
  ASSUME IInv, NEW r \in Req, Moves(r), Takes(r)
  PROVE  IInv'
<1>1. PICK t \in Req :
        /\ req[r].pc = "idle"
        /\ cache[t] # None
        /\ cache' = [cache EXCEPT ![t] = None]
        /\ req'[r].op = "secondary"
        /\ req'[r].token = t
        /\ req'[r].entry = cache[t]
        /\ req'[r].answer \in {"none", "failed"}
        /\ UNCHANGED <<users, release, sessions>>
  BY DEF Takes, FetchLocal
<1>2. /\ \A q \in Req : q # r => req'[q] = req[q]
      /\ req[r].entry = None /\ req[r].op = "none" /\ req[r].answer = "none"
      /\ req[r].pc = "idle"
  BY <1>1, Frame DEF Idle
<1>3. /\ cache'[t] = None
      /\ \A s \in Req : s # t => cache'[s] = cache[s]
      /\ cache[t] \in Entry
  BY <1>1 DEF IInv, TypeOK
<1>4. Made(t, cache[t]) /\ \A q \in Req : ~Has(q, t)
  BY <1>1 DEF IInv, Cached
<1>5. t # r /\ req'[t] = req[t]
  BY <1>2, <1>3, <1>4, Settled
<1>6. /\ Has(r, t)' /\ \A s \in Req : Has(r, s)' => s = t
      /\ \A q, s \in Req : q # r => (Has(q, s)' <=> Has(q, s))
      /\ \A s \in Req : ~Has(r, s)
  BY <1>1, <1>2 DEF Has
<1>7. TypeOK'
  BY <1>1, Frame DEF IInv, TypeOK
<1>8. Cached'
  <2> SUFFICES ASSUME NEW s \in Req, cache'[s] # None
               PROVE  Made(s, cache[s])' /\ \A q \in Req : ~Has(q, s)'
    BY DEF Cached
  <2>1. s # t /\ cache'[s] = cache[s]
    BY <1>3
  <2>2. Made(s, cache[s]) /\ \A q \in Req : ~Has(q, s)
    BY <2>1 DEF IInv, Cached
  <2>3. s # r
    BY <1>2, <2>2 DEF Made
  <2>4. Made(s, cache[s])'
    BY <1>2, <2>1, <2>2, <2>3 DEF Made
  <2> QED BY <1>6, <2>1, <2>2, <2>4
<1>9. Taken'
  <2> SUFFICES ASSUME NEW q \in Req, req'[q].entry # None
               PROVE  /\ Made(req[q].token, req[q].entry)'
                      /\ \A k \in Req : Has(k, req[q].token)' => k = q
    BY DEF Taken
  <2>1. CASE q = r
    <3>1. Made(req[q].token, req[q].entry)'
      BY <1>1, <1>4, <1>5, <2>1 DEF Made
    <3>2. \A k \in Req : Has(k, t)' => k = r
      BY <1>4, <1>6
    <3> QED BY <1>1, <2>1, <3>1, <3>2 DEF Has
  <2>2. CASE q # r
    <3>1. /\ req'[q] = req[q] /\ req[q].token \in Req
          /\ Made(req[q].token, req[q].entry) /\ Has(q, req[q].token)
          /\ \A k \in Req : Has(k, req[q].token) => k = q
          /\ req'[req[q].token] = req[req[q].token]
      BY <1>2, <2>2, Settled DEF IInv, Taken, Has, Stages, StageOK
    <3>2. req[q].token # t
      BY <1>4, <3>1
    <3>3. Made(req[q].token, req[q].entry)'
      BY <3>1 DEF Made
    <3>4. \A k \in Req : Has(k, req[q].token)' => k = q
      BY <1>1, <1>2, <3>1, <3>2 DEF Has
    <3> QED BY <3>3, <3>4
  <2> QED BY <2>1, <2>2
<1>10. Added'
  BY <1>1, Settled DEF IInv, Added
<1>11. LoggingOut'
  BY <1>1, <1>2, Settled DEF IInv, LoggingOut, Stages, StageOK
<1>12. LogoutIsFinal'
  BY <1>1, <1>2 DEF IInv, LogoutIsFinal
<1>13. Stashed'
  <2> SUFFICES ASSUME NEW s \in Req, req'[s].op = "login",
                      req'[s].answer = "handshake"
               PROVE  /\ (\A q \in Req : ~Has(q, s)') => cache'[s] # None
                      /\ (\A q \in Req : Has(q, s)' => req'[q].answer # "match")
                            => release'[s] = req'[s].user
    BY DEF Stashed
  <2>1. req'[s] = req[s] /\ release'[s] = release[s]
    BY <1>1, <1>2
  <2>2. CASE s = t
    BY <1>4, <1>6, <2>1, <2>2 DEF IInv, Stashed
  <2>3. CASE s # t
    <3>1. \A q \in Req : Has(q, s)' <=> Has(q, s)
      BY <1>6, <2>3
    <3> QED BY <1>3, <2>1, <2>3, <3>1, Settled DEF IInv, Stashed
  <2> QED BY <2>2, <2>3
<1>14. DataReachesClient'
  BY <1>1, <1>2, Settled DEF IInv, DataReachesClient
<1> QED BY <1>7, <1>8, <1>9, <1>10, <1>11, <1>12, <1>13, <1>14, Frame
        DEF IInv

LEMMA AddsIInv ==
  ASSUME IInv, NEW r \in Req, Moves(r), Adds(r)
  PROVE  IInv'
<1> DEFINE t == req[r].token
           u == req[r].user
<1>1. /\ \A q \in Req : q # r => req'[q] = req[q]
      /\ req[r].pc = "add" /\ req[r].answer = "none"
      /\ SameRequest(r) /\ req'[r].answer = "match"
      /\ req'[r].data = release[t]
      /\ sessions' = [sessions EXCEPT ![t] = u]
      /\ release' = [release EXCEPT ![t] = None]
      /\ UNCHANGED <<users, cache>>
  BY Frame DEF Adds, Released
<1>2. /\ req[r].op = "secondary" /\ t \in Req /\ req[r].entry # None
      /\ req[r].entry \in Entry /\ req[r].entry.action = "login"
      /\ u = req[r].entry.user /\ u \in Users
  BY <1>1 DEF IInv, TypeOK, Stages, StageOK, Activation, Entry
<1>3. /\ Has(r, t) /\ \A q \in Req : Has(q, t) => q = r
      /\ Made(t, req[r].entry)
      /\ t # r /\ req'[t] = req[t]
  BY <1>2, Settled DEF IInv, Taken, Has
<1> HIDE DEF t, u
<1>4. /\ sessions'[t] = u /\ \A s \in Req : s # t => sessions'[s] = sessions[s]
      /\ \A s \in Req : s # t => release'[s] = release[s]
      /\ sessions' \in [Req -> Users \cup {None}]
      /\ release' \in [Req -> Users \cup {None}]
  BY <1>1, <1>2 DEF IInv, TypeOK
<1>5. \A q, s \in Req : Has(q, s)' <=> Has(q, s)
  BY <1>1, SameEntries
<1>6. TypeOK'
  BY <1>1, <1>4, Frame DEF IInv, TypeOK
<1>7. Cached'
  BY <1>1, <1>5, Settled DEF IInv, Cached, TypeOK
<1>8. Taken'
  BY <1>1, SameEntries
<1>9. Added'
  <2> SUFFICES ASSUME NEW s \in Req, sessions'[s] # None
               PROVE  \E k \in Req : Has(k, s)' /\ req'[k].answer = "match"
                                     /\ sessions'[s] = req'[k].user
    BY DEF Added
  <2>1. CASE s = t
    BY <1>1, <1>3, <1>4, <1>5, <2>1 DEF SameRequest, u
  <2>2. CASE s # t
    BY <1>4, <2>2, Settled DEF IInv, Added
  <2> QED BY <2>1, <2>2
<1>10. LoggingOut'
  BY <1>1, <1>2, LoggingOutStays
<1>11. LogoutIsFinal'
  <2> SUFFICES ASSUME NEW q \in Req, req'[q].op = "logout",
                      req'[q].answer = "plain"
               PROVE  sessions'[req'[q].token] = None
    BY DEF LogoutIsFinal
  <2>1. req'[q] = req[q] /\ req[q].token \in Req
    BY <1>1, <1>2 DEF IInv, Stages, StageOK, SameRequest
  <2>2. PICK k \in Req : Has(k, req[q].token) /\ req[k].answer = "match"
    BY <2>1 DEF IInv, LoggingOut
  <2>3. req[q].token # t
    BY <1>1, <1>3, <2>2
  <2> QED BY <1>4, <2>1, <2>3 DEF IInv, LogoutIsFinal
<1>12. Stashed'
  <2> SUFFICES ASSUME NEW s \in Req, req'[s].op = "login",
                      req'[s].answer = "handshake"
               PROVE  /\ (\A q \in Req : ~Has(q, s)') => cache'[s] # None
                      /\ (\A q \in Req : Has(q, s)' => req'[q].answer # "match")
                            => release'[s] = req'[s].user
    BY DEF Stashed
  <2>1. req'[s] = req[s]
    BY <1>1
  <2>2. CASE s = t
    BY <1>1, <1>3, <1>5, <2>2
  <2>3. CASE s # t
    <3>1. \A q \in Req : Has(q, s) => q # r
      BY <2>3 DEF Has, t
    <3>2. release'[s] = release[s] /\ cache'[s] = cache[s]
      BY <1>1, <1>4, <2>3
    <3> QED BY <1>1, <1>5, <2>1, <3>1, <3>2 DEF IInv, Stashed
  <2> QED BY <2>2, <2>3
<1>13. DataReachesClient'
  <2>1. release[t] = req[t].user
    BY <1>1, <1>2, <1>3 DEF IInv, Stashed, Made
  <2> QED BY <1>1, <1>3, <2>1, Settled DEF IInv, DataReachesClient, SameRequest, t
<1> QED BY <1>6, <1>7, <1>8, <1>9, <1>10, <1>11, <1>12, <1>13, Frame
        DEF IInv

LEMMA EndsIInv ==
  ASSUME IInv, NEW r \in Req, Moves(r), Ends(r)
  PROVE  IInv'
<1> DEFINE t == req[r].token
<1>1. /\ \A q \in Req : q # r => req'[q] = req[q]
      /\ req[r].pc = "fetch" /\ req[r].op = "logout" /\ req[r].answer = "none"
      /\ SameRequest(r) /\ req'[r].answer = "plain"
      /\ sessions' = [sessions EXCEPT ![t] = None]
      /\ UNCHANGED <<cache, release>>
      /\ t \in Req
  BY Frame DEF Ends, IInv, Stages, StageOK
<1>2. /\ sessions'[t] = None
      /\ \A s \in Req : s # t => sessions'[s] = sessions[s]
      /\ sessions' \in [Req -> Users \cup {None}]
  BY <1>1 DEF IInv, TypeOK
<1>3. PICK k \in Req : /\ Has(k, t) /\ req[k].answer = "match"
                       /\ req[r].user = req[k].user
  BY <1>1 DEF IInv, LoggingOut
<1>4. \A q \in Req : Has(q, t) => q = k
  BY <1>3 DEF IInv, Taken, Has
<1>5. \A q, s \in Req : Has(q, s)' <=> Has(q, s)
  BY <1>1, SameEntries
<1>6. TypeOK'
  BY <1>1, <1>2, Frame DEF IInv, TypeOK
<1>7. Cached'
  BY <1>1, <1>5, Settled DEF IInv, Cached, TypeOK
<1>8. Taken'
  BY <1>1, SameEntries
<1> HIDE DEF t
<1>9. Added'
  BY <1>2, Settled DEF IInv, Added
<1>10. LoggingOut'
  BY <1>1, LoggingOutStays
<1>11. LogoutIsFinal'
  BY <1>1, <1>2 DEF IInv, LogoutIsFinal, SameRequest, Stages, StageOK, t
<1>12. Stashed'
  <2> SUFFICES ASSUME NEW s \in Req, req'[s].op = "login",
                      req'[s].answer = "handshake"
               PROVE  /\ (\A q \in Req : ~Has(q, s)') => cache'[s] # None
                      /\ (\A q \in Req : Has(q, s)' => req'[q].answer # "match")
                            => release'[s] = req'[s].user
    BY DEF Stashed
  <2>1. req'[s] = req[s]
    BY <1>1
  <2> QED BY <1>1, <1>5, <2>1, Settled DEF IInv, Stashed
<1>13. DataReachesClient'
  BY <1>1, Settled DEF IInv, DataReachesClient
<1> QED BY <1>6, <1>7, <1>8, <1>9, <1>10, <1>11, <1>12, <1>13, Frame
        DEF IInv

(* Removing a user leaves every request as it is. *)
LEMMA RemovedIInv ==
  ASSUME IInv, NEW u \in Users, UserRemoved(u)
  PROVE  IInv'
<1>1. /\ UNCHANGED <<req, cache, release, sessions>>
      /\ users' \in [Users -> User]
  BY RecordOK DEF UserRemoved, IInv, TypeOK
<1>2. TypeOK'
  BY <1>1 DEF IInv, TypeOK
<1>3. Stages' /\ Cached' /\ Taken' /\ Added' /\ LoggingOut' /\ Stashed'
  BY <1>1 DEF IInv, Stages, StageOK, Cached, Taken, Added, LoggingOut, Stashed,
              Made, Has
<1>4. LogoutIsFinal' /\ DataReachesClient'
  BY <1>1 DEF IInv, LogoutIsFinal, DataReachesClient
<1> QED BY <1>2, <1>3, <1>4 DEF IInv

LEMMA InitIInv == Init => IInv
<1> SUFFICES ASSUME Init PROVE IInv
  OBVIOUS
<1>1. /\ \A r \in Req : req[r] = Idle /\ cache[r] = None /\ sessions[r] = None
      /\ Idle.entry = None /\ Idle.op = "none" /\ Idle.answer = "none"
  BY RecordOK DEF Init, Idle
<1>2. TypeOK
  BY IdleOK, RecordOK DEF Init, TypeOK
<1>3. Stages
  BY <1>1, IdleOK DEF Stages
<1>4. Cached /\ Taken /\ Added /\ LoggingOut /\ Stashed
  BY <1>1 DEF Cached, Taken, Added, LoggingOut, Stashed
<1>5. LogoutIsFinal /\ DataReachesClient
  BY <1>1 DEF LogoutIsFinal, DataReachesClient
<1> QED BY <1>2, <1>3, <1>4, <1>5 DEF IInv

LEMMA NextIInv == IInv /\ [Next]_vars => IInv'
<1> SUFFICES ASSUME IInv, [Next]_vars PROVE IInv'
  OBVIOUS
<1>1. CASE \E r \in Req : Arrives(r) \/ Settles(r)
  <2>1. PICK r \in Req : Arrives(r) \/ Settles(r)
    BY <1>1
  <2>2. Moves(r)
    BY <2>1, ArrivesMoves, SettlesMoves DEF IInv, Stages
  <2> QED BY <2>2, KeepsIInv, OffersIInv, TakesIInv, AddsIInv, EndsIInv DEF Moves
<1>2. CASE \E u \in Users : UserRemoved(u)
  BY <1>2, RemovedIInv
<1>3. CASE UNCHANGED vars
  BY <1>3 DEF vars, IInv, TypeOK, Stages, StageOK, Cached, Taken, Added,
     LoggingOut, LogoutIsFinal, Stashed, DataReachesClient,
     Made, Has
<1> QED BY <1>1, <1>2, <1>3 DEF Next

-----------------------------------------------------------------------------

LEMMA IInvInvariant == Spec => []IInv
  BY InitIInv, NextIInv, PTL DEF Spec

(* Every variable has its type, for any requests and users.                *)
THEOREM SessionsTyped == Spec => []TypeOK
<1>1. IInv => TypeOK
  BY DEF IInv
<1> QED BY <1>1, IInvInvariant, PTL

(* Every session was started by the one secondary request that redeemed    *)
(* and matched the token of a login that gave its owner's password         *)
(* (user_processing.js, secondary_processing).                             *)
THEOREM EverySessionIsEarned == Spec => []SessionsAreEarned
<1>1. IInv => SessionsAreEarned
  <2> SUFFICES ASSUME IInv, NEW s \in Req, sessions[s] # None
               PROVE  /\ req[s].op = "login"
                      /\ req[s].answer = "handshake"
                      /\ req[s].user = sessions[s]
                      /\ \E r \in Req : Takers(s) = {r} /\ req[r].answer = "match"
    BY DEF SessionsAreEarned
  <2>1. PICK r \in Req : Has(r, s) /\ req[r].answer = "match"
                         /\ sessions[s] = req[r].user
    BY DEF IInv, Added
  <2>2. /\ req[r].op = "secondary" /\ req[r].token = s
        /\ req[r].entry # None /\ req[r].entry.action = "login"
        /\ req[r].user = req[r].entry.user
    BY <2>1 DEF Has, IInv, Stages, StageOK
  <2>3. Made(s, req[r].entry) /\ \A q \in Req : Has(q, s) => q = r
    BY <2>2 DEF IInv, Taken
  <2>4. Takers(s) = {r}
    BY <2>2, <2>3 DEF Takers, Has
  <2> QED BY <2>1, <2>2, <2>3, <2>4 DEF Made
<1> QED BY <1>1, IInvInvariant, PTL

(* A session that a logout has ended never comes back, whatever requests   *)
(* with its token are still on their way (general_auth.js, 'logout').      *)
THEOREM LogoutStaysFinal == Spec => []LogoutIsFinal
<1>1. IInv => LogoutIsFinal
  BY DEF IInv
<1> QED BY <1>1, IInvInvariant, PTL

(* The token of a login stays good, and its data stashed, until a request  *)
(* redeems it (session_token_manager.js).                                  *)
THEOREM UnredeemedTokenIsGood == Spec => []TokenIsGood
<1>1. IInv => TokenIsGood
  <2> SUFFICES ASSUME IInv, NEW s \in Req, req[s].op = "login",
                      req[s].answer = "handshake", Takers(s) = {}
               PROVE  cache[s] # None /\ release[s] = req[s].user
    BY DEF TokenIsGood
  <2>1. \A r \in Req : ~Has(r, s)
    BY DEF Takers, Has, IInv, Stages, StageOK
  <2> QED BY <2>1 DEF IInv, Stashed
<1> QED BY <1>1, IInvInvariant, PTL

(* A client whose session starts gets the data of its own login            *)
(* (general_auth.js, initialize_session_state).                            *)
THEOREM ClientGetsItsData == Spec => []DataReachesClient
<1>1. IInv => DataReachesClient
  BY DEF IInv
<1> QED BY <1>1, IInvInvariant, PTL

(* Logging in by two requests over the token cache keeps the contract of   *)
(* two-phase processing: a token is redeemed once, while it stands         *)
(* (user_processing.js, secondary_processing).                             *)
THEOREM SessionsKeepContract == Spec => KeepsContract
<1>1. Init => Contract!ContractInit
  <2> SUFFICES ASSUME Init PROVE Contract!ContractInit
    OBVIOUS
  <2>1. Idle.op = "none" /\ Idle.op \notin Actions
    BY DEF Idle, Actions
  <2>2. \A r \in Req : OfferOf(r) = "none" /\ WorkOf(r) = None
    BY <2>1 DEF Init, OfferOf, WorkOf
  <2> QED BY <2>2 DEF Contract!ContractInit
<1>2. ASSUME IInv, NEW r \in Req, Moves(r)
      PROVE  [Contract!ContractNext]_(Contract!contractVars)
  <2>1. /\ \A q \in Req : q # r => req'[q] = req[q]
        /\ req[r].answer = "none"
        /\ req[r].pc = "idle" => req[r].op = "none" /\ req[r].entry = None
    BY <1>2, Frame DEF Idle
  <2>2. CASE Keeps(r)
    <3>1. \A p \in Req : OfferOf(p)' = OfferOf(p)
      BY <2>1, <2>2 DEF OfferOf, Keeps, Opens, GoesOn
    <3>2. \A s \in Req : WorkOf(s)' = WorkOf(s)
      BY <2>1, <2>2 DEF WorkOf, Keeps, Opens, GoesOn, SameRequest
    <3> QED BY <3>1, <3>2 DEF Contract!contractVars
  <2>3. CASE Offers(r)
    <3> DEFINE e == [action |-> req[r].op, user |-> req[r].user]
    <3>1. /\ req[r].op \in Actions /\ req[r].user \in Users
          /\ SameRequest(r) /\ req'[r].answer = "handshake"
          /\ cache' = [cache EXCEPT ![r] = e]
      BY <1>2, <2>3 DEF IInv, Stages, StageOK, Offers, Actions, AddLocal
    <3>2. e # None
      BY <3>1, NoneAssumption DEF Entry
    <3> HIDE DEF e
    <3>3. cache'[r] # None /\ \A t \in Req : t # r => cache'[t] = cache[t]
      BY <1>2, <3>1, <3>2 DEF IInv, TypeOK
    <3>4. OfferOf(r) = "none" /\ OfferOf(r)' = "open"
      BY <2>1, <3>1, <3>3 DEF OfferOf, SameRequest
    <3>5. \A q \in Req : q # r => OfferOf(q)' = OfferOf(q)
      BY <2>1, <3>3 DEF OfferOf
    <3>6. \A s \in Req : WorkOf(s)' = WorkOf(s)
      BY <2>1, <3>1 DEF WorkOf, SameRequest
    <3>7. [q \in Req |-> OfferOf(q)]' =
            [[q \in Req |-> OfferOf(q)] EXCEPT ![r] = "open"]
      BY <3>4, <3>5
    <3> QED BY <3>4, <3>6, <3>7 DEF Contract!ContractNext, Contract!MakeOffer
  <2>4. CASE Takes(r)
    <3>1. PICK t \in Req :
            /\ req[r].pc = "idle" /\ cache[t] # None
            /\ cache' = [cache EXCEPT ![t] = None]
            /\ req'[r].op = "secondary" /\ req'[r].token = t
            /\ req'[r].entry = cache[t]
      BY <2>4 DEF Takes, FetchLocal
    <3>2. /\ cache'[t] = None /\ \A s \in Req : s # t => cache'[s] = cache[s]
          /\ cache[t] \in Entry
      BY <1>2, <3>1 DEF IInv, TypeOK
    <3>3. Made(t, cache[t]) /\ cache[t].action \in Actions
      BY <1>2, <3>1, <3>2 DEF IInv, Cached, Entry
    <3>4. t # r /\ req'[t] = req[t]
      BY <2>1, <3>3 DEF Made
    <3>5. /\ OfferOf(t) = "open" /\ OfferOf(t)' = "closed" /\ WorkOf(r) = None
          /\ WorkOf(r)' = [offer |-> t, last |-> TRUE]
      BY <2>1, <3>1, <3>2, <3>3, <3>4 DEF OfferOf, WorkOf, Made
    <3>6. \A q \in Req : q # t => OfferOf(q)' = OfferOf(q)
      BY <2>1, <3>1, <3>2 DEF OfferOf, Actions
    <3>7. \A s \in Req : s # r => WorkOf(s)' = WorkOf(s)
      BY <2>1 DEF WorkOf
    <3>8. [q \in Req |-> OfferOf(q)]' =
            [[q \in Req |-> OfferOf(q)] EXCEPT ![t] = "closed"]
      BY <3>5, <3>6
    <3>9. [s \in Req |-> WorkOf(s)]' =
            [[s \in Req |-> WorkOf(s)] EXCEPT ![r] = [offer |-> t, last |-> TRUE]]
      BY <3>5, <3>7
    <3> QED BY <3>5, <3>8, <3>9 DEF Contract!ContractNext, Contract!CloseOffer
  <2>5. CASE Adds(r) \/ Ends(r)
    <3>1. /\ SameRequest(r) /\ req'[r].answer # "handshake" /\ UNCHANGED cache
      BY <2>5 DEF Adds, Ends
    <3>2. \A p \in Req : OfferOf(p)' = OfferOf(p)
      BY <2>1, <3>1 DEF OfferOf
    <3>3. \A s \in Req : WorkOf(s)' = WorkOf(s)
      BY <2>1, <3>1 DEF WorkOf, SameRequest
    <3> QED BY <3>2, <3>3 DEF Contract!contractVars
  <2> QED BY <1>2, <2>2, <2>3, <2>4, <2>5 DEF Moves
<1>3. UNCHANGED <<req, cache>> => UNCHANGED Contract!contractVars
  BY DEF Contract!contractVars, OfferOf, WorkOf
<1>4. IInv /\ [Next]_vars => [Contract!ContractNext]_(Contract!contractVars)
  <2> SUFFICES ASSUME IInv, [Next]_vars
               PROVE  [Contract!ContractNext]_(Contract!contractVars)
    OBVIOUS
  <2>1. CASE \E r \in Req : Arrives(r) \/ Settles(r)
    BY <1>2, <2>1, ArrivesMoves, SettlesMoves DEF IInv, Stages
  <2>2. CASE (\E u \in Users : UserRemoved(u)) \/ UNCHANGED vars
    BY <1>3, <2>2 DEF UserRemoved, vars
  <2> QED BY <2>1, <2>2 DEF Next
<1> QED BY <1>1, <1>4, IInvInvariant, PTL
        DEF Spec, KeepsContract, Contract!ContractSpec
=============================================================================
