---------------------------- MODULE UserSessions ----------------------------
(***************************************************************************)
(* contractual/user_processing.js over lib/general_auth.js and             *)
(* lib/session_token_manager.js: registering, logging in by a handshake of *)
(* two requests, logging out.                                              *)
(*                                                                         *)
(* As in TransitionHandling one action is one stretch of a handler between *)
(* two awaits.  A token and the session token made with it stand for the   *)
(* login that made them, so both are named by that request.  Passwords and *)
(* matches are hooks that answer yes, answer no or reject.  User records   *)
(* are shared by reference, as both stores of the repository return them,  *)
(* so logged_in is set by the assignment, not by the update_user that      *)
(* follows it and that nobody awaits; nothing clears it again.  The        *)
(* application is taken to name a session key (_db_session_key), without   *)
(* which no session is ever added.                                         *)
(***************************************************************************)
CONSTANTS Req,      \* requests that may arrive
          Users,    \* keys of users
          None      \* JavaScript's undefined

VARIABLES
    req,        \* req[r]: the activation serving request r
    users,      \* users[u]: the stored record of user u
    cache,      \* cache[t]: cache_map[t], the cached transition
    release,    \* release[s]: release_session_data[s], by its owner
    sessions    \* sessions[s]: the owner of session s in the token store

vars == <<req, users, cache, release, sessions>>

Actions == {"login", "register"}

Entry == [action : Actions, user : Users]

ASSUME NoneAssumption == None \notin Req \cup Users \cup Entry

User == [stored : BOOLEAN, logged_in : BOOLEAN]

NoUser == [stored |-> FALSE, logged_in |-> FALSE]
NewUser == [stored |-> TRUE, logged_in |-> FALSE]

Activation ==
    [op : {"none", "login", "register", "logout", "secondary"},
     pc : {"idle", "fetch", "hash", "check", "store", "match", "add", "done"},
     user : Users \cup {None},
     token : Req \cup {None},
     entry : Entry \cup {None},     \* cached_transition
     data : Users \cup {None},      \* elements[sess_data_accessor] answered
     answer : {"none", "handshake", "plain", "refused",
               "match", "hollow", "failed", "error"}]

Idle == [op |-> "none", pc |-> "idle", user |-> None, token |-> None,
         entry |-> None, data |-> None, answer |-> "none"]

Init ==
    /\ req = [r \in Req |-> Idle]
    /\ users \in [Users -> {NoUser, NewUser}]
    /\ cache = [t \in Req |-> None]
    /\ release = [s \in Req |-> None]
    /\ sessions = [s \in Req |-> None]

Goes(r, c, pc) == req' = [req EXCEPT ![r] = [c EXCEPT !.pc = pc]]

Answer(r, c, a) == req' = [req EXCEPT ![r] = [c EXCEPT !.pc = "done",
                                                       !.answer = a]]

-----------------------------------------------------------------------------
(* Arrivals. *)

(* user_sessions_processing with 'login' or 'register', up to fetch_user.   *)
UserRequest(r, op, u) ==
    LET c == [Idle EXCEPT !.op = op, !.user = u] IN
    /\ req[r].pc = "idle"
    /\ \/ Answer(r, c, "refused")                       \* bad form
       \/ Goes(r, c, "fetch")
    /\ UNCHANGED <<users, cache, release, sessions>>

(* 'logout': a token without a session makes process_user return undefined, *)
(* on which user_sessions_processing throws.                               *)
LogoutRequest(r, t) ==
    LET c == [Idle EXCEPT !.op = "logout", !.token = t, !.user = sessions[t]]
    IN
    /\ req[r].pc = "idle"
    /\ IF sessions[t] = None THEN Answer(r, c, "refused")
                             ELSE Goes(r, c, "fetch")
    /\ UNCHANGED <<users, cache, release, sessions>>

(* Mutant: the entry stays in the cache. *)
FetchKeeps(t) == cache

FetchLocal(t) == [cache EXCEPT ![t] = None]

(* secondary_processing up to the await of match: the entry is gone even    *)
(* when the path names another action.                                     *)
SecondaryRequest(r, t, action) ==
    LET c == [Idle EXCEPT !.op = "secondary", !.token = t, !.entry = cache[t]]
    IN
    /\ req[r].pc = "idle"
    /\ cache' = FetchLocal(t)
    /\ IF cache[t] # None /\ cache[t].action = action
       THEN Goes(r, [c EXCEPT !.user = cache[t].user], "match")
       ELSE Answer(r, c, "failed")
    /\ UNCHANGED <<users, release, sessions>>

-----------------------------------------------------------------------------
(* Logging in and registering. *)

(* fetch_user settles; a body or a record without password ends here too.  *)
UserFetched(r) ==
    LET c == req[r] IN
    /\ c.op \in Actions
    /\ c.pc = "fetch"
    /\ \/ Answer(r, c, "plain")                         \* amelioration
       \/ /\ users[c.user].stored <=> c.op = "login"
          /\ Goes(r, c, "hash")
    /\ UNCHANGED <<users, cache, release, sessions>>

Hashed(r) ==
    LET c == req[r] IN
    /\ c.pc = "hash"
    /\ Goes(r, c, IF c.op = "login" THEN "check" ELSE "store")
    /\ UNCHANGED <<users, cache, release, sessions>>

(* add_local_cache_transition *)
AddLocal(t, action, u) ==
    cache' = [cache EXCEPT ![t] = [action |-> action, user |-> u]]

(* Mutant: the data is stashed only when nothing of the user's is. *)
StashOnce(s, u) == IF \E o \in Req : release[o] = u
                   THEN release ELSE [release EXCEPT ![s] = u]

(* Mutant: token and data are swapped. *)
StashToken(s, u) == [release EXCEPT ![s] = s]

(* stash_session_token *)
Stash(s, u) == [release EXCEPT ![s] = u]

(* password_check settles; loginTransitionFields and the caching follow.   *)
PasswordChecked(r) ==
    LET c == req[r] IN
    /\ c.pc = "check"
    /\ \/ /\ Answer(r, c, "plain")                      \* amelioration
          /\ UNCHANGED <<cache, release>>
       \/ /\ Answer(r, c, "handshake")
          /\ AddLocal(r, "login", c.user)
          /\ release' = Stash(r, c.user)
    /\ UNCHANGED <<users, sessions>>

(* store_user settles; the record replaces one that another registration   *)
(* stored meanwhile.  RegistrationTransitionObject decides whether the     *)
(* answer asks for a handshake; its elements never hold a session token.   *)
UserStored(r) ==
    LET c == req[r] IN
    /\ c.pc = "store"
    /\ users' = [users EXCEPT ![c.user] = NewUser]
    /\ \/ /\ Answer(r, c, "plain")
          /\ UNCHANGED cache
       \/ /\ Answer(r, c, "handshake")
          /\ AddLocal(r, "register", c.user)
    /\ UNCHANGED <<release, sessions>>

-----------------------------------------------------------------------------
(* The second half of a handshake. *)

(* Mutant: a failed match goes on. *)
MatchIgnored(r) ==
    LET c == req[r] IN
    /\ c.pc = "match"
    /\ \/ Answer(r, c, "failed")
       \/ Goes(r, c, "fetch")
    /\ UNCHANGED <<users, cache, release, sessions>>

(* match settles; unstash_session_token finds a session token only in the  *)
(* elements of a login.                                                    *)
Matched(r) ==
    LET c == req[r] IN
    /\ c.pc = "match"
    /\ \/ Answer(r, c, "failed")
       \/ /\ c.entry.action = "login"
          /\ Goes(r, c, "fetch")
    /\ UNCHANGED <<users, cache, release, sessions>>

LoggedIn(u) == [users EXCEPT ![u].logged_in = TRUE]

(* initialize_session_state: fetch_user settles.  Without a user there is  *)
(* no session, and the answer still says OK.                               *)
OwnerFetched(r) ==
    LET c == req[r] IN
    /\ c.op = "secondary"
    /\ c.pc = "fetch"
    /\ IF users[c.user].stored
       THEN users' = LoggedIn(c.user) /\ Goes(r, c, "add")
       ELSE Answer(r, c, "hollow") /\ UNCHANGED users
    /\ UNCHANGED <<cache, release, sessions>>

(* Mutant: what belongs to the user is released, not what the session has. *)
ReleasedAll(s) == [o \in Req |-> IF release[o] = release[s] THEN None
                                 ELSE release[o]]

Released(s) == [release EXCEPT ![s] = None]

(* addSession settles; the stashed data goes out with the answer.          *)
SessionAdded(r) ==
    LET c == req[r] IN
    /\ c.pc = "add"
    /\ sessions' = [sessions EXCEPT ![c.token] = c.user]
    /\ Answer(r, [c EXCEPT !.data = release[c.token]], "match")
    /\ release' = Released(c.token)
    /\ UNCHANGED <<users, cache>>

-----------------------------------------------------------------------------

(* 'logout': fetch_user settles.  Neither caller gives process_user a       *)
(* primary key, so the query names no field of a user, nobody is found and *)
(* logged_in stays as it is.  sessionCurrent is not awaited, so its        *)
(* promise is true and the session is always destroyed.                    *)
SessionDestroyed(r) ==
    LET c == req[r] IN
    /\ c.op = "logout"
    /\ c.pc = "fetch"
    /\ sessions' = [sessions EXCEPT ![c.token] = None]
    /\ Answer(r, c, "plain")
    /\ UNCHANGED <<users, cache, release>>

(* A hook rejects: user_sessions_processing catches, secondary_processing  *)
(* does not.                                                               *)
Rejected(r) ==
    /\ req[r].pc \notin {"idle", "done"}
    /\ Answer(r, req[r], IF req[r].op = "secondary" THEN "error" ELSE "refused")
    /\ UNCHANGED <<users, cache, release, sessions>>

(* The application removes a user from its database. *)
UserRemoved(u) ==
    /\ users[u].stored
    /\ users' = [users EXCEPT ![u] = NoUser]
    /\ UNCHANGED <<req, cache, release, sessions>>

Settles(r) ==
    \/ UserFetched(r) \/ Hashed(r) \/ PasswordChecked(r) \/ UserStored(r)
    \/ Matched(r) \/ OwnerFetched(r) \/ SessionAdded(r)
    \/ SessionDestroyed(r) \/ Rejected(r)

Arrives(r) ==
    \/ \E op \in Actions, u \in Users : UserRequest(r, op, u)
    \/ \E t \in Req : LogoutRequest(r, t)
    \/ \E t \in Req, action \in Actions : SecondaryRequest(r, t, action)

Next ==
    \/ \E r \in Req : Arrives(r) \/ Settles(r)
    \/ \E u \in Users : UserRemoved(u)

Spec == Init /\ [][Next]_vars

-----------------------------------------------------------------------------

(* Every variable has its type. *)
TypeOK ==
    /\ req \in [Req -> Activation]
    /\ users \in [Users -> User]
    /\ cache \in [Req -> Entry \cup {None}]
    /\ release \in [Req -> Users \cup {None}]
    /\ sessions \in [Req -> Users \cup {None}]

(* The secondary requests that got the entry of token t. *)
Takers(t) == {r \in Req : /\ req[r].op = "secondary"
                          /\ req[r].token = t
                          /\ req[r].entry # None}

(* Every session belongs to the user whose password its login gave, and    *)
(* was started by the one secondary request that redeemed and matched the  *)
(* token of that login (user_processing.js, secondary_processing).         *)
SessionsAreEarned ==
    \A s \in Req : sessions[s] # None =>
        /\ req[s].op = "login"
        /\ req[s].answer = "handshake"
        /\ req[s].user = sessions[s]
        /\ \E r \in Req : Takers(s) = {r} /\ req[r].answer = "match"

(* A session that a logout has ended never comes back, whatever requests   *)
(* with its token were still on their way (general_auth.js, 'logout').     *)
LogoutIsFinal ==
    \A r \in Req : req[r].op = "logout" /\ req[r].answer = "plain" =>
        sessions[req[r].token] = None

(* While nobody has redeemed the token of a login, the cache holds its     *)
(* transition and release_session_data holds the data of its user, whoever *)
(* else logs in or out meanwhile (session_token_manager.js).               *)
TokenIsGood ==
    \A s \in Req :
        /\ req[s].op = "login"
        /\ req[s].answer = "handshake"
        /\ Takers(s) = {}
        => cache[s] # None /\ release[s] = req[s].user

(* A client whose session has started got the data stashed for its own     *)
(* login, and never another user's or nothing (initialize_session_state).  *)
DataReachesClient ==
    \A r \in Req : req[r].answer = "match" =>
        req[r].data = req[req[r].token].user

-----------------------------------------------------------------------------
(* The handshake over the token cache keeps TransitionContract: the offer  *)
(* of a login or registration is open while its entry is cached, and a     *)
(* secondary request is the last user of the entry it got.                 *)

OfferOf(p) ==
    IF req[p].op \in Actions /\ req[p].answer = "handshake"
    THEN IF cache[p] # None THEN "open" ELSE "closed"
    ELSE "none"

WorkOf(s) ==
    IF req[s].op = "secondary" /\ req[s].entry # None
    THEN [offer |-> req[s].token, last |-> TRUE] ELSE None

Contract ==
    INSTANCE TransitionContract WITH
        offer <- [p \in Req |-> OfferOf(p)],
        work <- [s \in Req |-> WorkOf(s)]

KeepsContract == Contract!ContractSpec
=============================================================================
