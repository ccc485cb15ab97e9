------------------------- MODULE TransitionHandling -------------------------
(***************************************************************************)
(* contractual/transition_processing.js over                               *)
(* default_storage/local_object_cache.js.                                  *)
(*                                                                         *)
(* Every request is an activation of an async handler.  Node runs the code *)
(* between two awaits without interruption, so one action is one such      *)
(* stretch, and requests interleave where a handler awaits a hook of the   *)
(* application (guard, feasible, process_transition, fetch_elements,       *)
(* finalize_transition).  A hook may answer yes, answer no, or reject.     *)
(*                                                                         *)
(* Request bodies, the elements and the response wording are abstracted:   *)
(* stored elements are identified by the request that produced them.       *)
(***************************************************************************)
CONSTANTS Req,          \* requests that may arrive
          Tokens,       \* transition tokens
          Transitions,  \* transition names
          None          \* JavaScript's undefined

VARIABLES
    call,   \* call[r]: the activation serving request r
    cache,  \* cache[t]: cache_map[t], the stored half of a transition
    tobj    \* tobj[t]: the transition object the application made for t

vars == <<call, cache, tobj>>

(* The checks of transition_handler a request has passed. *)
Checks == {"guard", "valid", "feasible", "process"}

Entry == [by : Req, transition : Transitions]

ASSUME NoneAssumption ==
    None \notin Req \cup Tokens \cup Transitions \cup Entry

TObj == [secondary : BOOLEAN, transition : Transitions \cup {None}]

Call == [path : {"none", "http", "endpoint", "ws"},
         pc : {"idle", "guard", "feasible", "process", "fetch", "finalize",
               "done"},
         transition : Transitions \cup {None},
         token : Tokens \cup {None},
         next : BOOLEAN,                  \* body.next
         checks : SUBSET Checks,
         entry : Entry \cup {None},       \* cached_transition
         promised : BOOLEAN,              \* returned: come back with the token
         outcome : {"none", "transition", "finalize", "unavailable", "rejected"}]

Idle == [path |-> "none", pc |-> "idle", transition |-> None, token |-> None,
         next |-> FALSE, checks |-> {}, entry |-> None, promised |-> FALSE,
         outcome |-> "none"]

Init ==
    /\ call = [r \in Req |-> Idle]
    /\ cache = [t \in Tokens |-> None]
    /\ tobj = [t \in Tokens |-> None]

-----------------------------------------------------------------------------
(* The cache: LocalTObjectCache. *)

AddLocal(t, entry) == [cache EXCEPT ![t] = entry]

(* Mutants: the fetch never deletes; it deletes for a `next` chunk too.    *)
FetchKeeps(t, next) == cache
FetchDrops(t, next) == [cache EXCEPT ![t] = None]

FetchLocal(t, next) == IF next THEN cache ELSE [cache EXCEPT ![t] = None]

(* Mutant: the transition's name is not taken from the cache. *)
FetchedUnnamed(c, t) == [c EXCEPT !.entry = cache[t]]

(* The activation goes on with what the cache held for t. *)
Fetched(c, t) == [c EXCEPT !.entry = cache[t],
                           !.transition = cache[t].transition]

-----------------------------------------------------------------------------
(* Control of an activation. *)

(* The activation is over; what it came to is not yet what the client sees. *)
Ends(r, c, o) == call' = [call EXCEPT ![r] = [c EXCEPT !.pc = "done",
                                                       !.outcome = o]]

Await(r, c, hook) == call' = [call EXCEPT ![r] = [c EXCEPT !.pc = hook]]

(* Mutants: the exception itself is the result; no path catches it. *)
ThrowRaw(c) == IF c.path = "endpoint" THEN "exception" ELSE "rejected"
ThrowUncaught(c) == "rejected"

(* A rejected hook: endpoint_transition catches and reports unavailable; on *)
(* the HTTP and web socket paths the rejection leaves the handler.          *)
Throw(c) == IF c.path = "endpoint" THEN "unavailable" ELSE "rejected"

(* What the client sees.  The HTTP routes send what the handler they await *)
(* returns; a rejection leaves the route too, and nothing is sent.         *)
(* app_message_handler neither awaits ws_transition nor sends its result.  *)
Replied(c) ==
    /\ c.pc = "done"
    /\ c.path # "ws"
    /\ c.outcome # "rejected"

Pass(c, names) == [c EXCEPT !.checks = @ \cup names]

-----------------------------------------------------------------------------
(* Arrivals. *)

(* transition_handler up to its first await; endpoint_transition comes here *)
(* when the body has no token.                                             *)
TransitionRequest(r, path, tr) ==
    /\ call[r].pc = "idle"
    /\ path \in {"http", "endpoint"}
    /\ Await(r, [Idle EXCEPT !.path = path, !.transition = tr], "guard")
    /\ UNCHANGED <<cache, tobj>>

(* ws_transition up to its first await. *)
WsRequest(r, tr) ==
    /\ call[r].pc = "idle"
    /\ Await(r, [Idle EXCEPT !.path = "ws", !.transition = tr], "feasible")
    /\ UNCHANGED <<cache, tobj>>

(* secondary_transition_handler: fetching the entry and matching it run in *)
(* one go, `match` being called without await.                             *)
SecondaryRequest(r, path, t, next) ==
    LET c == [Idle EXCEPT !.path = path, !.token = t, !.next = next]
    IN
    /\ call[r].pc = "idle"
    /\ path \in {"http", "endpoint"}
    /\ path = "endpoint" => t # None
    /\ \/ /\ t = None
          /\ Ends(r, c, "unavailable")
          /\ UNCHANGED cache
       \/ /\ t \in Tokens
          /\ cache' = FetchLocal(t, next)
          /\ \/ /\ cache[t] = None
                /\ Ends(r, c, "unavailable")
             \/ /\ cache[t] # None
                /\ \/ Ends(r, Fetched(c, t), "unavailable")   \* no match
                   \/ Ends(r, Fetched(c, t), Throw(c))        \* match throws
                   \/ Await(r, Fetched(c, t), "finalize")
    /\ UNCHANGED tobj

-----------------------------------------------------------------------------
(* Hooks settling. *)

(* The guard's answer and, on success, the synchronous validator. *)
GuardSettles(r) ==
    LET c == call[r] IN
    /\ c.pc = "guard"
    /\ \/ Ends(r, c, "unavailable")
       \/ Ends(r, Pass(c, {"guard"}), "unavailable")     \* not valid
       \/ Await(r, Pass(c, {"guard", "valid"}), "feasible")
       \/ Ends(r, c, Throw(c))
    /\ UNCHANGED <<cache, tobj>>

FeasibleSettles(r) ==
    LET c == call[r] IN
    /\ c.pc = "feasible"
    /\ \/ Ends(r, c, "unavailable")
       \/ Await(r, Pass(c, {"feasible"}),
                IF c.path = "ws" THEN "finalize" ELSE "process")
       \/ Ends(r, c, Throw(c))
    /\ UNCHANGED <<cache, tobj>>

(* process_transition yields nothing, or a transition object: a new one or *)
(* one the application already holds for the token.                        *)
ProcessSettles(r) ==
    LET c == call[r] IN
    /\ c.pc = "process"
    /\ \/ /\ \/ Ends(r, c, "unavailable")
             \/ Ends(r, c, Throw(c))
          /\ UNCHANGED tobj
       \/ \E t \in Tokens :
             /\ \/ /\ tobj[t] = None
                   /\ \E o \in TObj : tobj' = [tobj EXCEPT ![t] = o]
                \/ /\ tobj[t] # None
                   /\ UNCHANGED tobj
             /\ Await(r, [Pass(c, {"process"}) EXCEPT !.token = t],
                      IF tobj'[t].secondary THEN "fetch" ELSE "finalize")
    /\ UNCHANGED cache

(* fetch_elements may drop the secondary action or rename the transition.  *)
(* The handler reads the object again after the await.                     *)
FetchElementsSettles(r) ==
    LET c == call[r]
        t == c.token
    IN
    /\ c.pc = "fetch"
    /\ \/ /\ Ends(r, c, "unavailable")                   \* try .. catch
          /\ UNCHANGED <<cache, tobj>>
       \/ /\ \E o \in TObj :
                /\ o.secondary => tobj[t].secondary
                /\ tobj' = [tobj EXCEPT ![t] = o]
          /\ LET o == tobj'[t]
                 tr == IF o.transition # None THEN o.transition
                       ELSE c.transition
             IN /\ cache' = IF o.secondary
                            THEN AddLocal(t, [by |-> r, transition |-> tr])
                            ELSE cache
                /\ Ends(r, [c EXCEPT !.transition = tr,
                                       !.promised = o.secondary],
                          "transition")

(* finalize_transition yields a state, or nothing, or rejects. *)
FinalizeSettles(r) ==
    LET c == call[r] IN
    /\ c.pc = "finalize"
    /\ \/ Ends(r, c, "finalize")
       \/ Ends(r, c, "unavailable")
       \/ Ends(r, c, Throw(c))
    /\ UNCHANGED <<cache, tobj>>

-----------------------------------------------------------------------------

Arrival(r) ==
    \/ \E path \in {"http", "endpoint"}, tr \in Transitions :
          TransitionRequest(r, path, tr)
    \/ \E tr \in Transitions : WsRequest(r, tr)
    \/ \E path \in {"http", "endpoint"}, t \in Tokens \cup {None},
          next \in BOOLEAN : SecondaryRequest(r, path, t, next)

Settles(r) ==
    \/ GuardSettles(r)
    \/ FeasibleSettles(r)
    \/ ProcessSettles(r)
    \/ FetchElementsSettles(r)
    \/ FinalizeSettles(r)

Next == \E r \in Req : Arrival(r) \/ Settles(r)

Spec == Init /\ [][Next]_vars

(* The promises the application's hooks return settle. *)
FairSpec == Spec /\ \A r \in Req : WF_vars(Settles(r))

-----------------------------------------------------------------------------
(* Properties. *)

(* Every variable has its type. *)
TypeOK ==
    /\ call \in [Req -> Call]
    /\ cache \in [Tokens -> Entry \cup {None}]
    /\ tobj \in [Tokens -> TObj \cup {None}]

(* A stored transition is consumed once: no two secondary requests that    *)
(* did not ask for `next` got hold of the same one, however requests       *)
(* interleave and even when the application hands out the same token twice *)
(* (fetch_local_cache_transition).                                         *)
Consumes(s, p) ==
    call[s].entry # None /\ call[s].entry.by = p /\ ~call[s].next

ConsumedOnce ==
    \A p, s1, s2 \in Req : Consumes(s1, p) /\ Consumes(s2, p) => s1 = s2

(* What is consumed is gone: no token leads to an entry that a secondary   *)
(* request without `next` already took.                                    *)
ConsumedIsGone ==
    \A p, s \in Req :
        Consumes(s, p) =>
            \A t \in Tokens : cache[t] # None => cache[t].by # p

(* No transition reaches finalization on the strength of a token unless    *)
(* the primary request that stored it passed guard, validator, feasibility *)
(* and processing, was answered with that token, and announced the very    *)
(* transition that is now finalized.                                       *)
Vouches(p, e, t) ==
    /\ p.checks = Checks
    /\ p.promised
    /\ p.outcome = "transition"
    /\ p.token = t
    /\ p.transition = e.transition

FinalizesVetted ==
    \A s \in Req :
        call[s].pc = "finalize" \/ call[s].outcome = "finalize" =>
            \/ call[s].path = "ws" /\ call[s].checks = {"feasible"}
            \/ call[s].path # "ws" /\ call[s].checks = Checks
            \/ /\ call[s].entry # None
               /\ Vouches(call[call[s].entry.by], call[s].entry, call[s].token)
               /\ call[s].transition = call[s].entry.transition

(* A client told to come back with a token finds the transition stored     *)
(* until a client came back without `next`, or a newer promise took the    *)
(* token over: no chunk sent with `next`, no failing hook and no other     *)
(* transition takes it away.                                               *)
TakenBy(r, t) ==
    call[r].pc = "idle" /\ call'[r].token = t /\ ~call'[r].next

SupersededBy(r, t) ==
    ~call[r].promised /\ call'[r].promised /\ call'[r].token = t

PromiseKept ==
    [][\A t \in Tokens :
          cache[t] # None /\ cache'[t] # cache[t] =>
              \E r \in Req : TakenBy(r, t) \/ SupersededBy(r, t)]_vars

(* Every request of an endpoint is answered, whatever its hooks do, and an *)
(* HTTP request unless one of its own hooks rejects: nothing that happens  *)
(* to another request leaves it without an answer.  A transition over the  *)
(* web socket comes to its end, unanswered.                                *)
EveryRequestAnswered ==
    \A r \in Req :
        /\ call[r].path = "endpoint" ~> Replied(call[r])
        /\ call[r].path = "http" ~> Replied(call[r]) \/ call[r].outcome = "rejected"
        /\ call[r].path = "ws" ~> call[r].pc = "done"

(* The handlers keep the contract: an offer is open while the cache holds  *)
(* its entry, and closed once it was promised and the cache lost it.       *)
OfferOf(p) ==
    IF ~call[p].promised THEN "none"
    ELSE IF \E t \in Tokens : cache[t] # None /\ cache[t].by = p
         THEN "open" ELSE "closed"

WorkOf(s) == IF call[s].entry = None THEN None
             ELSE [offer |-> call[s].entry.by, last |-> ~call[s].next]

Contract == INSTANCE TransitionContract
                WITH offer <- [p \in Req |-> OfferOf(p)],
                     work <- [s \in Req |-> WorkOf(s)]

KeepsContract == Contract!ContractSpec
=============================================================================
