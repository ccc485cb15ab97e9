---------------------- MODULE TransitionHandlingProofs ----------------------
(***************************************************************************)
(* Proofs about TransitionHandling for any set of requests, tokens and     *)
(* transition names.                                                       *)
(*                                                                         *)
(* The safety properties are not inductive: that a token is consumed once  *)
(* rests on every stored entry having exactly one home, the token of the   *)
(* primary request that made it, and on that request being over, so that   *)
(* it can never store again.  Stages says what an activation knows at each *)
(* await; Vetted carries that knowledge into the cache and from there into *)
(* the secondary requests.                                                 *)
(***************************************************************************)
EXTENDS TransitionHandling, TLAPS

(* What a request has behind it at each await of its handler. *)
StageOK(c) ==
    /\ c.pc = "idle" => c = Idle
    /\ c.pc = "guard" => c.checks = {} /\ c.path # "ws"
    /\ c.pc = "feasible" =>
          IF c.path = "ws" THEN c.checks = {} ELSE c.checks = {"guard", "valid"}
    /\ c.pc = "process" =>
          c.checks = {"guard", "valid", "feasible"} /\ c.path # "ws"
    /\ c.pc = "fetch" =>
          c.checks = Checks /\ c.path # "ws" /\ c.token \in Tokens
    /\ c.pc \in {"guard", "feasible", "process", "fetch"} =>
          c.entry = None /\ c.transition \in Transitions
    /\ c.pc = "finalize" \/ c.outcome = "finalize" =>
          \/ c.path = "ws" /\ c.checks = {"feasible"}
          \/ c.path # "ws" /\ c.checks = Checks
          \/ c.entry # None
    /\ c.promised => c.pc = "done"
    /\ c.pc # "done" => c.outcome = "none"

Stages == \A r \in Req : StageOK(call[r])

(* Every entry, stored or in the hands of a secondary request, was made by *)
(* a primary request that passed every check and is over.                  *)
Vetted ==
    /\ \A t \in Tokens : cache[t] # None => Vouches(call[cache[t].by], cache[t], t)
    /\ \A s \in Req : call[s].entry # None =>
          /\ Vouches(call[call[s].entry.by], call[s].entry, call[s].token)
          /\ call[s].transition = call[s].entry.transition

IInv ==
    /\ TypeOK
    /\ Stages
    /\ Vetted
    /\ ConsumedIsGone
    /\ ConsumedOnce

-----------------------------------------------------------------------------

(* The three things a step can do to the stored transitions, seen from the *)
(* activation r that makes it: nothing, hand an entry to r, store one.     *)
Plain(r) ==
    /\ UNCHANGED cache
    /\ ~call'[r].promised
    /\ call'[r].entry = call[r].entry
    /\ call[r].entry # None =>
          /\ call'[r].token = call[r].token
          /\ call'[r].next = call[r].next
          /\ call'[r].transition = call[r].transition

Take(r) ==
    \E t \in Tokens :
        /\ cache[t] # None
        /\ cache' = FetchLocal(t, call'[r].next)
        /\ call[r].pc = "idle"
        /\ ~call'[r].promised
        /\ call'[r].entry = cache[t]
        /\ call'[r].token = t
        /\ call'[r].transition = cache[t].transition

Store(r) ==
    \E t \in Tokens :
        /\ call[r].pc = "fetch"
        /\ cache' = AddLocal(t, [by |-> r, transition |-> call'[r].transition])
        /\ call'[r].entry = None
        /\ call'[r].promised
        /\ call'[r].outcome = "transition"
        /\ call'[r].token = t
        /\ call'[r].checks = Checks
        /\ call'[r].transition \in Transitions

Moves(r) ==
    /\ call[r].pc # "done"
    /\ call' = [call EXCEPT ![r] = call'[r]]
    /\ call'[r] \in Call
    /\ StageOK(call'[r])
    /\ tobj' \in [Tokens -> TObj \cup {None}]
    /\ Plain(r) \/ Take(r) \/ Store(r)

-----------------------------------------------------------------------------

Done(c, a) == [c EXCEPT !.pc = "done", !.outcome = a]

LEMMA IdleOK == Idle \in Call /\ StageOK(Idle)
  BY DEF Idle, Call, Checks, StageOK

(* Answering or awaiting replaces the activation of r by a known record. *)
LEMMA Answered ==
  ASSUME TypeOK, NEW r \in Req, NEW c \in Call,
         NEW a \in {"transition", "finalize", "unavailable", "rejected"},
         Ends(r, c, a)
  PROVE  /\ call' = [call EXCEPT ![r] = call'[r]]
         /\ call'[r] = Done(c, a)
         /\ call'[r] \in Call
<1>1. Done(c, a) \in Call
  BY DEF Call, Done
<1>2. call' = [call EXCEPT ![r] = Done(c, a)]
  BY DEF Ends, Done
<1> QED BY <1>1, <1>2 DEF TypeOK

LEMMA Awaited ==
  ASSUME TypeOK, NEW r \in Req, NEW c \in Call,
         NEW h \in {"guard", "feasible", "process", "fetch", "finalize"},
         Await(r, c, h)
  PROVE  /\ call' = [call EXCEPT ![r] = call'[r]]
         /\ call'[r] = [c EXCEPT !.pc = h]
         /\ call'[r] \in Call
<1>1. [c EXCEPT !.pc = h] \in Call
  BY DEF Call
<1> QED BY <1>1 DEF TypeOK, Await

(* An answer ends the activation; only these answers have preconditions.   *)
LEMMA AnswerStage ==
  ASSUME NEW c \in Call, NEW a \in {"transition", "unavailable", "rejected"}
  PROVE  /\ StageOK(Done(c, a))
         /\ Done(c, a).pc = "done"
         /\ Done(c, a).outcome = a
         /\ Done(c, a).promised = c.promised
         /\ Done(c, a).entry = c.entry
         /\ Done(c, a).token = c.token
         /\ Done(c, a).next = c.next
         /\ Done(c, a).checks = c.checks
         /\ Done(c, a).transition = c.transition
  BY DEF StageOK, Call, Done

LEMMA ArrivalMoves ==
  ASSUME TypeOK, NEW r \in Req, StageOK(call[r]), Arrival(r)
  PROVE  Moves(r)
<1>1. ASSUME NEW path \in {"http", "endpoint"}, NEW tr \in Transitions,
             TransitionRequest(r, path, tr)
      PROVE  Moves(r)
  <2> DEFINE c == [Idle EXCEPT !.path = path, !.transition = tr]
  <2>1. c \in Call /\ c.checks = {} /\ c.path = path /\ c.entry = None /\ ~c.promised
        /\ c.outcome = "none" /\ c.transition = tr
    BY IdleOK DEF Call, Idle
  <2>2. Await(r, c, "guard") /\ UNCHANGED <<cache, tobj>> /\ call[r] = Idle
    BY <1>1 DEF TransitionRequest, StageOK
  <2> HIDE DEF c
  <2>3. /\ call' = [call EXCEPT ![r] = call'[r]]
        /\ call'[r] = [c EXCEPT !.pc = "guard"]
        /\ call'[r] \in Call
    BY <2>1, <2>2, Answered, Awaited
  <2>4. StageOK(call'[r]) /\ Plain(r)
    BY <2>1, <2>2, <2>3 DEF StageOK, Plain, Call, Idle
  <2> QED BY <2>2, <2>3, <2>4 DEF Moves, TypeOK, Idle
<1>2. ASSUME NEW tr \in Transitions, WsRequest(r, tr)
      PROVE  Moves(r)
  <2> DEFINE c == [Idle EXCEPT !.path = "ws", !.transition = tr]
  <2>1. c \in Call /\ c.checks = {} /\ c.path = "ws" /\ c.entry = None /\ ~c.promised
        /\ c.outcome = "none" /\ c.transition = tr
    BY IdleOK DEF Call, Idle
  <2>2. Await(r, c, "feasible") /\ UNCHANGED <<cache, tobj>> /\ call[r] = Idle
    BY <1>2 DEF WsRequest, StageOK
  <2> HIDE DEF c
  <2>3. /\ call' = [call EXCEPT ![r] = call'[r]]
        /\ call'[r] = [c EXCEPT !.pc = "feasible"]
        /\ call'[r] \in Call
    BY <2>1, <2>2, Answered, Awaited
  <2>4. StageOK(call'[r]) /\ Plain(r)
    BY <2>1, <2>2, <2>3 DEF StageOK, Plain, Call, Idle
  <2> QED BY <2>2, <2>3, <2>4 DEF Moves, TypeOK, Idle
<1>3. ASSUME NEW path \in {"http", "endpoint"},
             NEW t \in Tokens \cup {None}, NEW next \in BOOLEAN,
             SecondaryRequest(r, path, t, next)
      PROVE  Moves(r)
  <2> DEFINE c == [Idle EXCEPT !.path = path, !.token = t, !.next = next]
             f == Fetched(c, t)
  <2>1. c \in Call /\ c.entry = None /\ ~c.promised /\ c.outcome = "none"
        /\ c.token = t /\ c.next = next /\ Throw(c) \in {"unavailable", "rejected"}
    BY IdleOK DEF Call, Idle, Throw
  <2>2. /\ call[r] = Idle
        /\ UNCHANGED tobj
        /\ \/ /\ Ends(r, c, "unavailable")
              /\ UNCHANGED cache \/ (cache[t] = None /\ cache' = FetchLocal(t, next) /\ t \in Tokens)
           \/ /\ t \in Tokens /\ cache[t] # None /\ cache' = FetchLocal(t, next)
              /\ \/ Ends(r, f, "unavailable")
                 \/ Ends(r, f, Throw(c))
                 \/ Await(r, f, "finalize")
    BY <1>3 DEF SecondaryRequest, StageOK
  <2>3. ASSUME t \in Tokens, cache[t] # None
        PROVE  /\ f \in Call /\ f.entry = cache[t] /\ f.token = t /\ f.next = next
               /\ f.transition = cache[t].transition /\ ~f.promised
               /\ f.outcome = "none"
    <3>1. cache[t] \in Entry
      BY <2>3 DEF TypeOK
    <3> HIDE DEF c
    <3> QED BY <2>1, <3>1 DEF Fetched, Call, Entry
  <2>4. t \in Tokens /\ cache[t] = None => FetchLocal(t, next) = cache
    BY DEF FetchLocal, TypeOK
  <2> HIDE DEF c, f
  <2>5. CASE Ends(r, c, "unavailable") /\ UNCHANGED cache
    <3>1. /\ call' = [call EXCEPT ![r] = call'[r]]
          /\ call'[r] = Done(c, "unavailable")
          /\ call'[r] \in Call
      BY <2>1, <2>5, Answered, Awaited
    <3>2. StageOK(call'[r])
      BY <2>1, <3>1, AnswerStage
    <3>3. Plain(r)
      BY <2>1, <2>2, <2>5, <3>1, AnswerStage DEF Plain, Idle
    <3> QED BY <2>2, <3>1, <3>2, <3>3 DEF Moves, TypeOK, Idle
  <2>6. ASSUME t \in Tokens, cache[t] # None, cache' = FetchLocal(t, next),
               NEW a \in {"transition", "unavailable", "rejected"}, Ends(r, f, a)
        PROVE  Moves(r)
    <3>1. /\ call' = [call EXCEPT ![r] = call'[r]]
          /\ call'[r] = Done(f, a)
          /\ call'[r] \in Call
      BY <2>3, <2>6, Answered
    <3>2. StageOK(call'[r])
      BY <2>3, <2>6, <3>1, AnswerStage
    <3>3. Take(r)
      BY <2>2, <2>3, <2>6, <3>1, AnswerStage DEF Take, Idle
    <3> QED BY <2>2, <3>1, <3>2, <3>3 DEF Moves, TypeOK, Idle
  <2>7. CASE /\ t \in Tokens /\ cache[t] # None /\ cache' = FetchLocal(t, next)
             /\ Await(r, f, "finalize")
    <3>1. /\ call' = [call EXCEPT ![r] = call'[r]]
          /\ call'[r] = [f EXCEPT !.pc = "finalize"]
          /\ call'[r] \in Call
      BY <2>3, <2>7, Answered, Awaited
    <3>2. StageOK(call'[r])
      BY <2>3, <2>7, <3>1 DEF StageOK, Call
    <3>3. Take(r)
      BY <2>2, <2>3, <2>7, <3>1 DEF Take, Call, Idle
    <3> QED BY <2>2, <3>1, <3>2, <3>3 DEF Moves, TypeOK, Idle
  <2> QED BY <2>1, <2>2, <2>4, <2>5, <2>6, <2>7
<1> QED BY <1>1, <1>2, <1>3 DEF Arrival

(* A hook that answers no, or rejects, ends the activation and stores      *)
(* nothing.                                                                *)
LEMMA Declined ==
  ASSUME TypeOK, NEW r \in Req, StageOK(call[r]), NEW names \in SUBSET Checks,
         call[r].pc \notin {"idle", "done"}, UNCHANGED cache,
         tobj' \in [Tokens -> TObj \cup {None}],
         NEW a \in {"unavailable", "rejected"},
         Ends(r, Pass(call[r], names), a)
  PROVE  Moves(r)
<1> DEFINE c == Pass(call[r], names)
<1>1. /\ c \in Call /\ c.entry = call[r].entry /\ c.token = call[r].token
      /\ c.next = call[r].next /\ c.transition = call[r].transition
      /\ ~c.promised
  BY DEF Pass, Call, TypeOK, StageOK
<1>2. Ends(r, c, a)
  OBVIOUS
<1> HIDE DEF c
<1>3. /\ call' = [call EXCEPT ![r] = call'[r]]
      /\ call'[r] = Done(c, a)
      /\ call'[r] \in Call
  BY <1>1, <1>2, Answered
<1>4. StageOK(call'[r])
  BY <1>1, <1>3, AnswerStage
<1>5. Plain(r)
  BY <1>1, <1>3, AnswerStage DEF Plain
<1> QED BY <1>3, <1>4, <1>5 DEF Moves

(* The same for a hook called before any check is recorded. *)
LEMMA Refused ==
  ASSUME TypeOK, NEW r \in Req, StageOK(call[r]),
         call[r].pc \notin {"idle", "done"}, UNCHANGED cache,
         tobj' \in [Tokens -> TObj \cup {None}],
         NEW a \in {"unavailable", "rejected"},
         Ends(r, call[r], a)
  PROVE  Moves(r)
<1>1. Pass(call[r], {}) = call[r]
  BY DEF Pass, Call, TypeOK
<1>2. {} \in SUBSET Checks
  OBVIOUS
<1> QED BY <1>1, <1>2, Declined

LEMMA SettlesMoves ==
  ASSUME TypeOK, NEW r \in Req, StageOK(call[r]), Settles(r)
  PROVE  Moves(r)
<1> DEFINE c == call[r]
<1>0. /\ c \in Call
      /\ Throw(c) \in {"unavailable", "rejected"}
      /\ "unavailable" \in {"unavailable", "rejected"}
      /\ tobj \in [Tokens -> TObj \cup {None}]
  BY DEF TypeOK, Throw
<1>1. CASE GuardSettles(r)
  <2>1. c.pc = "guard" /\ UNCHANGED <<cache, tobj>>
    BY <1>1 DEF GuardSettles
  <2>2. CASE Ends(r, c, "unavailable") \/ Ends(r, c, Throw(c))
    BY <1>0, <2>1, <2>2, Refused
  <2>3. CASE Ends(r, Pass(c, {"guard"}), "unavailable")
    <3>1. {"guard"} \in SUBSET Checks
      BY DEF Checks
    <3> QED BY <1>0, <2>1, <2>3, <3>1, Declined
  <2>4. CASE Await(r, Pass(c, {"guard", "valid"}), "feasible")
    <3> DEFINE d == Pass(c, {"guard", "valid"})
    <3>1. /\ d \in Call /\ d.checks = {"guard", "valid"} /\ d.path = c.path
          /\ d.entry = None /\ ~d.promised /\ d.outcome = "none" /\ c.path # "ws"
          /\ d.transition \in Transitions
      BY <1>0, <2>1 DEF Pass, Call, Checks, StageOK
    <3>2. Await(r, d, "feasible")
      BY <2>4
    <3> HIDE DEF d
    <3>3. /\ call' = [call EXCEPT ![r] = call'[r]]
          /\ call'[r] = [d EXCEPT !.pc = "feasible"]
          /\ call'[r] \in Call
      BY <3>1, <3>2, Awaited
    <3>4. StageOK(call'[r]) /\ Plain(r)
      BY <2>1, <3>1, <3>3 DEF StageOK, Plain, Call
    <3> QED BY <1>0, <2>1, <3>3, <3>4 DEF Moves
  <2> QED BY <1>1, <2>2, <2>3, <2>4 DEF GuardSettles
<1>2. CASE FeasibleSettles(r)
  <2>1. c.pc = "feasible" /\ UNCHANGED <<cache, tobj>>
    BY <1>2 DEF FeasibleSettles
  <2>2. CASE Ends(r, c, "unavailable") \/ Ends(r, c, Throw(c))
    BY <1>0, <2>1, <2>2, Refused
  <2> DEFINE d == Pass(c, {"feasible"})
  <2>3. /\ d \in Call /\ d.path = c.path /\ d.entry = None /\ ~d.promised
        /\ d.outcome = "none" /\ d.transition \in Transitions
        /\ d.checks = IF c.path = "ws" THEN {"feasible"}
                      ELSE {"guard", "valid", "feasible"}
    BY <1>0, <2>1 DEF Pass, Call, Checks, StageOK
  <2>4. CASE c.path = "ws" /\ Await(r, d, "finalize")
    <3> HIDE DEF d
    <3>1. /\ call' = [call EXCEPT ![r] = call'[r]]
          /\ call'[r] = [d EXCEPT !.pc = "finalize"]
          /\ call'[r] \in Call
      BY <2>3, <2>4, Awaited
    <3>2. StageOK(call'[r]) /\ Plain(r)
      BY <2>1, <2>3, <2>4, <3>1 DEF StageOK, Plain, Call
    <3> QED BY <1>0, <2>1, <3>1, <3>2 DEF Moves
  <2>5. CASE c.path # "ws" /\ Await(r, d, "process")
    <3> HIDE DEF d
    <3>1. /\ call' = [call EXCEPT ![r] = call'[r]]
          /\ call'[r] = [d EXCEPT !.pc = "process"]
          /\ call'[r] \in Call
      BY <2>3, <2>5, Awaited
    <3>2. StageOK(call'[r]) /\ Plain(r)
      BY <2>1, <2>3, <2>5, <3>1 DEF StageOK, Plain, Call
    <3> QED BY <1>0, <2>1, <3>1, <3>2 DEF Moves
  <2> QED BY <1>2, <2>2, <2>4, <2>5 DEF FeasibleSettles
<1>3. CASE ProcessSettles(r)
  <2>1. c.pc = "process" /\ UNCHANGED cache
    BY <1>3 DEF ProcessSettles
  <2>2. CASE UNCHANGED tobj /\ (Ends(r, c, "unavailable") \/ Ends(r, c, Throw(c)))
    BY <1>0, <2>1, <2>2, Refused
  <2>3. ASSUME NEW t \in Tokens, NEW h \in {"fetch", "finalize"},
               tobj' \in [Tokens -> TObj \cup {None}],
               Await(r, [Pass(c, {"process"}) EXCEPT !.token = t], h)
        PROVE  Moves(r)
    <3> DEFINE d == [Pass(c, {"process"}) EXCEPT !.token = t]
    <3>1. /\ d \in Call /\ d.path = c.path /\ d.entry = None /\ ~d.promised
          /\ d.outcome = "none" /\ d.checks = Checks /\ d.token = t /\ d.path # "ws"
          /\ d.transition \in Transitions
      BY <1>0, <2>1 DEF Pass, Call, Checks, StageOK
    <3>2. Await(r, d, h)
      BY <2>3
    <3> HIDE DEF d
    <3>3. CASE h = "fetch"
      <4>1. /\ call' = [call EXCEPT ![r] = call'[r]]
            /\ call'[r] = [d EXCEPT !.pc = "fetch"]
            /\ call'[r] \in Call
        BY <3>1, <3>2, <3>3, Awaited
      <4>2. StageOK(call'[r]) /\ Plain(r)
        BY <2>1, <3>1, <4>1 DEF StageOK, Plain, Call
      <4> QED BY <2>1, <2>3, <4>1, <4>2 DEF Moves
    <3>4. CASE h = "finalize"
      <4>1. /\ call' = [call EXCEPT ![r] = call'[r]]
            /\ call'[r] = [d EXCEPT !.pc = "finalize"]
            /\ call'[r] \in Call
        BY <3>1, <3>2, <3>4, Awaited
      <4>2. StageOK(call'[r]) /\ Plain(r)
        BY <2>1, <3>1, <4>1 DEF StageOK, Plain, Call
      <4> QED BY <2>1, <2>3, <4>1, <4>2 DEF Moves
    <3> QED BY <3>3, <3>4
  <2>4. \/ UNCHANGED tobj /\ (Ends(r, c, "unavailable") \/ Ends(r, c, Throw(c)))
        \/ \E t \in Tokens :
              /\ tobj' \in [Tokens -> TObj \cup {None}]
              /\ Await(r, [Pass(c, {"process"}) EXCEPT !.token = t],
                       IF tobj'[t].secondary THEN "fetch" ELSE "finalize")
    BY <1>0, <1>3 DEF ProcessSettles
  <2>5. ASSUME NEW t \in Tokens, tobj' \in [Tokens -> TObj \cup {None}],
               Await(r, [Pass(c, {"process"}) EXCEPT !.token = t],
                        IF tobj'[t].secondary THEN "fetch" ELSE "finalize")
        PROVE  Moves(r)
    <3> DEFINE h == IF tobj'[t].secondary THEN "fetch" ELSE "finalize"
    <3>1. h \in {"fetch", "finalize"} /\ Await(r, [Pass(c, {"process"}) EXCEPT !.token = t], h)
      BY <2>5
    <3> HIDE DEF h
    <3> QED BY <2>3, <2>5, <3>1
  <2> QED BY <2>2, <2>4, <2>5
<1>4. CASE FetchElementsSettles(r)
  <2> DEFINE t == c.token
  <2>1. c.pc = "fetch" /\ t \in Tokens /\ c.entry = None /\ c.checks = Checks
        /\ c.transition \in Transitions
    BY <1>4 DEF FetchElementsSettles, StageOK
  <2>2. CASE Ends(r, c, "unavailable") /\ UNCHANGED <<cache, tobj>>
    BY <1>0, <2>1, <2>2, Refused
  <2>3. ASSUME NEW o \in TObj, tobj' = [tobj EXCEPT ![t] = o],
               NEW tr \in Transitions \cup {None},
               o.secondary => tr \in Transitions,
               cache' = IF o.secondary
                        THEN AddLocal(t, [by |-> r, transition |-> tr])
                        ELSE cache,
               Ends(r, [c EXCEPT !.transition = tr, !.promised = o.secondary],
                      "transition")
        PROVE  Moves(r)
    <3> DEFINE d == [c EXCEPT !.transition = tr, !.promised = o.secondary]
    <3>1. /\ d \in Call /\ d.transition = tr /\ d.promised = o.secondary
          /\ d.entry = None /\ d.checks = Checks /\ d.token = t
      BY <1>0, <2>1, <2>3 DEF Call, TObj
    <3>2. Ends(r, d, "transition")
      BY <2>3
    <3> HIDE DEF d
    <3>3. /\ call' = [call EXCEPT ![r] = call'[r]]
          /\ call'[r] = Done(d, "transition")
          /\ call'[r] \in Call
      BY <3>1, <3>2, Answered
    <3>4. StageOK(call'[r])
      BY <3>1, <3>3, AnswerStage
    <3>5. ASSUME o.secondary PROVE Store(r)
      <4>1. /\ call'[r].entry = None /\ call'[r].promised
            /\ call'[r].outcome = "transition" /\ call'[r].token = t
            /\ call'[r].checks = Checks /\ call'[r].transition = tr
        <5>1. d.promised = TRUE
          BY <3>1, <3>5 DEF TObj
        <5>2. call'[r].promised = TRUE
          BY <3>1, <3>3, <5>1, AnswerStage
        <5> QED BY <3>1, <3>3, <5>2, AnswerStage
      <4>2. cache' = AddLocal(t, [by |-> r, transition |-> call'[r].transition])
        BY <2>3, <3>5, <4>1
      <4> QED BY <2>1, <2>3, <3>5, <4>1, <4>2 DEF Store
    <3>6. ~o.secondary => Plain(r)
      BY <2>1, <2>3, <3>1, <3>3, AnswerStage DEF Plain
    <3>7. tobj' \in [Tokens -> TObj \cup {None}]
      BY <1>0, <2>3
    <3> QED BY <2>1, <3>3, <3>4, <3>5, <3>6, <3>7 DEF Moves
  <2> QED BY <1>0, <1>4, <2>1, <2>2, <2>3 DEF FetchElementsSettles, Call, TObj
<1>5. CASE FinalizeSettles(r)
  <2>1. c.pc = "finalize" /\ UNCHANGED <<cache, tobj>>
    BY <1>5 DEF FinalizeSettles
  <2>2. CASE Ends(r, c, "unavailable") \/ Ends(r, c, Throw(c))
    BY <1>0, <2>1, <2>2, Refused
  <2>3. CASE Ends(r, c, "finalize")
    <3>1. /\ call' = [call EXCEPT ![r] = call'[r]]
          /\ call'[r] = Done(c, "finalize")
          /\ call'[r] \in Call
      BY <1>0, <2>3, Answered
    <3>2. StageOK(call'[r]) /\ Plain(r)
      BY <1>0, <2>1, <3>1 DEF Done, StageOK, Plain, Call
    <3> QED BY <1>0, <2>1, <3>1, <3>2 DEF Moves
  <2> QED BY <1>5, <2>2, <2>3 DEF FinalizeSettles
<1> QED BY <1>1, <1>2, <1>3, <1>4, <1>5 DEF Settles

-----------------------------------------------------------------------------
(* Any step is the move of one activation, or changes nothing. *)
LEMMA StepMoves ==
  ASSUME TypeOK, Stages, [Next]_vars
  PROVE  UNCHANGED vars \/ \E r \in Req : Moves(r)
BY ArrivalMoves, SettlesMoves DEF Next, Stages

(* A primary request that promised is over: no move touches it. *)
LEMMA VouchesStays ==
  ASSUME TypeOK, Stages, NEW r \in Req, Moves(r),
         NEW e \in Entry, NEW t, Vouches(call[e.by], e, t)
  PROVE  e.by # r /\ Vouches(call'[e.by], e, t)
<1>1. e.by \in Req /\ call[e.by].promised
  BY DEF Entry, Vouches
<1>2. call[e.by].pc = "done"
  BY <1>1 DEF Stages, StageOK
<1>3. e.by # r /\ call'[e.by] = call[e.by]
  BY <1>1, <1>2 DEF Moves, TypeOK
<1> QED BY <1>3

LEMMA InitIInv == Init => IInv
<1> SUFFICES ASSUME Init PROVE IInv
  OBVIOUS
<1>1. TypeOK
  BY IdleOK DEF Init, TypeOK
<1>2. Stages
  BY IdleOK DEF Init, Stages
<1>3. Vetted /\ ConsumedIsGone /\ ConsumedOnce
  BY DEF Init, Vetted, ConsumedIsGone, ConsumedOnce, Consumes, Idle
<1> QED BY <1>1, <1>2, <1>3 DEF IInv

LEMMA MoveIInv ==
  ASSUME IInv, NEW r \in Req, Moves(r)
  PROVE  IInv'
<1> USE DEF IInv
<1>0. /\ call'[r] \in Call
      /\ \A q \in Req : q # r => call'[q] = call[q]
  BY DEF Moves, TypeOK
<1>1. TypeOK'
  <2>1. call' \in [Req -> Call] /\ tobj' \in [Tokens -> TObj \cup {None}]
    BY DEF Moves, TypeOK
  <2>2. cache' \in [Tokens -> Entry \cup {None}]
    BY DEF Moves, Plain, Take, Store, FetchLocal, AddLocal, TypeOK, Entry
  <2> QED BY <2>1, <2>2 DEF TypeOK
<1>2. Stages'
  BY <1>0 DEF Moves, Stages
<1>3. Vetted'
  <2>1. ASSUME NEW t \in Tokens, cache'[t] # None
        PROVE  Vouches(call'[cache'[t].by], cache'[t], t)
    <3>1. CASE cache'[t] = cache[t]
      BY <2>1, <3>1, VouchesStays DEF Vetted, TypeOK
    <3>2. CASE cache'[t] # cache[t]
      <4>1. Store(r) /\ call'[r].token = t
            /\ cache'[t] = [by |-> r, transition |-> call'[r].transition]
        BY <2>1, <3>2 DEF Moves, Plain, Take, Store, FetchLocal, AddLocal, TypeOK
      <4> QED BY <4>1 DEF Store, Vouches
    <3> QED BY <3>1, <3>2
  <2>2. ASSUME NEW s \in Req, call'[s].entry # None
        PROVE  /\ Vouches(call'[call'[s].entry.by], call'[s].entry, call'[s].token)
               /\ call'[s].transition = call'[s].entry.transition
    <3>1. CASE \E q \in Req : /\ call[q].entry = call'[s].entry
                            /\ call[q].token = call'[s].token
                            /\ call[q].transition = call'[s].transition
      <4>1. PICK q \in Req : /\ call[q].entry = call'[s].entry
                            /\ call[q].token = call'[s].token
                            /\ call[q].transition = call'[s].transition
        BY <3>1
      <4>2. call'[s].entry \in Entry
        BY <2>2, <4>1 DEF TypeOK, Call
      <4> QED BY <2>2, <4>1, <4>2, VouchesStays DEF Vetted
    <3>2. CASE s # r
      BY <1>0, <3>1, <3>2
    <3>3. CASE s = r /\ Take(r)
      <4>1. PICK t \in Tokens : /\ cache[t] # None
                               /\ call'[r].entry = cache[t]
                               /\ call'[r].token = t
                               /\ call'[r].transition = cache[t].transition
        BY <3>3 DEF Take
      <4>2. cache[t] \in Entry /\ Vouches(call[cache[t].by], cache[t], t)
        BY <4>1 DEF Vetted, TypeOK
      <4> QED BY <3>3, <4>1, <4>2, VouchesStays
    <3>4. CASE s = r /\ Plain(r)
      BY <2>2, <3>1, <3>4 DEF Plain
    <3>5. CASE s = r /\ Store(r)
      BY <2>2, <3>5 DEF Store
    <3> QED BY <3>2, <3>3, <3>4, <3>5 DEF Moves
  <2> QED BY <2>1, <2>2 DEF Vetted
<1>4. ASSUME NEW p \in Req, NEW s \in Req, Consumes(s, p)'
      PROVE  \/ Consumes(s, p) /\ s # r
             \/ /\ s = r
                /\ \E t \in Tokens : /\ cache[t] # None /\ cache[t].by = p
                                     /\ cache' = [cache EXCEPT ![t] = None]
             \/ Consumes(s, p) /\ s = r /\ UNCHANGED cache
  BY <1>0, <1>4 DEF Moves, Plain, Take, Store, Consumes, FetchLocal
(* An entry has one home: the token its primary request was answered with. *)
<1>5. \A t1, t2 \in Tokens :
        cache[t1] # None /\ cache[t2] # None /\ cache[t1].by = cache[t2].by
          => t1 = t2
  BY DEF Vetted, Vouches
<1>6. ConsumedIsGone'
  <2> SUFFICES ASSUME NEW p \in Req, NEW s \in Req, Consumes(s, p)',
                      NEW u \in Tokens, cache'[u] # None, cache'[u].by = p
               PROVE  FALSE
    BY DEF ConsumedIsGone
  <2>1. CASE Store(r) /\ cache'[u] # cache[u]
    <3>1. p = r /\ ~call[r].promised
      BY <2>1 DEF Store, AddLocal, TypeOK, Stages, StageOK
    <3>2. Consumes(s, p)
      <4>1. s # r
        BY <2>1 DEF Store, Consumes
      <4> QED BY <1>4, <4>1
    <3>3. call[s].entry \in Entry /\ Vouches(call[p], call[s].entry, call[s].token)
      BY <3>2 DEF Consumes, Vetted, TypeOK, Call
    <3> QED BY <3>1, <3>3 DEF Vouches
  <2>2. CASE cache'[u] = cache[u]
    <3>1. CASE Consumes(s, p)
      BY <2>2, <3>1 DEF ConsumedIsGone
    <3>2. CASE \E t \in Tokens : /\ cache[t] # None /\ cache[t].by = p
                                /\ cache' = [cache EXCEPT ![t] = None]
      BY <1>5, <2>2, <3>2 DEF TypeOK
    <3> QED BY <1>4, <3>1, <3>2
  <2>3. cache'[u] = cache[u] \/ Store(r)
    BY DEF Moves, Plain, Take, FetchLocal, TypeOK
  <2> QED BY <2>1, <2>2, <2>3
<1>7. ConsumedOnce'
  <2> SUFFICES ASSUME NEW p \in Req, NEW s1 \in Req, NEW s2 \in Req,
                      Consumes(s1, p)', Consumes(s2, p)', s1 # s2
               PROVE  FALSE
    BY DEF ConsumedOnce
  <2>1. \/ Consumes(s1, p) /\ Consumes(s2, p)
        \/ \E s \in {s1, s2}, t \in Tokens :
              Consumes(s, p) /\ cache[t] # None /\ cache[t].by = p
    BY <1>4
  <2> QED BY <2>1 DEF ConsumedOnce, ConsumedIsGone
<1> QED BY <1>1, <1>2, <1>3, <1>6, <1>7

LEMMA NextIInv == IInv /\ [Next]_vars => IInv'
<1> SUFFICES ASSUME IInv, [Next]_vars PROVE IInv'
  OBVIOUS
<1>1. CASE UNCHANGED vars
  BY <1>1 DEF vars, IInv, TypeOK, Stages, Vetted, ConsumedIsGone,
              ConsumedOnce, Consumes
<1>2. CASE \E r \in Req : Moves(r)
  BY <1>2, MoveIInv
<1> QED BY <1>1, <1>2, StepMoves DEF IInv

LEMMA IInvInvariant == Spec => []IInv
BY InitIInv, NextIInv, PTL DEF Spec

-----------------------------------------------------------------------------
(* The variables keep their types. *)
THEOREM TypeCorrect == Spec => []TypeOK
<1>1. IInv => TypeOK
  BY DEF IInv
<1> QED BY <1>1, IInvInvariant, PTL

(* However requests interleave and whatever tokens the application hands   *)
(* out, what a secondary request consumes no other one consumes, and it is *)
(* gone from the cache.                                                    *)
THEOREM ConsumptionIsUnique == Spec => [](ConsumedOnce /\ ConsumedIsGone)
<1>1. IInv => ConsumedOnce /\ ConsumedIsGone
  BY DEF IInv
<1> QED BY <1>1, IInvInvariant, PTL

(* No transition is finalized unless the request, or the primary request   *)
(* whose stored transition it finalizes, passed the checks of its path.    *)
THEOREM OnlyVettedFinalize == Spec => []FinalizesVetted
<1>1. IInv => FinalizesVetted
  BY DEF IInv, Stages, StageOK, Vetted, FinalizesVetted
<1> QED BY <1>1, IInvInvariant, PTL

(* What a client was told to come back for stays stored until a client     *)
(* comes back without `next` or a newer promise takes the token over.      *)
THEOREM PromisesAreKept == Spec => PromiseKept
<1> DEFINE Kept == \A t \in Tokens :
                     cache[t] # None /\ cache'[t] # cache[t] =>
                       \E r \in Req : TakenBy(r, t) \/ SupersededBy(r, t)
<1>1. ASSUME IInv, NEW r \in Req, Moves(r), NEW t \in Tokens,
             cache'[t] # cache[t]
      PROVE  TakenBy(r, t) \/ SupersededBy(r, t)
  <2>1. cache \in [Tokens -> Entry \cup {None}] /\ ~call[r].promised
    BY <1>1 DEF IInv, TypeOK, Moves, Stages, StageOK
  <2>2. CASE Take(r)
    BY <1>1, <2>1, <2>2 DEF Take, FetchLocal, TakenBy
  <2>3. CASE Store(r)
    BY <1>1, <2>1, <2>3 DEF Store, AddLocal, SupersededBy
  <2> QED BY <1>1, <2>2, <2>3 DEF Moves, Plain
<1>2. IInv /\ [Next]_vars => [Kept]_vars
  BY <1>1, StepMoves DEF IInv
<1> QED BY <1>2, IInvInvariant, PTL DEF Spec, PromiseKept

-----------------------------------------------------------------------------
(* Every step of the handlers is a step of the contract or leaves it       *)
(* alone: a promise opens an offer and may supersede one, a secondary      *)
(* request gets hold of an open offer and closes it unless it says `next`. *)
THEOREM HandlersKeepContract == Spec => KeepsContract
<1>1. Init => Contract!ContractInit
  BY DEF Init, Contract!ContractInit, OfferOf, WorkOf, Idle
<1>2. ASSUME IInv, NEW r \in Req, Moves(r)
      PROVE  Contract!ContractNext \/ UNCHANGED Contract!contractVars
  <2>0. /\ \A q \in Req : q # r => call'[q] = call[q]
        /\ ~call[r].promised
        /\ call[r].pc # "done"
    BY <1>2 DEF IInv, Moves, TypeOK, Stages, StageOK
  (* An entry has one home, and the request that made it promised.         *)
  <2>1. /\ \A t \in Tokens : cache[t] # None =>
              /\ cache[t].by \in Req
              /\ call[cache[t].by].promised
              /\ call[cache[t].by].token = t
              /\ OfferOf(cache[t].by) = "open"
              /\ cache[t].by # r
        /\ \A s \in Req : call[s].entry # None => call[s].entry.by \in Req
    BY <1>2, <2>0 DEF IInv, Vetted, Vouches, OfferOf, TypeOK, Entry, Call
  <2>2. CASE Plain(r)
    <3>1. \A p \in Req : OfferOf(p)' = OfferOf(p)
      BY <2>0, <2>2 DEF OfferOf, Plain
    <3>2. \A s \in Req : WorkOf(s)' = WorkOf(s)
      BY <2>0, <2>2 DEF WorkOf, Plain
    <3> QED BY <3>1, <3>2 DEF Contract!contractVars
  <2>3. CASE Take(r)
    <3>1. PICK t \in Tokens :
             /\ cache[t] # None
             /\ cache' = FetchLocal(t, call'[r].next)
             /\ call[r].pc = "idle"
             /\ ~call'[r].promised
             /\ call'[r].entry = cache[t]
      BY <2>3 DEF Take
    <3>0. PICK p \in Req : p = cache[t].by
      BY <2>1, <3>1
    <3>2. call[r].entry = None
      BY <1>2, <3>1 DEF IInv, Stages, StageOK, Idle
    <3>3. p \in Req /\ OfferOf(p) = "open" /\ WorkOf(r) = None
      BY <2>1, <3>0, <3>1, <3>2 DEF WorkOf
    <3>4. [s \in Req |-> WorkOf(s)]' =
            [[s \in Req |-> WorkOf(s)] EXCEPT
               ![r] = [offer |-> p, last |-> ~call'[r].next]]
      BY <2>0, <3>0, <3>1, <2>1 DEF WorkOf
    <3>5. CASE call'[r].next
      <4>1. cache' = cache
        BY <3>1, <3>5 DEF FetchLocal
      <4>2. \A q \in Req : OfferOf(q)' = OfferOf(q)
        BY <2>0, <3>1, <4>1 DEF OfferOf
      <4>3. [s \in Req |-> WorkOf(s)]' =
              [[s \in Req |-> WorkOf(s)] EXCEPT
                 ![r] = [offer |-> p, last |-> FALSE]]
        BY <1>2, <3>4, <3>5 DEF Moves, Call
      <4> QED BY <3>3, <4>2, <4>3 DEF Contract!ContractNext, Contract!UseOffer
    <3>6. CASE ~call'[r].next
      <4>1. cache' = [cache EXCEPT ![t] = None]
        BY <3>1, <3>6 DEF FetchLocal
      <4>2. \A u \in Tokens : u # t /\ cache[u] # None => cache[u].by # p
        BY <2>1, <3>0, <3>1
      <4>3. \A q \in Req : OfferOf(q)' = IF q = p THEN "closed" ELSE OfferOf(q)
        BY <1>2, <2>0, <2>1, <3>0, <3>1, <4>1, <4>2 DEF OfferOf, IInv, TypeOK
      <4>4. [q \in Req |-> OfferOf(q)]' =
              [[q \in Req |-> OfferOf(q)] EXCEPT ![p] = "closed"]
        BY <4>3
      <4>5. [s \in Req |-> WorkOf(s)]' =
              [[s \in Req |-> WorkOf(s)] EXCEPT
                 ![r] = [offer |-> p, last |-> TRUE]]
        BY <1>2, <3>4, <3>6 DEF Moves, Call
      <4> QED BY <3>3, <4>4, <4>5 DEF Contract!ContractNext, Contract!CloseOffer
    <3> QED BY <3>5, <3>6
  <2>4. CASE Store(r)
    <3>1. PICK t \in Tokens :
             /\ call[r].pc = "fetch"
             /\ cache' = [cache EXCEPT ![t] = [by |-> r, transition |-> call'[r].transition]]
             /\ call'[r].entry = None
             /\ call'[r].promised
             /\ call'[r].transition \in Transitions
      BY <2>4 DEF Store, AddLocal
    <3>2. call[r].entry = None /\ OfferOf(r) = "none"
      BY <1>2, <2>0, <3>1 DEF IInv, Stages, StageOK, OfferOf
    <3>3. [s \in Req |-> WorkOf(s)]' = [s \in Req |-> WorkOf(s)]
      BY <2>0, <3>1, <3>2 DEF WorkOf
    <3>4. /\ cache'[t].by = r /\ cache'[t] # None
          /\ \A u \in Tokens : u # t => cache'[u] = cache[u]
      BY <1>2, <3>1, NoneAssumption DEF IInv, TypeOK, Store, Entry
    <3>5. OfferOf(r)' = "open"
      BY <3>1, <3>4 DEF OfferOf
    <3>6. ASSUME NEW q \in Req, q # r, cache[t] = None \/ cache[t].by # q
          PROVE  OfferOf(q)' = OfferOf(q)
      BY <2>0, <3>4, <3>6 DEF OfferOf
    <3>7. CASE cache[t] = None
      <4>1. [q \in Req |-> OfferOf(q)]' =
              [[q \in Req |-> OfferOf(q)] EXCEPT ![r] = "open"]
        BY <3>5, <3>6, <3>7
      <4> QED BY <3>2, <3>3, <4>1 DEF Contract!ContractNext, Contract!MakeOffer
    <3>8. CASE cache[t] # None
      <4>0. PICK old \in Req : old = cache[t].by
        BY <2>1, <3>8
      <4>1. old \in Req \ {r} /\ OfferOf(old) = "open"
        BY <2>1, <3>8, <4>0
      <4>2. OfferOf(old)' = "closed"
        <5>1. call'[old] = call[old] /\ call[old].promised
          BY <2>0, <2>1, <3>8, <4>0, <4>1
        <5>2. ASSUME NEW u \in Tokens, cache'[u] # None, cache'[u].by = old
              PROVE  FALSE
          <6>1. u # t
            BY <3>4, <4>1, <5>2
          <6>2. cache[u] # None /\ cache[u].by = old
            BY <3>4, <5>2, <6>1
          <6>3. call[old].token = u /\ call[old].token = t
            BY <2>1, <3>1, <3>8, <4>0, <6>2
          <6> QED BY <6>1, <6>3
        <5> QED BY <5>1, <5>2 DEF OfferOf
      <4>3. [q \in Req |-> OfferOf(q)]' =
              [[q \in Req |-> OfferOf(q)] EXCEPT ![r] = "open", ![old] = "closed"]
        <5>1. \A q \in Req \ {r, old} : OfferOf(q)' = OfferOf(q)
          BY <3>6, <4>0
        <5> QED BY <3>5, <4>1, <4>2, <5>1
      <4> QED BY <3>2, <3>3, <4>1, <4>3
              DEF Contract!ContractNext, Contract!MakeOffer
    <3> QED BY <3>7, <3>8
  <2> QED BY <1>2, <2>2, <2>3, <2>4 DEF Moves
<1>3. UNCHANGED vars => UNCHANGED Contract!contractVars
  BY DEF vars, Contract!contractVars, OfferOf, WorkOf
<1>4. IInv /\ [Next]_vars => [Contract!ContractNext]_(Contract!contractVars)
  BY <1>2, <1>3, StepMoves DEF IInv
<1> QED BY <1>1, <1>4, IInvInvariant, PTL
        DEF Spec, KeepsContract, Contract!ContractSpec
=============================================================================
