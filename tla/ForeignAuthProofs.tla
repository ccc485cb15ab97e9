--------------------------- MODULE ForeignAuthProofs ---------------------------
(***************************************************************************)
(* The bound on attempts at a provider, for every set of strategies, users *)
(* and tokens and every maximum above one.                                 *)
(***************************************************************************)
EXTENDS ForeignAuth, TLAPS

Shape ==
    /\ attempts \in [Strategies -> [UserKeys -> Attempt \cup {None}]]
    /\ sent \in [Strategies -> [UserKeys -> Nat]]

(* The counter of the entry never falls behind the number of times the     *)
(* user was sent away; without an entry nobody was.                        *)
Counted ==
    \A s \in Strategies, u \in UserKeys :
        IF attempts[s][u] = None THEN sent[s][u] = 0
        ELSE sent[s][u] <= attempts[s][u].attempt

IInv == Shape /\ Counted /\ SentFewerThanMax

-----------------------------------------------------------------------------
(* The initial state: no entries, nobody sent. *)
LEMMA InitCounted == ForeignInit => IInv
  BY ForeignAssumption DEF ForeignInit, Per, IInv, Shape, Counted, SentFewerThanMax

(* The first /start: one attempt, sent once. *)
LEMMA FirstStartCounts ==
  ASSUME IInv,
         NEW s \in Strategies, NEW u \in UserKeys, NEW t \in Tokens,
         StartsFirst(s, u, t)
  PROVE  IInv'
<1> DEFINE new == NewAttempt(t)
<1>1. new \in Attempt /\ new.attempt = 1 /\ new # None
  <2>1. new \in Attempt /\ new.attempt = 1
    BY DEF NewAttempt, Attempt
  <2> QED BY <2>1, ForeignAssumption
<1>2. /\ attempts' = [attempts EXCEPT ![s][u] = new]
      /\ sent' = [sent EXCEPT ![s][u] = @ + 1]
      /\ sent[s][u] = 0
  BY DEF StartsFirst, SentAway, IInv, Counted
<1> HIDE DEF new
<1>3. Shape'
  BY <1>1, <1>2 DEF IInv, Shape
<1>4. ASSUME NEW x \in Strategies, NEW y \in UserKeys
      PROVE  /\ IF attempts'[x][y] = None THEN sent'[x][y] = 0
                ELSE sent'[x][y] <= attempts'[x][y].attempt
             /\ sent'[x][y] < AttemptsMax
  <2>1. CASE x = s /\ y = u
    BY <1>1, <1>2, <2>1, ForeignAssumption DEF IInv, Shape
  <2>2. CASE ~(x = s /\ y = u)
    <3>1. attempts'[x][y] = attempts[x][y] /\ sent'[x][y] = sent[x][y]
      BY <1>2, <2>2 DEF IInv, Shape
    <3> QED BY <3>1 DEF IInv, Counted, SentFewerThanMax
  <2> QED BY <2>1, <2>2
<1> QED BY <1>3, <1>4 DEF IInv, Counted, SentFewerThanMax

(* A later /start: counted, and sent away only below the maximum. *)
LEMMA LaterStartCounts ==
  ASSUME IInv,
         NEW s \in Strategies, NEW u \in UserKeys, StartsAgain(s, u)
  PROVE  IInv'
<1> DEFINE a == attempts[s][u]
           b == [a EXCEPT !.attempt = @ + 1]
<1>1. /\ a \in Attempt /\ a # None
      /\ sent[s][u] \in Nat
      /\ sent[s][u] <= a.attempt
      /\ sent[s][u] < AttemptsMax
  BY DEF StartsAgain, IInv, Shape, Counted, SentFewerThanMax
<1>2. b \in Attempt /\ b.attempt = a.attempt + 1 /\ b # None
  BY <1>1, ForeignAssumption DEF Attempt
<1>3. attempts' = [attempts EXCEPT ![s][u] = b]
  BY DEF StartsAgain
<1>4. \/ a.attempt + 1 < AttemptsMax /\ sent' = [sent EXCEPT ![s][u] = @ + 1]
      \/ sent' = sent
  BY DEF StartsAgain, MayTry, SentAway, Shown
<1>5. a.attempt \in Nat /\ AttemptsMax \in Nat
  BY <1>1, ForeignAssumption DEF Attempt
<1> HIDE DEF a, b
<1>6. Shape'
  <2>1. attempts' \in [Strategies -> [UserKeys -> Attempt \cup {None}]]
    BY <1>2, <1>3 DEF IInv, Shape
  <2>2. sent' \in [Strategies -> [UserKeys -> Nat]]
    <3>1. sent \in [Strategies -> [UserKeys -> Nat]] /\ sent[s][u] + 1 \in Nat
      BY <1>1 DEF IInv, Shape
    <3>2. CASE sent' = [sent EXCEPT ![s][u] = @ + 1]
      BY <3>1, <3>2
    <3> QED BY <1>4, <3>1, <3>2
  <2> QED BY <2>1, <2>2 DEF Shape
<1>7. ASSUME NEW x \in Strategies, NEW y \in UserKeys
      PROVE  /\ IF attempts'[x][y] = None THEN sent'[x][y] = 0
                ELSE sent'[x][y] <= attempts'[x][y].attempt
             /\ sent'[x][y] < AttemptsMax
  <2>1. CASE x = s /\ y = u
    <3>1. attempts'[s][u] = b
      BY <1>3 DEF IInv, Shape
    <3>2. \/ a.attempt + 1 < AttemptsMax /\ sent'[s][u] = sent[s][u] + 1
          \/ sent'[s][u] = sent[s][u]
      BY <1>4 DEF IInv, Shape
    <3> QED BY <1>1, <1>2, <1>5, <2>1, <3>1, <3>2
  <2>2. CASE ~(x = s /\ y = u)
    <3>1. attempts'[x][y] = attempts[x][y] /\ sent'[x][y] = sent[x][y]
      BY <1>3, <1>4, <2>2 DEF IInv, Shape
    <3> QED BY <3>1 DEF IInv, Counted, SentFewerThanMax
  <2> QED BY <2>1, <2>2
<1> QED BY <1>6, <1>7 DEF IInv, Counted, SentFewerThanMax

(* A callback logs one address in: its counters start again. *)
LEMMA CallbackResets ==
  ASSUME IInv,
         NEW s \in Strategies, NEW u \in UserKeys, NEW emails \in SUBSET UserKeys,
         CallsBack(s, u, emails)
  PROVE  IInv'
<1>1. PICK e \in Started(s, emails) :
          /\ attempts' = [attempts EXCEPT ![s][e] = Admits(@)]
          /\ sent' = [sent EXCEPT ![s][e] = 0]
  BY DEF CallsBack
<1>2. e \in UserKeys /\ attempts[s][e] \in Attempt
  BY DEF Started, IInv, Shape
<1> DEFINE b == Admits(attempts[s][e])
<1>3. b \in Attempt /\ b.attempt = 1 /\ b # None
  <2>1. b \in Attempt /\ b.attempt = 1
    BY <1>2 DEF Admits, Attempt
  <2> QED BY <2>1, ForeignAssumption
<1>4. attempts' = [attempts EXCEPT ![s][e] = b]
  BY <1>1
<1> HIDE DEF b
<1>5. Shape'
  BY <1>1, <1>2, <1>3, <1>4 DEF IInv, Shape
<1>6. ASSUME NEW x \in Strategies, NEW y \in UserKeys
      PROVE  /\ IF attempts'[x][y] = None THEN sent'[x][y] = 0
                ELSE sent'[x][y] <= attempts'[x][y].attempt
             /\ sent'[x][y] < AttemptsMax
  <2>1. CASE x = s /\ y = e
    BY <1>1, <1>2, <1>3, <1>4, <2>1, ForeignAssumption DEF IInv, Shape
  <2>2. CASE ~(x = s /\ y = e)
    <3>1. attempts'[x][y] = attempts[x][y] /\ sent'[x][y] = sent[x][y]
      BY <1>1, <1>2, <1>4, <2>2 DEF IInv, Shape
    <3> QED BY <3>1 DEF IInv, Counted, SentFewerThanMax
  <2> QED BY <2>1, <2>2
<1> QED BY <1>5, <1>6 DEF IInv, Counted, SentFewerThanMax

-----------------------------------------------------------------------------
(* foreign_auth.js: however starts, callbacks and restarts interleave, a   *)
(* user is sent to a provider fewer than foreign_attempts_max times        *)
(* without a login there.                                                  *)
THEOREM AttemptsAreLimited == ForeignSpec => []SentFewerThanMax
<1>1. ForeignInit => IInv
  BY InitCounted
<1>2. IInv /\ [ForeignNext]_foreignVars => IInv'
  <2> SUFFICES ASSUME IInv, [ForeignNext]_foreignVars PROVE IInv'
    OBVIOUS
  <2>1. ASSUME NEW s \in Strategies, NEW u \in UserKeys, NEW t \in Tokens,
               StartsFirst(s, u, t)
        PROVE  IInv'
    BY <2>1, FirstStartCounts
  <2>2. ASSUME NEW s \in Strategies, NEW u \in UserKeys, StartsAgain(s, u)
        PROVE  IInv'
    BY <2>2, LaterStartCounts
  <2>3. ASSUME NEW s \in Strategies, NEW u \in UserKeys,
               NEW emails \in SUBSET UserKeys, CallsBack(s, u, emails)
        PROVE  IInv'
    BY <2>3, CallbackResets
  <2>4. CASE UNCHANGED <<attempts, sent>>
    BY <2>4 DEF IInv, Shape, Counted, SentFewerThanMax
  <2>5. CASE attempts' = Per(None) /\ sent' = Per(0)
    BY <2>5, ForeignAssumption DEF IInv, Shape, Counted, SentFewerThanMax, Per
  <2>6. ASSUME NEW t \in Tokens, Reports(t) \/ ReportFails(t)
        PROVE  IInv'
    BY <2>4, <2>5, <2>6 DEF Reports, ReportFails
  <2>7. ASSUME NEW s \in Strategies, NEW u \in UserKeys, ComesToNothing(s, u)
        PROVE  IInv'
    BY <2>4, <2>7 DEF ComesToNothing
  <2>8. CASE UNCHANGED foreignVars
    BY <2>4, <2>8 DEF foreignVars
  <2> QED BY <2>1, <2>2, <2>3, <2>6, <2>7, <2>8 DEF ForeignNext
<1>3. IInv => SentFewerThanMax
  BY DEF IInv
<1> QED BY <1>1, <1>2, <1>3, PTL DEF ForeignSpec

-----------------------------------------------------------------------------
(* The types, for the instances that check this module with others.        *)
Places == [Strategies -> [UserKeys -> 0 .. MaxAway]]

TypeInv ==
    /\ Shape
    /\ away \in Places
    /\ ForeignTypeOK

LEMMA InitTyped == ForeignInit => TypeInv
<1> SUFFICES ASSUME ForeignInit PROVE TypeInv
  OBVIOUS
<1>1. 0 \in 0 .. MaxAway
  BY ForeignAssumption
<1> QED BY <1>1, ForeignAssumption
           DEF ForeignInit, Per, TypeInv, Places, Shape, ForeignTypeOK

(* Browsers come and go within the bound. *)
LEMMA AwayTyped ==
  ASSUME TypeInv, NEW s \in Strategies, NEW u \in UserKeys,
         NEW n \in 0 .. MaxAway, away' = [away EXCEPT ![s][u] = n]
  PROVE  away' \in Places
BY DEF TypeInv, Places

(* An entry written with a type leaves all entries typed. *)
LEMMA EntryTyped ==
  ASSUME TypeInv, NEW s \in Strategies, NEW u \in UserKeys, NEW a \in Attempt,
         a.attempt \in 1 .. AttemptsMax + 1,
         attempts' = [attempts EXCEPT ![s][u] = a],
         sent' \in [Strategies -> [UserKeys -> Nat]],
         away' \in Places, reports' \subseteq Tokens
  PROVE  TypeInv'
<1>1. attempts' \in [Strategies -> [UserKeys -> Attempt \cup {None}]]
  BY DEF TypeInv, Shape
<1>2. a.token \in Tokens /\ a.logged_in \in BOOLEAN
  BY DEF Attempt
<1>3. ASSUME NEW x \in Strategies, NEW y \in UserKeys, attempts'[x][y] # None
      PROVE  /\ attempts'[x][y].token \in Tokens
             /\ attempts'[x][y].attempt \in 1 .. AttemptsMax + 1
             /\ attempts'[x][y].logged_in \in BOOLEAN
  <2>1. CASE x = s /\ y = u
    <3>1. attempts'[x][y] = a
      BY <2>1 DEF TypeInv, Shape
    <3> QED BY <1>2, <3>1
  <2>2. CASE ~(x = s /\ y = u)
    <3>1. attempts'[x][y] = attempts[x][y]
      BY <2>2 DEF TypeInv, Shape
    <3> QED BY <1>3, <3>1 DEF TypeInv, ForeignTypeOK
  <2> QED BY <2>1, <2>2
<1>4. \A x \in Strategies, y \in UserKeys :
         away'[x][y] \in 0 .. MaxAway /\ sent'[x][y] \in Nat
  BY DEF Places
<1> QED BY <1>1, <1>3, <1>4 DEF TypeInv, Shape, ForeignTypeOK

(* Starts and callbacks write typed entries. *)
LEMMA StartsTyped ==
  ASSUME TypeInv, NEW s \in Strategies, NEW u \in UserKeys,
         (\E t \in Tokens : StartsFirst(s, u, t)) \/ StartsAgain(s, u)
  PROVE  TypeInv'
<1>1. ASSUME SentAway(s, u)
      PROVE  away' \in Places /\ sent' \in [Strategies -> [UserKeys -> Nat]]
  <2> DEFINE n == away[s][u] + 1
  <2>1. n \in 0 .. MaxAway
    BY <1>1, ForeignAssumption DEF SentAway, TypeInv, Places
  <2>2. away' = [away EXCEPT ![s][u] = n] /\ sent' = [sent EXCEPT ![s][u] = @ + 1]
    BY <1>1 DEF SentAway
  <2> HIDE DEF n
  <2>3. away' \in Places
    BY <2>1, <2>2, AwayTyped
  <2>4. sent' \in [Strategies -> [UserKeys -> Nat]]
    BY <2>2 DEF TypeInv, Shape
  <2> QED BY <2>3, <2>4
<1>2. ASSUME Shown
      PROVE  away' \in Places /\ sent' \in [Strategies -> [UserKeys -> Nat]]
  BY <1>2 DEF Shown, TypeInv, Shape
<1>3. ASSUME NEW t \in Tokens, StartsFirst(s, u, t)
      PROVE  TypeInv'
  <2>1. PICK a : a = NewAttempt(t)
    OBVIOUS
  <2>2. a \in Attempt /\ a.attempt \in 1 .. AttemptsMax + 1
    BY <2>1, ForeignAssumption DEF NewAttempt, Attempt
  <2>3. /\ attempts' = [attempts EXCEPT ![s][u] = a]
        /\ SentAway(s, u) /\ reports' = reports
    BY <1>3, <2>1 DEF StartsFirst
  <2>4. reports' \subseteq Tokens
    BY <2>3 DEF TypeInv, ForeignTypeOK
  <2> QED BY <1>1, <2>2, <2>3, <2>4, EntryTyped
<1>4. ASSUME StartsAgain(s, u)
      PROVE  TypeInv'
  <2>1. PICK a : a = [attempts[s][u] EXCEPT !.attempt = @ + 1]
    OBVIOUS
  <2>2. /\ attempts[s][u] \in Attempt
        /\ attempts[s][u].attempt \in 1 .. AttemptsMax + 1
        /\ attempts[s][u].attempt <= AttemptsMax
    BY <1>4 DEF StartsAgain, TypeInv, Shape, ForeignTypeOK
  <2>3. a \in Attempt /\ a.attempt \in 1 .. AttemptsMax + 1
    BY <2>1, <2>2, ForeignAssumption DEF Attempt
  <2>4. /\ attempts' = [attempts EXCEPT ![s][u] = a]
        /\ SentAway(s, u) \/ Shown
        /\ reports' = reports
    BY <1>4, <2>1 DEF StartsAgain
  <2>5. reports' \subseteq Tokens
    BY <2>4 DEF TypeInv, ForeignTypeOK
  <2> QED BY <1>1, <1>2, <2>3, <2>4, <2>5, EntryTyped
<1> QED BY <1>3, <1>4

LEMMA ReturnsTyped ==
  ASSUME TypeInv, NEW s \in Strategies, NEW u \in UserKeys,
         (\E emails \in SUBSET UserKeys : CallsBack(s, u, emails)) \/ ComesToNothing(s, u)
  PROVE  TypeInv'
<1> DEFINE n == away[s][u] - 1
<1>1. n \in 0 .. MaxAway /\ away' = [away EXCEPT ![s][u] = n]
  BY ForeignAssumption DEF CallsBack, ComesToNothing, TypeInv, Places
<1> HIDE DEF n
<1>2. away' \in Places
  BY <1>1, AwayTyped
<1>3. ASSUME NEW emails \in SUBSET UserKeys, CallsBack(s, u, emails)
      PROVE  TypeInv'
  <2>1. PICK e \in Started(s, emails) :
            /\ attempts' = [attempts EXCEPT ![s][e] = Admits(@)]
            /\ sent' = [sent EXCEPT ![s][e] = 0]
            /\ reports' = reports \cup {attempts[s][e].token}
    BY <1>3 DEF CallsBack
  <2>2. /\ e \in UserKeys /\ attempts[s][e] \in Attempt
        /\ attempts[s][e].token \in Tokens
    BY <2>1 DEF Started, TypeInv, Shape, Attempt
  <2>3. PICK a : a = Admits(attempts[s][e])
    OBVIOUS
  <2>4. a \in Attempt /\ a.attempt \in 1 .. AttemptsMax + 1
    <3>1. a \in Attempt /\ a.attempt = 1
      BY <2>2, <2>3 DEF Admits, Attempt
    <3> QED BY <3>1, ForeignAssumption
  <2>5. attempts' = [attempts EXCEPT ![s][e] = a]
    BY <2>1, <2>3
  <2>6. sent' \in [Strategies -> [UserKeys -> Nat]]
    BY <2>1, <2>2 DEF TypeInv, Shape
  <2>7. reports' \subseteq Tokens
    BY <2>1, <2>2 DEF TypeInv, ForeignTypeOK
  <2> QED BY <1>2, <2>2, <2>4, <2>5, <2>6, <2>7, EntryTyped
<1>4. ASSUME ComesToNothing(s, u)
      PROVE  TypeInv'
  BY <1>2, <1>4 DEF ComesToNothing, TypeInv, Shape, ForeignTypeOK, Places
<1> QED BY <1>3, <1>4

LEMMA TypeInvStep == TypeInv /\ [ForeignNext]_foreignVars => TypeInv'
<1> SUFFICES ASSUME TypeInv, [ForeignNext]_foreignVars PROVE TypeInv'
  OBVIOUS
<1>1. ASSUME NEW s \in Strategies, NEW u \in UserKeys,
             \/ \E t \in Tokens : StartsFirst(s, u, t)
             \/ StartsAgain(s, u)
             \/ \E emails \in SUBSET UserKeys : CallsBack(s, u, emails)
             \/ ComesToNothing(s, u)
      PROVE  TypeInv'
  BY <1>1, StartsTyped, ReturnsTyped
<1>2. ASSUME away' = away, reports' \subseteq reports,
             \/ UNCHANGED <<attempts, sent>>
             \/ attempts' = Per(None) /\ sent' = Per(0)
      PROVE  TypeInv'
  <2>1. CASE UNCHANGED <<attempts, sent>>
    BY <1>2, <2>1 DEF TypeInv, Shape, ForeignTypeOK
  <2>2. CASE attempts' = Per(None) /\ sent' = Per(0)
    BY <1>2, <2>2 DEF TypeInv, Shape, ForeignTypeOK, Per
  <2> QED BY <1>2, <2>1, <2>2
<1>3. ASSUME NEW t \in Tokens, Reports(t) \/ ReportFails(t)
      PROVE  TypeInv'
  BY <1>2, <1>3 DEF Reports, ReportFails
<1>4. CASE UNCHANGED foreignVars
  BY <1>2, <1>4 DEF foreignVars
<1> QED BY <1>1, <1>3, <1>4 DEF ForeignNext
=============================================================================
