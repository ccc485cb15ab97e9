----------------------------- MODULE StoresProofs -----------------------------
(***************************************************************************)
(* Proofs about the stores that MCStores puts side by side.  They hold for *)
(* all keys, values and finite sets of ids, all bounds and settings; each   *)
(* store has an inductive invariant of its own, and no step of one store   *)
(* disturbs another.                                                       *)
(***************************************************************************)
EXTENDS MCStores, WellFoundedInduction, SequenceTheorems, FiniteSetTheorems, TLAPS

-----------------------------------------------------------------------------
(* Facts about numbers that the choices in the models rest on. *)

LEMMA LeastExists ==
  ASSUME NEW T \in SUBSET Nat, T # {}
  PROVE  \E x \in T : \A y \in T : x <= y
<1>1. IsWellFoundedOn(OpToRel(<, Nat), Nat)
  BY NatLessThanWellFounded
<1>2. PICK x \in T : \A y \in T : ~(<<y, x>> \in OpToRel(<, Nat))
  BY <1>1, WFMin
<1>3. ASSUME NEW y \in T PROVE x <= y
  <2>1. ~(<<y, x>> \in OpToRel(<, Nat)) /\ x \in Nat /\ y \in Nat
    BY <1>2
  <2>2. ~(y < x)
    BY <2>1 DEF OpToRel
  <2>3. x \in Nat /\ y \in Nat
    OBVIOUS
  <2> QED BY <2>2, <2>3
<1> QED BY <1>3

LEMMA GreatestExists ==
  ASSUME NEW n \in Nat, NEW T \in SUBSET (1 .. n), T # {}
  PROVE  \E x \in T : \A y \in T : y <= x
<1> DEFINE U == {n - x : x \in T}
<1>1. U \in SUBSET Nat /\ U # {}
  <2>1. \A x \in T : n - x \in Nat
    OBVIOUS
  <2> QED BY <2>1
<1>2. PICK u \in U : \A v \in U : u <= v
  BY <1>1, LeastExists
<1>3. PICK x \in T : u = n - x
  OBVIOUS
<1>4. ASSUME NEW y \in T PROVE y <= x
  <2>1. n - y \in U
    OBVIOUS
  <2>2. n - x <= n - y
    BY <1>2, <1>3, <2>1
  <2> QED BY <2>2
<1> QED BY <1>4

-----------------------------------------------------------------------------
(* The session table. *)

SessionInv == ST!TypeOK /\ ST!LiveStaysListed /\ ST!ListedBySetTime

LEMMA InitSession == ST!Init => SessionInv
BY StoresAssumption
   DEF ST!SessionAssumption, ST!Init, SessionInv, ST!TypeOK, ST!LiveStaysListed,
       ST!Expired, ST!ListedBySetTime

(* A list from which places were taken out keeps its order, as long as no  *)
(* last place of a stored key was taken out behind one that stays.         *)
LEMMA ShorterKeepsOrder ==
  ASSUME SessionInv, NEW f,
         lru' \in Seq(SessionKeys),
         \A k \in SessionKeys : table'[k] # None => table'[k] = table[k],
         \A i \in DOMAIN lru' : f[i] \in DOMAIN lru /\ lru'[i] = lru[f[i]],
         \A i, j \in DOMAIN lru' : i < j => f[i] < f[j],
         \A i \in DOMAIN lru', j \in DOMAIN lru :
            j > f[i] /\ table'[lru[j]] # None => \E h \in DOMAIN lru' : f[h] = j
  PROVE  ST!ListedBySetTime'
<1>0. /\ lru \in Seq(SessionKeys) /\ DOMAIN lru = 1 .. Len(lru) /\ Len(lru) \in Nat
      /\ DOMAIN lru' = 1 .. Len(lru') /\ Len(lru') \in Nat
  BY DEF SessionInv, ST!TypeOK
<1>1. ASSUME NEW k \in SessionKeys, NEW i \in DOMAIN lru',
             ST!LastAt(k, i)', table'[k] # None
      PROVE  ST!LastAt(k, f[i])
  <2>1. lru[f[i]] = k /\ f[i] \in 1 .. Len(lru)
    BY <1>0, <1>1 DEF ST!LastAt
  <2>2. ASSUME NEW j \in (f[i] + 1) .. Len(lru), lru[j] = k
        PROVE  FALSE
    <3>1. j \in DOMAIN lru /\ j > f[i]
      BY <1>0, <2>1
    <3>2. PICK h \in DOMAIN lru' : f[h] = j
      BY <1>1, <2>2, <3>1
    <3>3. h > i
      <4>1. ~(h < i) /\ h # i
        BY <1>0, <2>1, <3>1, <3>2
      <4> QED BY <1>0, <4>1
    <3>4. lru'[h] = k /\ h \in (i + 1) .. Len(lru')
      BY <1>0, <2>2, <3>2, <3>3
    <3> QED BY <1>1, <3>4 DEF ST!LastAt
  <2> QED BY <2>1, <2>2 DEF ST!LastAt
<1>2. ASSUME NEW k1 \in SessionKeys, NEW k2 \in SessionKeys,
             NEW i1 \in DOMAIN lru', NEW i2 \in DOMAIN lru',
             ST!LastAt(k1, i1)', ST!LastAt(k2, i2)', i1 < i2,
             table'[k1] # None, table'[k2] # None
      PROVE  table'[k1] <= table'[k2]
  <2>1. ST!LastAt(k1, f[i1]) /\ ST!LastAt(k2, f[i2]) /\ f[i1] < f[i2]
    BY <1>1, <1>2
  <2>2. table'[k1] = table[k1] /\ table'[k2] = table[k2]
    BY <1>2
  <2>3. f[i1] \in DOMAIN lru /\ f[i2] \in DOMAIN lru
    OBVIOUS
  <2> QED BY <1>2, <2>1, <2>2, <2>3 DEF SessionInv, ST!ListedBySetTime
<1> QED BY <1>2 DEF ST!ListedBySetTime

(* A key that is set is listed last, and no key was set later. *)
LEMMA SetKeepsSession ==
  ASSUME SessionInv, NEW k \in SessionKeys, ST!Set(k)
  PROVE  SessionInv'
<1>0. /\ lru \in Seq(SessionKeys) /\ DOMAIN lru = 1 .. Len(lru) /\ Len(lru) \in Nat
      /\ table \in [SessionKeys -> (0 .. now) \cup {None}] /\ now \in Nat
      /\ now \in 0 .. SessionMaxTime
  BY StoresAssumption DEF SessionInv, ST!TypeOK, ST!SessionAssumption
<1>1. /\ table' = [table EXCEPT ![k] = now] /\ now' = now /\ timer' = timer
      /\ lru' = Append(lru, k)
  BY DEF ST!Set, ST!Listed
<1>2. /\ lru' \in Seq(SessionKeys) /\ Len(lru') = Len(lru) + 1
      /\ DOMAIN lru' = 1 .. Len(lru) + 1
      /\ \A i \in DOMAIN lru : lru'[i] = lru[i]
      /\ lru'[Len(lru) + 1] = k
  BY <1>0, <1>1
<1>3. ST!TypeOK'
  BY <1>0, <1>1, <1>2 DEF SessionInv, ST!TypeOK
<1>4. ST!LiveStaysListed'
  <2> SUFFICES ASSUME NEW q \in SessionKeys, table'[q] # None, ~ST!Expired(q)'
               PROVE  \E i \in DOMAIN lru' : lru'[i] = q
    BY DEF ST!LiveStaysListed, ST!ToSet
  <2>1. CASE q = k
    BY <1>0, <1>2, <2>1
  <2>2. CASE q # k
    <3>1. table[q] # None /\ ~ST!Expired(q)
      BY <1>0, <1>1, <2>2 DEF ST!Expired
    <3>2. PICK i \in DOMAIN lru : lru[i] = q
      BY <3>1 DEF SessionInv, ST!LiveStaysListed, ST!ToSet
    <3> QED BY <1>0, <1>2, <3>2
  <2> QED BY <2>1, <2>2
<1>5. ST!ListedBySetTime'
  <2> SUFFICES ASSUME NEW k1 \in SessionKeys, NEW k2 \in SessionKeys,
                      NEW i1 \in DOMAIN lru', NEW i2 \in DOMAIN lru',
                      ST!LastAt(k1, i1)', ST!LastAt(k2, i2)', i1 < i2,
                      table'[k1] # None, table'[k2] # None
               PROVE  table'[k1] <= table'[k2]
    BY DEF ST!ListedBySetTime
  <2>1. CASE k2 = k
    BY <1>0, <1>1, <2>1
  <2>2. CASE k2 # k
    <3>1. i2 \in 1 .. Len(lru) /\ i1 \in 1 .. Len(lru)
      BY <1>0, <1>2, <2>2 DEF ST!LastAt
    <3>2. k1 # k
      BY <1>0, <1>2, <3>1 DEF ST!LastAt
    <3>3. ASSUME NEW q \in SessionKeys, NEW i \in 1 .. Len(lru), ST!LastAt(q, i)'
          PROVE  ST!LastAt(q, i)
      <4>1. lru[i] = q
        BY <1>0, <1>2, <3>3 DEF ST!LastAt
      <4>2. ASSUME NEW j \in (i + 1) .. Len(lru) PROVE lru[j] # q
        <5>1. j \in (i + 1) .. Len(lru') /\ j \in DOMAIN lru
          BY <1>0, <1>2
        <5> QED BY <1>2, <3>3, <5>1 DEF ST!LastAt
      <4> QED BY <4>1, <4>2 DEF ST!LastAt
    <3>4. table'[k1] = table[k1] /\ table'[k2] = table[k2]
      BY <1>0, <1>1, <2>2, <3>2
    <3>5. ST!LastAt(k1, i1) /\ ST!LastAt(k2, i2)
      BY <3>1, <3>3
    <3>6. i1 \in DOMAIN lru /\ i2 \in DOMAIN lru /\ table[k1] # None /\ table[k2] # None
      BY <1>0, <3>1, <3>4
    <3> QED BY <3>4, <3>5, <3>6 DEF SessionInv, ST!ListedBySetTime
  <2> QED BY <2>1, <2>2
<1> QED BY <1>3, <1>4, <1>5 DEF SessionInv

(* Deleting a key takes out the first place where it is listed. *)
LEMMA UnlistedIs ==
  ASSUME NEW k \in SessionKeys, lru \in Seq(SessionKeys), k \in ST!ToSet(lru)
  PROVE  \E p \in DOMAIN lru :
            /\ lru[p] = k
            /\ ST!Unlisted(k) \in Seq(SessionKeys)
            /\ Len(ST!Unlisted(k)) = Len(lru) - 1
            /\ \A i \in 1 .. Len(lru) - 1 :
                  ST!Unlisted(k)[i] = lru[IF i < p THEN i ELSE i + 1]
<1> DEFINE First(i) == lru[i] = k /\ \A j \in 1 .. (i - 1) : lru[j] # k
           at == {i \in DOMAIN lru : lru[i] = k}
<1>0. DOMAIN lru = 1 .. Len(lru) /\ Len(lru) \in Nat
  OBVIOUS
<1>1. \E i \in DOMAIN lru : First(i)
  <2>1. at # {} /\ at \in SUBSET Nat
    BY <1>0 DEF ST!ToSet
  <2>2. PICK x \in at : \A y \in at : x <= y
    BY <2>1, LeastExists
  <2> QED BY <1>0, <2>2
<1>2. PICK p : p = CHOOSE i \in DOMAIN lru : First(i)
  OBVIOUS
<1>3. p \in DOMAIN lru /\ First(p)
  BY <1>1, <1>2
<1>4. ST!Unlisted(k) = SubSeq(lru, 1, p - 1) \o SubSeq(lru, p + 1, Len(lru))
  BY <1>2 DEF ST!Unlisted, ST!RemoveAt
<1> DEFINE a == SubSeq(lru, 1, p - 1)
           b == SubSeq(lru, p + 1, Len(lru))
<1>5. /\ a \in Seq(SessionKeys) /\ Len(a) = p - 1
      /\ \A i \in 1 .. p - 1 : a[i] = lru[i]
  <2>1. \A i \in 1 .. p - 1 : lru[i] \in SessionKeys
    BY <1>0, <1>3
  <2> QED BY <1>0, <1>3, <2>1, SubSeqProperties
<1>6. /\ b \in Seq(SessionKeys) /\ Len(b) = Len(lru) - p
      /\ \A i \in 1 .. Len(lru) - p : b[i] = lru[p + i]
  <2>1. \A i \in p + 1 .. Len(lru) : lru[i] \in SessionKeys
    BY <1>0, <1>3
  <2>2. /\ b \in Seq(SessionKeys)
        /\ Len(b) = IF p + 1 <= Len(lru) THEN Len(lru) - (p + 1) + 1 ELSE 0
        /\ \A i \in 1 .. Len(lru) - (p + 1) + 1 : b[i] = lru[(p + 1) + i - 1]
    BY <1>0, <1>3, <2>1, SubSeqProperties
  <2> QED BY <1>0, <1>3, <2>2
<1> HIDE DEF a, b, First
<1>7. /\ a \o b \in Seq(SessionKeys) /\ Len(a \o b) = Len(lru) - 1
      /\ \A i \in 1 .. Len(lru) - 1 :
            (a \o b)[i] = IF i <= Len(a) THEN a[i] ELSE b[i - Len(a)]
  <2>1. /\ a \o b \in Seq(SessionKeys) /\ Len(a \o b) = Len(a) + Len(b)
        /\ \A i \in 1 .. Len(a) + Len(b) :
              (a \o b)[i] = IF i <= Len(a) THEN a[i] ELSE b[i - Len(a)]
    BY <1>5, <1>6, ConcatProperties
  <2>2. Len(a) + Len(b) = Len(lru) - 1
    BY <1>0, <1>3, <1>5, <1>6
  <2> QED BY <2>1, <2>2
<1>8. ASSUME NEW i \in 1 .. Len(lru) - 1
      PROVE  (a \o b)[i] = lru[IF i < p THEN i ELSE i + 1]
  <2>1. CASE i < p
    BY <1>0, <1>3, <1>5, <1>7, <2>1
  <2>2. CASE ~(i < p)
    <3>1. i - Len(a) \in 1 .. Len(lru) - p /\ ~(i <= Len(a)) /\ p + (i - Len(a)) = i + 1
      BY <1>0, <1>3, <1>5, <2>2
    <3> QED BY <1>6, <1>7, <2>2, <3>1
  <2> QED BY <2>1, <2>2
<1>9. ST!Unlisted(k) = a \o b
  BY <1>4 DEF a, b
<1>10. lru[p] = k
  BY <1>3 DEF First
<1> QED BY <1>3, <1>7, <1>8, <1>9, <1>10

LEMMA DeleteKeepsSession ==
  ASSUME SessionInv, NEW k \in SessionKeys, ST!Delete(k)
  PROVE  SessionInv'
<1>0. /\ lru \in Seq(SessionKeys) /\ DOMAIN lru = 1 .. Len(lru) /\ Len(lru) \in Nat
      /\ table \in [SessionKeys -> (0 .. now) \cup {None}] /\ now \in Nat
      /\ now \in 0 .. SessionMaxTime
  BY StoresAssumption DEF SessionInv, ST!TypeOK, ST!SessionAssumption
<1>1. /\ table' = [table EXCEPT ![k] = None] /\ now' = now /\ timer' = timer
      /\ lru' = ST!Unlisted(k)
  BY DEF ST!Delete
<1>2. /\ \A q \in SessionKeys \ {k} : table'[q] = table[q]
      /\ table'[k] = None
      /\ table' \in [SessionKeys -> (0 .. now) \cup {None}]
  BY <1>0, <1>1
<1>3. CASE k \notin ST!ToSet(lru)
  <2>1. lru' = lru
    BY <1>1, <1>3 DEF ST!Unlisted
  <2>2. ST!TypeOK'
    BY <1>1, <1>2, <2>1 DEF SessionInv, ST!TypeOK
  <2>3. ST!LiveStaysListed' /\ ST!ListedBySetTime'
    BY <1>1, <1>2, <2>1
       DEF SessionInv, ST!LiveStaysListed, ST!ListedBySetTime, ST!LastAt, ST!Expired
  <2> QED BY <2>2, <2>3 DEF SessionInv
<1>4. CASE k \in ST!ToSet(lru)
  <2>1. PICK p \in DOMAIN lru :
            /\ lru[p] = k
            /\ lru' \in Seq(SessionKeys)
            /\ Len(lru') = Len(lru) - 1
            /\ \A i \in 1 .. Len(lru) - 1 : lru'[i] = lru[IF i < p THEN i ELSE i + 1]
    BY <1>0, <1>1, <1>4, UnlistedIs
  <2> DEFINE f == [i \in 1 .. Len(lru) - 1 |-> IF i < p THEN i ELSE i + 1]
  <2>2. DOMAIN lru' = 1 .. Len(lru) - 1
    BY <2>1
  <2>3. /\ \A i \in DOMAIN lru' : f[i] \in DOMAIN lru /\ lru'[i] = lru[f[i]]
        /\ \A i, j \in DOMAIN lru' : i < j => f[i] < f[j]
    BY <1>0, <2>1, <2>2
  <2>4. ASSUME NEW j \in DOMAIN lru, j # p
        PROVE  \E h \in DOMAIN lru' : f[h] = j
    <3>1. CASE j < p
      BY <1>0, <2>1, <2>2, <3>1
    <3>2. CASE j > p
      <4>1. j - 1 \in DOMAIN lru' /\ f[j - 1] = j
        BY <1>0, <2>1, <2>2, <3>2
      <4> QED BY <4>1
    <3>3. j < p \/ j > p
      BY <1>0, <2>4
    <3> QED BY <3>1, <3>2, <3>3
  <2> HIDE DEF f
  <2>5. ST!TypeOK'
    BY <1>0, <1>1, <1>2, <2>1 DEF SessionInv, ST!TypeOK
  <2>6. ST!LiveStaysListed'
    <3> SUFFICES ASSUME NEW q \in SessionKeys, table'[q] # None, ~ST!Expired(q)'
                 PROVE  \E i \in DOMAIN lru' : lru'[i] = q
      BY DEF ST!LiveStaysListed, ST!ToSet
    <3>1. q # k /\ table[q] # None /\ ~ST!Expired(q)
      BY <1>1, <1>2 DEF ST!Expired
    <3>2. PICK j \in DOMAIN lru : lru[j] = q
      BY <3>1 DEF SessionInv, ST!LiveStaysListed, ST!ToSet
    <3>3. j # p
      BY <2>1, <3>1, <3>2
    <3> QED BY <2>3, <2>4, <3>2, <3>3
  <2>7. ST!ListedBySetTime'
    <3>1. \A j \in DOMAIN lru : table'[lru[j]] # None => j # p
      BY <1>2, <2>1
    <3>2. \A i \in DOMAIN lru', j \in DOMAIN lru :
             j > f[i] /\ table'[lru[j]] # None => \E h \in DOMAIN lru' : f[h] = j
      BY <2>4, <3>1
    <3>3. \A q \in SessionKeys : table'[q] # None => table'[q] = table[q]
      BY <1>2
    <3>4. lru' \in Seq(SessionKeys)
      BY <2>1
    <3> QED BY <2>3, <3>2, <3>3, <3>4, ShorterKeepsOrder
  <2> QED BY <2>5, <2>6, <2>7 DEF SessionInv
<1> QED BY <1>3, <1>4

(* The trim stays in front of the last expired place. *)
LEMMA LastExpiredIs ==
  ASSUME lru \in Seq(SessionKeys)
  PROVE  /\ ST!LastExpired \in Nat
         /\ ST!LastExpired > 0 =>
               /\ ST!LastExpired + 1 \in DOMAIN lru
               /\ ST!Expired(lru[ST!LastExpired + 1])
               /\ ST!LastAt(lru[ST!LastExpired + 1], ST!LastExpired + 1)
         /\ ST!LastExpired <= Len(lru)
<1> DEFINE at == {i \in DOMAIN lru : ST!Expired(lru[i])}
<1>0. DOMAIN lru = 1 .. Len(lru) /\ Len(lru) \in Nat
  OBVIOUS
<1>1. CASE at = {}
  BY <1>0, <1>1 DEF ST!LastExpired
<1>2. CASE at # {}
  <2>1. PICK m : m = CHOOSE i \in at : \A j \in at : j <= i
    OBVIOUS
  <2>2. \E i \in at : \A j \in at : j <= i
    <3>1. at \in SUBSET (1 .. Len(lru))
      BY <1>0
    <3> HIDE DEF at
    <3> QED BY <1>0, <1>2, <3>1, GreatestExists
  <2>3. m \in at /\ \A j \in at : j <= m
    BY <2>1, <2>2
  <2>4. ST!LastExpired = m - 1
    BY <1>2, <2>1 DEF ST!LastExpired
  <2>5. m \in 1 .. Len(lru) /\ ST!Expired(lru[m])
    BY <1>0, <2>3
  <2>6. ST!LastAt(lru[m], m)
    <3>1. ASSUME NEW j \in (m + 1) .. Len(lru), lru[j] = lru[m]
          PROVE  FALSE
      <4>1. j \in at
        BY <1>0, <2>5, <3>1
      <4>2. j <= m
        BY <2>3, <4>1
      <4> QED BY <1>0, <2>5, <4>2
    <3> QED BY <3>1 DEF ST!LastAt
  <2>7. ST!LastExpired + 1 = m
    BY <2>4, <2>5
  <2> QED BY <1>0, <2>4, <2>5, <2>6, <2>7
<1> QED BY <1>1, <1>2

LEMMA CullKeepsSession ==
  ASSUME SessionInv, ST!TimedCull
  PROVE  SessionInv'
<1>0. /\ lru \in Seq(SessionKeys) /\ DOMAIN lru = 1 .. Len(lru) /\ Len(lru) \in Nat
      /\ table \in [SessionKeys -> (0 .. now) \cup {None}] /\ now \in Nat
      /\ Crowd \in Nat /\ MinCull \in Nat /\ SessionTime \in Nat
      /\ None \notin Nat
  BY StoresAssumption DEF SessionInv, ST!TypeOK, ST!SessionAssumption
<1>1. PICK n : /\ n = IF ST!LastExpired < (IF Len(lru) - Crowd > MinCull
                                           THEN Len(lru) - Crowd ELSE MinCull)
                      THEN ST!LastExpired
                      ELSE IF Len(lru) - Crowd > MinCull THEN Len(lru) - Crowd ELSE MinCull
               /\ lru' = SubSeq(lru, n + 1, Len(lru))
               /\ UNCHANGED <<table, now, timer>>
  BY DEF ST!TimedCull
<1>2. n \in Nat /\ n <= ST!LastExpired /\ n <= Len(lru)
  BY <1>0, <1>1, LastExpiredIs
<1>3. /\ lru' \in Seq(SessionKeys) /\ Len(lru') = Len(lru) - n
      /\ \A i \in 1 .. Len(lru) - n : lru'[i] = lru[n + i]
  <2>1. \A i \in n + 1 .. Len(lru) : lru[i] \in SessionKeys
    BY <1>0, <1>2
  <2>2. /\ lru' \in Seq(SessionKeys)
        /\ Len(lru') = IF n + 1 <= Len(lru) THEN Len(lru) - (n + 1) + 1 ELSE 0
        /\ \A i \in 1 .. Len(lru) - (n + 1) + 1 : lru'[i] = lru[(n + 1) + i - 1]
    <3>1. n + 1 \in Int /\ Len(lru) \in Int
      BY <1>0, <1>2
    <3>2. lru' = SubSeq(lru, n + 1, Len(lru))
      BY <1>1
    <3> QED BY <2>1, <3>1, <3>2, SubSeqProperties
  <2>3. Len(lru') = Len(lru) - n
    <3>1. Len(lru') = IF n + 1 <= Len(lru) THEN Len(lru) - (n + 1) + 1 ELSE 0
      BY <2>2
    <3>2. Len(lru) \in Nat /\ n \in Nat /\ n <= Len(lru)
      BY <1>0, <1>2
    <3>3. CASE n + 1 <= Len(lru)
      BY <3>1, <3>2, <3>3
    <3>4. CASE ~(n + 1 <= Len(lru))
      BY <3>1, <3>2, <3>4
    <3> QED BY <3>3, <3>4
  <2>4. ASSUME NEW i \in 1 .. Len(lru) - n PROVE lru'[i] = lru[n + i]
    <3>1. i \in 1 .. Len(lru) - (n + 1) + 1 /\ (n + 1) + i - 1 = n + i
      BY <1>0, <1>2
    <3> QED BY <2>2, <3>1
  <2> QED BY <2>2, <2>3, <2>4
<1>4. DOMAIN lru' = 1 .. Len(lru) - n
  BY <1>3
<1>5. ST!TypeOK'
  BY <1>1, <1>3 DEF SessionInv, ST!TypeOK
<1>6. ST!LiveStaysListed'
  <2> SUFFICES ASSUME NEW q \in SessionKeys, table[q] # None, ~ST!Expired(q)
               PROVE  \E i \in DOMAIN lru' : lru'[i] = q
    BY <1>1 DEF ST!LiveStaysListed, ST!ToSet, ST!Expired
  <2> DEFINE at == {i \in DOMAIN lru : lru[i] = q}
  <2>1. at # {} /\ at \in SUBSET (1 .. Len(lru))
    BY <1>0 DEF SessionInv, ST!LiveStaysListed, ST!ToSet
  <2>2. PICK j \in at : \A i \in at : i <= j
    BY <1>0, <2>1, GreatestExists
  <2>3. j \in 1 .. Len(lru) /\ lru[j] = q
    BY <1>0
  <2>4. ST!LastAt(q, j)
    <3>1. ASSUME NEW i \in (j + 1) .. Len(lru), lru[i] = q PROVE FALSE
      <4>1. i \in at
        BY <1>0, <2>3, <3>1
      <4>2. i <= j
        BY <2>2, <4>1
      <4> QED BY <1>0, <2>3, <4>2
    <3> QED BY <2>3, <3>1 DEF ST!LastAt
  <2>5. CASE j > n
    <3>1. j - n \in 1 .. Len(lru) - n /\ n + (j - n) = j
      BY <1>0, <1>2, <2>3, <2>5
    <3> QED BY <1>3, <1>4, <2>3, <3>1
  <2>6. CASE ~(j > n)
    <3> DEFINE m == ST!LastExpired + 1
    <3>1. ST!LastExpired \in Nat /\ ST!LastExpired > 0 /\ j < m
      BY <1>0, <1>2, <2>3, <2>6, LastExpiredIs
    <3>2. m \in DOMAIN lru /\ ST!Expired(lru[m]) /\ ST!LastAt(lru[m], m)
      BY <1>0, <3>1, LastExpiredIs
    <3> HIDE DEF m
    <3>3. lru[m] \in SessionKeys /\ table[lru[m]] # None
      BY <1>0, <3>2 DEF ST!Expired
    <3>4. table[q] <= table[lru[m]]
      BY <1>0, <2>3, <2>4, <3>1, <3>2, <3>3 DEF SessionInv, ST!ListedBySetTime
    <3>5. table[q] \in Nat /\ table[lru[m]] \in Nat
      BY <1>0, <3>3
    <3>6. ST!Expired(q)
      BY <1>0, <3>2, <3>3, <3>4, <3>5 DEF ST!Expired
    <3> QED BY <3>6
  <2> QED BY <2>5, <2>6
<1>7. ST!ListedBySetTime'
  <2> DEFINE f == [i \in 1 .. Len(lru) - n |-> n + i]
  <2>1. /\ \A i \in DOMAIN lru' : f[i] \in DOMAIN lru /\ lru'[i] = lru[f[i]]
        /\ \A i, j \in DOMAIN lru' : i < j => f[i] < f[j]
    BY <1>0, <1>2, <1>3, <1>4
  <2>2. ASSUME NEW i \in DOMAIN lru', NEW j \in DOMAIN lru, j > f[i]
        PROVE  \E h \in DOMAIN lru' : f[h] = j
    <3>1. j - n \in DOMAIN lru' /\ f[j - n] = j
      BY <1>0, <1>2, <1>4, <2>2
    <3> QED BY <3>1
  <2> HIDE DEF f
  <2>3. \A q \in SessionKeys : table'[q] # None => table'[q] = table[q]
    BY <1>1
  <2>4. \A i \in DOMAIN lru', j \in DOMAIN lru :
           j > f[i] /\ table'[lru[j]] # None => \E h \in DOMAIN lru' : f[h] = j
    BY <2>2
  <2> QED BY <1>3, <2>1, <2>3, <2>4, ShorterKeepsOrder
<1> QED BY <1>5, <1>6, <1>7 DEF SessionInv

LEMMA SessionKeeps ==
  ASSUME SessionInv, ST!Next \/ UNCHANGED <<sessionVars, now>>
  PROVE  SessionInv'
<1>1. CASE \E k \in SessionKeys : ST!Set(k) \/ ST!Delete(k)
  BY <1>1, SetKeepsSession, DeleteKeepsSession
<1>2. CASE ST!TimedCull
  BY <1>2, CullKeepsSession
<1>3. CASE ST!Shutdown \/ UNCHANGED <<sessionVars, now>>
  <2>1. table' = table /\ lru' = lru /\ now' = now /\ timer' \in BOOLEAN
    BY <1>3 DEF ST!Shutdown, sessionVars, SessionInv, ST!TypeOK
  <2> QED BY <2>1 DEF SessionInv, ST!TypeOK, ST!LiveStaysListed, ST!ListedBySetTime,
                      ST!Expired, ST!LastAt
<1>4. CASE ST!Tick
  <2>1. /\ table' = table /\ lru' = lru /\ timer' = timer /\ now' = now + 1
        /\ now \in Nat /\ now' \in 0 .. SessionMaxTime
    BY <1>4, StoresAssumption DEF ST!Tick, SessionInv, ST!TypeOK, ST!SessionAssumption
  <2>2. ST!TypeOK'
    BY <2>1 DEF SessionInv, ST!TypeOK
  <2>3. \A k \in SessionKeys : table[k] # None /\ ~ST!Expired(k)' => ~ST!Expired(k)
    BY <2>1, StoresAssumption
       DEF SessionInv, ST!TypeOK, ST!Expired, ST!SessionAssumption
  <2>4. ST!LiveStaysListed'
    BY <2>1, <2>3 DEF SessionInv, ST!LiveStaysListed
  <2>5. ST!ListedBySetTime'
    BY <2>1 DEF SessionInv, ST!ListedBySetTime, ST!LastAt
  <2> QED BY <2>2, <2>4, <2>5 DEF SessionInv
<1> QED BY <1>1, <1>2, <1>3, <1>4 DEF ST!Next

-----------------------------------------------------------------------------
(* The default persistent store. *)

(* Every write under way agrees with the map on what is not exposed, so    *)
(* that the last one to end leaves the file as the map is.                 *)
MapperInv ==
    /\ FM!TypeOK
    /\ ~running => writes = {} /\ ~dirty /\ restarts < MaxRestarts
    /\ \A m \in writes, id \in Ids \ exposed : m[id] = map[id]
    /\ FM!CleanIsOnDisk

LEMMA InitMapper == FM!Init => MapperInv
<1> SUFFICES ASSUME FM!Init PROVE MapperInv
  OBVIOUS
<1>1. ops \in 0 .. MaxOps /\ restarts \in 0 .. MaxRestarts
  BY StoresAssumption DEF FM!FileMapperAssumption, FM!Init
<1>2. FM!TypeOK
  BY <1>1 DEF FM!Init, FM!TypeOK
<1> QED BY <1>2, StoresAssumption
        DEF FM!FileMapperAssumption, FM!Init, FM!Map, MapperInv, FM!CleanIsOnDisk

(* A change of one id, which is exposed or leaves the map dirty. *)
LEMMA ChangeKeepsMapper ==
  ASSUME MapperInv, NEW id \in Ids, NEW v \in Vals \cup {None},
         running, FM!Calls, map' = [map EXCEPT ![id] = v],
         UNCHANGED <<file, writes, running, restarts>>,
         exposed \subseteq exposed', exposed' \subseteq Ids,
         dirty' \in BOOLEAN,
         writes = {} /\ ~dirty' => ~dirty,
         id \in exposed' \/ (writes = {} /\ dirty')
  PROVE  MapperInv'
<1>1. FM!TypeOK'
  <2>1. map' \in FM!Map
    BY DEF MapperInv, FM!TypeOK, FM!Map
  <2>2. ops' \in 0 .. MaxOps
    BY StoresAssumption DEF MapperInv, FM!TypeOK, FM!Calls, FM!FileMapperAssumption
  <2> QED BY <2>1, <2>2 DEF MapperInv, FM!TypeOK
<1>2. \A q \in Ids \ {id} : map'[q] = map[q]
  BY DEF MapperInv, FM!TypeOK, FM!Map
<1>3. \A m \in writes', q \in Ids \ exposed' : m[q] = map'[q]
  BY <1>2 DEF MapperInv
<1>4. FM!CleanIsOnDisk'
  BY <1>2 DEF MapperInv, FM!CleanIsOnDisk
<1> QED BY <1>1, <1>3, <1>4 DEF MapperInv

LEMMA MapperKeeps ==
  ASSUME MapperInv, FM!Next \/ UNCHANGED mapperVars
  PROVE  MapperInv'
<1>1. ASSUME NEW id \in Ids, NEW v \in Vals, FM!Create(id, v)
      PROVE  MapperInv'
  <2>1. /\ running /\ FM!Calls /\ map' = [map EXCEPT ![id] = v]
        /\ exposed' = exposed \cup {id} /\ dirty' = dirty
        /\ UNCHANGED <<file, writes, running, restarts>>
    BY <1>1 DEF FM!Create, FM!Calls
  <2>2. exposed' \subseteq Ids /\ dirty' \in BOOLEAN
    BY <2>1 DEF MapperInv, FM!TypeOK
  <2> QED BY <2>1, <2>2, ChangeKeepsMapper
<1>2. ASSUME NEW id \in Ids, NEW v \in Vals \cup {None},
             FM!Calls, map' = [map EXCEPT ![id] = v], dirty' = TRUE, FM!Exposes(id),
             UNCHANGED <<file, writes, running, restarts>>
      PROVE  MapperInv'
  <2>1. /\ running
        /\ exposed \subseteq exposed' /\ exposed' \subseteq Ids
        /\ id \in exposed' \/ writes = {}
    BY <1>2 DEF FM!Exposes, FM!Calls, MapperInv, FM!TypeOK
  <2> QED BY <1>2, <2>1, ChangeKeepsMapper
<1>3. ASSUME NEW id \in Ids,
             (\E v \in Vals : FM!Update(id, v)) \/ FM!Delete(id)
      PROVE  MapperInv'
  BY <1>2, <1>3 DEF FM!Update, FM!Delete, FM!Marked
<1>4. CASE FM!Stash
  <2>1. /\ running /\ dirty /\ writes' = writes \cup {map}
        /\ exposed' = IF writes = {} THEN {} ELSE exposed
        /\ UNCHANGED <<map, dirty, file, running, ops, restarts>>
    BY <1>4 DEF FM!Stash
  <2>2. FM!TypeOK'
    BY <2>1 DEF MapperInv, FM!TypeOK
  <2>3. \A m \in writes', id \in Ids \ exposed' : m[id] = map'[id]
    BY <2>1 DEF MapperInv
  <2> QED BY <2>1, <2>2, <2>3 DEF MapperInv, FM!CleanIsOnDisk
<1>5. CASE FM!Written
  <2>1. PICK m \in writes :
           /\ writes' = writes \ {m}
           /\ (file' = m /\ exposed' = exposed) \/ (file' \in {file, None} /\ exposed' = Ids)
           /\ dirty' = FALSE /\ UNCHANGED <<map, running, ops, restarts>>
    BY <1>5 DEF FM!Written
  <2>2. FM!TypeOK'
    BY <2>1 DEF MapperInv, FM!TypeOK
  <2>3. \A w \in writes', id \in Ids \ exposed' : w[id] = map'[id]
    BY <2>1 DEF MapperInv
  <2>4. FM!CleanIsOnDisk'
    BY <2>1, StoresAssumption
       DEF MapperInv, FM!TypeOK, FM!Map, FM!FileMapperAssumption, FM!CleanIsOnDisk
  <2> QED BY <2>1, <2>2, <2>3, <2>4 DEF MapperInv
<1>6. CASE FM!Stops
  <2>1. FM!TypeOK'
    BY <1>6 DEF FM!Stops, MapperInv, FM!TypeOK, FM!Map
  <2> QED BY <1>6, <2>1 DEF FM!Stops, MapperInv, FM!CleanIsOnDisk
<1>7. CASE FM!Starts
  <2>1. FM!TypeOK'
    BY <1>7, StoresAssumption
       DEF FM!Starts, FM!Loaded, MapperInv, FM!TypeOK, FM!FileMapperAssumption
  <2> QED BY <1>7, <2>1 DEF FM!Starts, FM!Loaded, MapperInv, FM!CleanIsOnDisk
<1>8. CASE UNCHANGED mapperVars
  BY <1>8 DEF mapperVars, MapperInv, FM!TypeOK, FM!CleanIsOnDisk
<1> QED BY <1>1, <1>3, <1>4, <1>5, <1>6, <1>7, <1>8 DEF FM!Next

-----------------------------------------------------------------------------
(* The relay store, and what the static store has of it. *)

Maps == [Ids -> Objects \cup {None}]
Mails == [id : Ids, obj : Objects \cup {None}]
Findings == [id : Ids, answered : BOOLEAN, obj : Objects \cup {None}]

coreVars == <<map, buckets, dirty, file, writes, relay, remote, pending, exposed,
              known, now, running>>

CoreShape ==
    /\ relay \in {"none", "standin", "service"}
    /\ map \in Maps /\ file \in Maps /\ remote \in Maps /\ writes \subseteq Maps
    /\ buckets \in [Times -> SUBSET Ids]
    /\ dirty \in BOOLEAN /\ running \in BOOLEAN
    /\ pending \in Seq(Mails)
    /\ exposed \subseteq Ids /\ known \subseteq Ids
    /\ now \in Times
    /\ relay # "service" => pending = <<>>

(* As for the default store: the writes under way agree with the map on    *)
(* what is not exposed.                                                    *)
Agreed ==
    /\ ~running => writes = {} /\ ~dirty
    /\ \A m \in writes, id \in Ids \ exposed : Val(m, id) = Val(map, id)
    /\ RelayCleanIsOnDisk

(* What is known and not in the map is on its way, or it is at the remote  *)
(* store and nothing that is on its way deletes it there.                  *)
Relayed(id) ==
    \/ InPending(id)
    \/ /\ remote[id] # None
       /\ \A i \in DOMAIN pending : pending[i].id = id => pending[i].obj # None

KnownIsRelayed == relay # "none" => \A id \in known : map[id] # None \/ Relayed(id)

CoreInv == CoreShape /\ Agreed /\ EverythingAges /\ KnownIsRelayed

FindingShape ==
    /\ finding \in [Callers -> Findings \cup {None}]
    /\ running \/ \A c \in Callers : finding[c] = None

RelayInv == CoreInv /\ FindingShape

(* An object that is not None, and the facts about the clock. *)
LEMMA ObjectIsSomething ==
  ASSUME NEW o \in Objects
  PROVE  o # None
BY RelayAssumption DEF Objects, Times

LEMMA TimesAre == Times \subseteq Nat
BY RelayAssumption DEF Times

LEMMA InitCore == RelayInit => RelayInv
<1> SUFFICES ASSUME RelayInit PROVE RelayInv
  OBVIOUS
<1>1. remote \in Maps
  <2>1. \A v \in Vals, t \in {0} : [val |-> v, stamp |-> t] \in Objects
    BY RelayAssumption DEF Objects, Times
  <2>2. \A o \in [val : Vals, stamp : {0}] : o \in Objects
    BY RelayAssumption DEF Objects, Times
  <2> QED BY <2>2 DEF RelayInit, Maps
<1>2. 0 \in Times
  BY RelayAssumption DEF Times
<1>3. CoreShape
  BY <1>1, <1>2 DEF RelayInit, CoreShape, Empty, Maps
<1>4. Agreed /\ EverythingAges /\ KnownIsRelayed
  BY DEF RelayInit, Agreed, RelayCleanIsOnDisk, EverythingAges, KnownIsRelayed, Empty, Val
<1> QED BY <1>3, <1>4 DEF RelayInit, RelayInv, CoreInv, FindingShape

(* One id is put into the bucket of now, or leaves the map. *)
LEMMA TouchAges ==
  ASSUME CoreInv, NEW id \in Ids,
         \A q \in Ids \ {id} : map'[q] = map[q],
         \A q \in Ids \ {id} : \A t \in Times : q \in buckets[t] => q \in buckets'[t],
         \/ map'[id] = None
         \/ map'[id].stamp \in Nat /\ map'[id].stamp <= now /\ id \in buckets'[now],
         now' = now
  PROVE  EverythingAges'
<1>1. now \in Times /\ now \in Nat
  BY TimesAre DEF CoreInv, CoreShape
<1> SUFFICES ASSUME NEW q \in Ids, map'[q] # None
             PROVE  \E t \in map'[q].stamp..now : q \in buckets'[t]
  BY DEF EverythingAges
<1>2. CASE q = id
  BY <1>1, <1>2
<1>3. CASE q # id
  <2>1. PICK t \in map[q].stamp..now : q \in buckets[t]
    BY <1>3 DEF CoreInv, EverythingAges
  <2>2. map[q] \in Objects
    BY <1>3 DEF CoreInv, CoreShape, Maps
  <2>3. t \in Times
    BY <1>1, <2>2, RelayAssumption DEF Objects, Times
  <2> QED BY <1>3, <2>1, <2>3
<1> QED BY <1>2, <1>3

(* One id gets another value, exposed or leaving the map dirty. *)
LEMMA TouchAgrees ==
  ASSUME CoreInv, NEW id \in Ids,
         \A q \in Ids \ {id} : map'[q] = map[q],
         running, UNCHANGED <<file, writes, running>>,
         exposed \subseteq exposed', exposed' \subseteq Ids,
         writes = {} /\ ~dirty' => ~dirty,
         \/ id \in exposed'
         \/ writes = {} /\ dirty'
         \/ Val(map, id)' = Val(map, id)
  PROVE  Agreed'
<1>1. \A q \in Ids \ {id} : Val(map, q)' = Val(map, q)
  BY DEF Val
<1>2. \A m \in writes', q \in Ids \ exposed' : Val(m, q)' = Val(map, q)'
  BY <1>1 DEF CoreInv, Agreed, Val
<1>3. RelayCleanIsOnDisk'
  BY <1>1 DEF CoreInv, Agreed, RelayCleanIsOnDisk, Val
<1> QED BY <1>2, <1>3 DEF Agreed, Val

-----------------------------------------------------------------------------
(* Messages. *)

(* The stand-in ends up with the last message about an id. *)
LEMMA LastIsLast ==
  ASSUME NEW msgs \in Seq(Mails), NEW q
  PROVE  IF \E j \in DOMAIN msgs : msgs[j].id = q
         THEN LastAbout(msgs, q) \in DOMAIN msgs /\ msgs[LastAbout(msgs, q)].id = q
         ELSE LastAbout(msgs, q) = 0
<1> DEFINE I == {j \in 1..Len(msgs) : msgs[j].id = q}
<1>1. DOMAIN msgs = 1 .. Len(msgs) /\ Len(msgs) \in Nat
  OBVIOUS
<1>2. CASE I = {}
  BY <1>1, <1>2 DEF LastAbout, SelectLastInSeq
<1>3. CASE I # {}
  <2>1. LastAbout(msgs, q) = Max(I)
    BY <1>3 DEF LastAbout, SelectLastInSeq
  <2>2. \E x \in I : \A y \in I : y <= x
    BY <1>1, <1>3, GreatestExists
  <2>3. Max(I) \in I
    BY <1>1, <2>2 DEF Max
  <2> HIDE DEF I
  <2>4. Max(I) \in 1 .. Len(msgs) /\ msgs[Max(I)].id = q
    BY <2>3 DEF I
  <2> QED BY <1>1, <2>1, <2>4
<1> QED BY <1>2, <1>3

LEMMA SendsTyped ==
  ASSUME CoreInv, NEW msgs \in Seq(Mails), Sends(msgs)
  PROVE  /\ remote' \in Maps
         /\ pending' \in Seq(Mails)
         /\ relay # "service" => pending' = <<>>
<1>1. CASE relay = "none"
  BY <1>1 DEF Sends, CoreInv, CoreShape
<1>2. CASE relay = "standin"
  <2>1. /\ pending' = pending
        /\ remote' = [q \in Ids |->
              LET i == LastAbout(msgs, q)
              IN IF i = 0 THEN remote[q] ELSE msgs[i].obj]
    BY <1>2 DEF Sends
  <2>2. ASSUME NEW q \in Ids
        PROVE  LET i == LastAbout(msgs, q)
               IN (IF i = 0 THEN remote[q] ELSE msgs[i].obj) \in Objects \cup {None}
    <3>1. PICK i : i = LastAbout(msgs, q)
      OBVIOUS
    <3>2. i = 0 \/ i \in DOMAIN msgs
      BY <3>1, LastIsLast
    <3>3. i \in DOMAIN msgs => msgs[i] \in Mails
      OBVIOUS
    <3>4. (IF i = 0 THEN remote[q] ELSE msgs[i].obj) \in Objects \cup {None}
      BY <3>2, <3>3 DEF CoreInv, CoreShape, Maps, Mails
    <3> QED BY <3>1, <3>4
  <2>3. remote' \in Maps
    BY <2>1, <2>2 DEF Maps
  <2> QED BY <1>2, <2>1, <2>3 DEF CoreInv, CoreShape
<1>3. CASE relay = "service"
  <2>1. remote' = remote /\ pending' = pending \o msgs
    BY <1>3 DEF Sends
  <2>2. pending \in Seq(Mails) /\ remote \in Maps
    BY DEF CoreInv, CoreShape
  <2>3. pending \o msgs \in Seq(Mails)
    BY <2>2, ConcatProperties
  <2> QED BY <1>3, <2>1, <2>2, <2>3
<1> QED BY <1>1, <1>2, <1>3 DEF CoreInv, CoreShape

(* Messages with objects reach whom they are sent for and disturb nobody.  *)
LEMMA SendsRelay ==
  ASSUME CoreInv, NEW msgs \in Seq(Mails), Sends(msgs), relay # "none", NEW q \in Ids,
         \A i \in DOMAIN msgs : msgs[i].id = q => msgs[i].obj # None,
         Relayed(q) \/ \E i \in DOMAIN msgs : msgs[i].id = q
  PROVE  Relayed(q)'
<1>0. /\ DOMAIN msgs = 1 .. Len(msgs) /\ Len(msgs) \in Nat
      /\ DOMAIN pending = 1 .. Len(pending) /\ Len(pending) \in Nat
      /\ pending \in Seq(Mails)
  BY DEF CoreInv, CoreShape
<1>1. CASE relay = "standin"
  <2>1. pending = <<>> /\ pending' = <<>>
    BY <1>1, SendsTyped DEF CoreInv, CoreShape
  <2>2. PICK i : i = LastAbout(msgs, q)
    OBVIOUS
  <2>3. remote'[q] = IF i = 0 THEN remote[q] ELSE msgs[i].obj
    BY <1>1, <2>2 DEF Sends
  <2>4. remote'[q] # None
    <3>1. CASE \E j \in DOMAIN msgs : msgs[j].id = q
      <4>1. i \in DOMAIN msgs /\ msgs[i].id = q
        BY <2>2, <3>1, LastIsLast
      <4> QED BY <1>0, <2>3, <4>1
    <3>2. CASE ~\E j \in DOMAIN msgs : msgs[j].id = q
      <4>1. i = 0
        BY <2>2, <3>2, LastIsLast
      <4>2. remote[q] # None
        BY <2>1, <3>2 DEF Relayed, InPending
      <4> QED BY <2>3, <4>1, <4>2
    <3> QED BY <3>1, <3>2
  <2> QED BY <2>1, <2>4 DEF Relayed
<1>2. CASE relay = "service"
  <2>1. remote' = remote /\ pending' = pending \o msgs
    BY <1>2 DEF Sends
  <2>2. /\ Len(pending') = Len(pending) + Len(msgs)
        /\ DOMAIN pending' = 1 .. Len(pending) + Len(msgs)
        /\ \A i \in 1 .. Len(pending) : pending'[i] = pending[i]
        /\ \A i \in 1 .. Len(msgs) : pending'[Len(pending) + i] = msgs[i]
    BY <1>0, <2>1
  <2>3. ASSUME NEW j \in Len(pending) + 1 .. Len(pending'), pending'[j].id = q
        PROVE  pending'[j].obj # None
    <3>1. j - Len(pending) \in DOMAIN msgs /\ pending'[j] = msgs[j - Len(pending)]
      BY <1>0, <2>2
    <3> QED BY <2>3, <3>1
  <2>4. CASE \E i \in DOMAIN msgs : msgs[i].id = q
    <3>1. PICK i \in DOMAIN msgs : msgs[i].id = q
      BY <2>4
    <3>2. /\ Len(pending) + i \in DOMAIN pending'
          /\ pending'[Len(pending) + i] = msgs[i]
      BY <1>0, <2>2
    <3>3. \A j \in (Len(pending) + i + 1) .. Len(pending') :
             j \in Len(pending) + 1 .. Len(pending')
      BY <1>0, <2>2
    <3> QED BY <2>3, <3>1, <3>2, <3>3 DEF Relayed, InPending
  <2>5. CASE InPending(q)
    <3>1. PICK i \in DOMAIN pending :
             /\ pending[i].id = q /\ pending[i].obj # None
             /\ \A j \in (i + 1)..Len(pending) : pending[j].id = q => pending[j].obj # None
      BY <2>5 DEF InPending
    <3>2. ASSUME NEW j \in (i + 1) .. Len(pending'), pending'[j].id = q
          PROVE  pending'[j].obj # None
      <4>1. CASE j <= Len(pending)
        <5>1. j \in (i + 1) .. Len(pending) /\ pending'[j] = pending[j]
          BY <1>0, <2>2, <4>1
        <5> QED BY <3>1, <3>2, <5>1
      <4>2. CASE ~(j <= Len(pending))
        <5>1. j \in Len(pending) + 1 .. Len(pending')
          BY <1>0, <2>2, <4>2
        <5> QED BY <2>3, <3>2, <5>1
      <4> QED BY <4>1, <4>2
    <3>3. i \in DOMAIN pending' /\ pending'[i] = pending[i]
      BY <1>0, <2>2
    <3> QED BY <3>1, <3>2, <3>3 DEF Relayed, InPending
  <2>6. CASE /\ remote[q] # None
             /\ \A i \in DOMAIN pending : pending[i].id = q => pending[i].obj # None
    <3>1. ASSUME NEW j \in DOMAIN pending', pending'[j].id = q
          PROVE  pending'[j].obj # None
      <4>1. CASE j <= Len(pending)
        <5>1. j \in DOMAIN pending /\ pending'[j] = pending[j]
          BY <1>0, <2>2, <4>1
        <5> QED BY <2>6, <3>1, <5>1
      <4>2. CASE ~(j <= Len(pending))
        <5>1. j \in Len(pending) + 1 .. Len(pending')
          BY <1>0, <2>2, <4>2
        <5> QED BY <2>3, <3>1, <5>1
      <4> QED BY <4>1, <4>2
    <3> QED BY <2>1, <2>6, <3>1 DEF Relayed
  <2> QED BY <2>4, <2>5, <2>6 DEF Relayed
<1> QED BY <1>1, <1>2 DEF CoreInv, CoreShape

LEMMA SendsOthers ==
  ASSUME CoreInv, NEW id \in Ids, NEW obj \in Objects \cup {None},
         Sends(<<Message(id, obj)>>),
         NEW q \in Ids, q # id \/ obj # None, Relayed(q), relay # "none"
  PROVE  Relayed(q)'
<1>1. PICK msgs : msgs = <<Message(id, obj)>>
  OBVIOUS
<1>2. msgs \in Seq(Mails) /\ Sends(msgs)
  BY <1>1 DEF Message, Mails
<1>3. \A i \in DOMAIN msgs : msgs[i] = [id |-> id, obj |-> obj]
  BY <1>1 DEF Message
<1>4. \A i \in DOMAIN msgs : msgs[i].id = q => msgs[i].obj # None
  BY <1>3
<1> QED BY <1>2, <1>4, SendsRelay

LEMMA OneIsTyped ==
  ASSUME CoreInv, NEW id \in Ids, NEW obj \in Objects \cup {None},
         Sends(<<Message(id, obj)>>)
  PROVE  /\ remote' \in Maps
         /\ pending' \in Seq(Mails)
         /\ relay # "service" => pending' = <<>>
<1>1. <<Message(id, obj)>> \in Seq(Mails)
  BY DEF Message, Mails
<1> QED BY <1>1, SendsTyped

-----------------------------------------------------------------------------
(* What the operations of both stores do to the common part. *)

LEMMA BucketsTyped ==
  ASSUME CoreInv, NEW t, NEW id \in Ids
  PROVE  /\ UpdateStamp(buckets, t, id) \in [Times -> SUBSET Ids]
         /\ AddStamp(buckets, now, id) \in [Times -> SUBSET Ids]
         /\ id \in UpdateStamp(buckets, t, id)[now]
         /\ id \in AddStamp(buckets, now, id)[now]
         /\ \A q \in Ids \ {id} : \A s \in Times : q \in buckets[s] =>
               /\ q \in UpdateStamp(buckets, t, id)[s]
               /\ q \in AddStamp(buckets, now, id)[s]
<1>1. buckets \in [Times -> SUBSET Ids] /\ now \in Times
  BY DEF CoreInv, CoreShape
<1>2. /\ RemoveStamp(buckets, t, id) \in [Times -> SUBSET Ids]
      /\ \A q \in Ids \ {id} : \A s \in Times :
            q \in buckets[s] => q \in RemoveStamp(buckets, t, id)[s]
  BY <1>1 DEF RemoveStamp
<1>3. ASSUME NEW b \in [Times -> SUBSET Ids]
      PROVE  /\ AddStamp(b, now, id) \in [Times -> SUBSET Ids]
             /\ id \in AddStamp(b, now, id)[now]
             /\ \A q \in Ids, s \in Times : q \in b[s] => q \in AddStamp(b, now, id)[s]
  BY <1>1 DEF AddStamp
<1> QED BY <1>1, <1>2, <1>3 DEF UpdateStamp

(* An object is stored, and told to the messenger. *)
LEMMA AddKeeps ==
  ASSUME CoreInv, NEW id \in Ids, NEW v \in Vals \cup {None}, NEW obj \in Objects,
         running, AddToStorageMap(id, v), Sends(<<Message(id, obj)>>),
         UNCHANGED <<file, writes, relay, now, running>>
  PROVE  CoreInv'
<1> DEFINE o == [val |-> v, stamp |-> now]
<1>0. CoreShape
  BY DEF CoreInv
<1>1. /\ map' = [map EXCEPT ![id] = o]
      /\ buckets' = AddStamp(buckets, now, id)
      /\ dirty' = TRUE /\ known' = known \cup {id}
      /\ exposed' = IF writes # {} THEN exposed \cup {id} ELSE exposed
  BY DEF AddToStorageMap, Exposes
<1>2. o \in Objects /\ o # None /\ o.stamp = now
  <2>1. o \in Objects
    BY <1>0 DEF CoreShape, Objects
  <2> HIDE DEF o
  <2>2. o # None
    BY <2>1, ObjectIsSomething
  <2> QED BY <2>1, <2>2 DEF o
<1> HIDE DEF o
<1>3. map' \in Maps /\ map'[id] = o /\ \A q \in Ids \ {id} : map'[q] = map[q]
  BY <1>0, <1>1, <1>2 DEF CoreShape, Maps
<1>4. CoreShape'
  <2>1. buckets' \in [Times -> SUBSET Ids]
    BY <1>1, BucketsTyped
  <2>2. remote' \in Maps /\ pending' \in Seq(Mails) /\ (relay # "service" => pending' = <<>>)
    BY OneIsTyped
  <2> QED BY <1>0, <1>1, <1>3, <2>1, <2>2 DEF CoreShape
<1>5. Agreed'
  BY <1>0, <1>1, <1>3, TouchAgrees DEF CoreShape
<1>6. EverythingAges'
  <2>1. now \in Nat
    BY <1>0, TimesAre DEF CoreShape
  <2> QED BY <1>1, <1>2, <1>3, <2>1, BucketsTyped, TouchAges
<1>7. KnownIsRelayed'
  <2> SUFFICES ASSUME relay # "none", NEW q \in known', map'[q] = None
               PROVE  Relayed(q)'
    BY DEF KnownIsRelayed
  <2>1. q \in known /\ q \in Ids /\ q # id
    BY <1>0, <1>1, <1>2, <1>3 DEF CoreShape
  <2>2. Relayed(q)
    BY <1>3, <2>1 DEF CoreInv, KnownIsRelayed
  <2> QED BY <2>1, <2>2, SendsOthers
<1> QED BY <1>4, <1>5, <1>6, <1>7 DEF CoreInv

(* An object is deleted here and, by a message, there. *)
LEMMA DropKeeps ==
  ASSUME CoreInv, NEW id \in Ids, running,
         map' = [map EXCEPT ![id] = None],
         dirty' = TRUE, Exposes(id), known' = known \ {id},
         Sends(<<Message(id, None)>>),
         UNCHANGED <<buckets, file, writes, relay, now, running>>
  PROVE  CoreInv'
<1>0. CoreShape
  BY DEF CoreInv
<1>1. map' \in Maps /\ map'[id] = None /\ \A q \in Ids \ {id} : map'[q] = map[q]
  BY <1>0 DEF CoreShape, Maps
<1>2. CoreShape'
  <2>1. remote' \in Maps /\ pending' \in Seq(Mails) /\ (relay # "service" => pending' = <<>>)
    BY OneIsTyped
  <2>2. exposed' \subseteq Ids
    BY <1>0 DEF Exposes, CoreShape
  <2> QED BY <1>0, <1>1, <2>1, <2>2 DEF CoreShape
<1>3. Agreed'
  BY <1>0, <1>1, TouchAgrees DEF Exposes, CoreShape
<1>4. EverythingAges'
  BY <1>1, TouchAges
<1>5. KnownIsRelayed'
  <2> SUFFICES ASSUME relay # "none", NEW q \in known', map'[q] = None
               PROVE  Relayed(q)'
    BY DEF KnownIsRelayed
  <2>1. q \in known /\ q \in Ids /\ q # id
    BY <1>0 DEF CoreShape
  <2>2. Relayed(q)
    BY <1>1, <2>1 DEF CoreInv, KnownIsRelayed
  <2> QED BY <2>1, <2>2, SendsOthers
<1> QED BY <1>2, <1>3, <1>4, <1>5 DEF CoreInv

(* An object of the map is used, and perhaps changed in place. *)
LEMMA UseKeeps ==
  ASSUME CoreInv, NEW id \in Ids, NEW v \in Vals \cup {None}, running,
         map[id] # None,
         map' = [map EXCEPT ![id] = [val |-> v, stamp |-> now]],
         buckets' = UpdateStamp(buckets, map[id].stamp, id),
         \/ v = map[id].val /\ exposed' = exposed
         \/ exposed' = exposed \cup {id},
         UNCHANGED <<dirty, file, writes, relay, remote, pending, known, now, running>>
  PROVE  CoreInv'
<1> DEFINE o == [val |-> v, stamp |-> now]
<1>0. CoreShape
  BY DEF CoreInv
<1>1. o \in Objects /\ o # None /\ o.stamp = now /\ o.val = v
  <2>1. o \in Objects
    BY <1>0 DEF CoreShape, Objects
  <2> HIDE DEF o
  <2>2. o # None
    BY <2>1, ObjectIsSomething
  <2> QED BY <2>1, <2>2 DEF o
<1>2. map' = [map EXCEPT ![id] = o]
  OBVIOUS
<1> HIDE DEF o
<1>3. map' \in Maps /\ map'[id] = o /\ \A q \in Ids \ {id} : map'[q] = map[q]
  BY <1>0, <1>1, <1>2 DEF CoreShape, Maps
<1>4. CoreShape'
  BY <1>0, <1>3, BucketsTyped DEF CoreShape
<1>5. Agreed'
  <2>1. v = map[id].val => Val(map, id)' = Val(map, id)
    BY <1>1, <1>3 DEF Val
  <2> QED BY <1>0, <1>3, <2>1, TouchAgrees DEF CoreShape
<1>6. EverythingAges'
  <2>1. now \in Nat
    BY <1>0, TimesAre DEF CoreShape
  <2> QED BY <1>1, <1>3, <2>1, BucketsTyped, TouchAges
<1>7. KnownIsRelayed'
  BY <1>1, <1>3 DEF CoreInv, KnownIsRelayed, Relayed, InPending
<1> QED BY <1>4, <1>5, <1>6, <1>7 DEF CoreInv

(* An object of the map is changed in place, at its page. *)
LEMMA InPlaceKeeps ==
  ASSUME CoreInv, NEW id \in Ids, NEW v \in Vals, map[id] # None,
         map' = [map EXCEPT ![id] = [val |-> v, stamp |-> @.stamp]],
         exposed' = exposed \cup {id},
         UNCHANGED <<buckets, dirty, file, writes, relay, remote, pending, known, now, running>>
  PROVE  CoreInv'
<1> DEFINE o == [val |-> v, stamp |-> map[id].stamp]
<1>0. CoreShape /\ map[id] \in Objects
  BY DEF CoreInv, CoreShape, Maps
<1>1. o \in Objects /\ o # None /\ o.stamp = map[id].stamp
  <2>1. o \in Objects
    BY <1>0 DEF Objects
  <2> HIDE DEF o
  <2>2. o # None
    BY <2>1, ObjectIsSomething
  <2> QED BY <2>1, <2>2 DEF o
<1>2. map' = [map EXCEPT ![id] = o]
  OBVIOUS
<1> HIDE DEF o
<1>3. map' \in Maps /\ map'[id] = o /\ \A q \in Ids \ {id} : map'[q] = map[q]
  BY <1>0, <1>1, <1>2 DEF CoreShape, Maps
<1>4. CoreShape'
  BY <1>0, <1>3 DEF CoreShape
<1>5. Agreed'
  BY <1>3 DEF CoreInv, Agreed, RelayCleanIsOnDisk, Val
<1>6. EverythingAges'
  BY <1>1, <1>3 DEF CoreInv, EverythingAges
<1>7. KnownIsRelayed'
  BY <1>1, <1>3 DEF CoreInv, KnownIsRelayed, Relayed, InPending
<1> QED BY <1>4, <1>5, <1>6, <1>7 DEF CoreInv

(* An object that came too late is stamped and sent back. *)
LEMMA LateKeeps ==
  ASSUME CoreInv, NEW id \in Ids, NEW obj \in Objects, running, map[id] # None,
         NEW t, buckets' = UpdateStamp(buckets, t, id), Sends(<<Message(id, obj)>>),
         UNCHANGED <<map, dirty, exposed, known, file, writes, relay, now, running>>
  PROVE  CoreInv'
<1>0. CoreShape
  BY DEF CoreInv
<1>1. CoreShape'
  <2>1. remote' \in Maps /\ pending' \in Seq(Mails) /\ (relay # "service" => pending' = <<>>)
    BY OneIsTyped
  <2> QED BY <1>0, <2>1, BucketsTyped DEF CoreShape
<1>2. Agreed'
  BY DEF CoreInv, Agreed, RelayCleanIsOnDisk, Val
<1>3. EverythingAges'
  <2>1. PICK s \in map[id].stamp..now : id \in buckets[s]
    BY DEF CoreInv, EverythingAges
  <2>2. map[id].stamp \in Nat
    BY <1>0, TimesAre DEF CoreShape, Maps, Objects
  <2>3. now \in Nat
    BY <1>0, TimesAre DEF CoreShape
  <2>4. map'[id].stamp \in Nat /\ map'[id].stamp <= now
    BY <2>1, <2>2, <2>3
  <2> QED BY <2>4, BucketsTyped, TouchAges
<1>4. KnownIsRelayed'
  <2> SUFFICES ASSUME relay # "none", NEW q \in known, map[q] = None
               PROVE  Relayed(q)'
    BY DEF KnownIsRelayed
  <2>1. q \in Ids /\ Relayed(q)
    BY <1>0 DEF CoreShape, CoreInv, KnownIsRelayed
  <2> QED BY <2>1, SendsOthers, ObjectIsSomething
<1> QED BY <1>1, <1>2, <1>3, <1>4 DEF CoreInv

(* The stash interval: what is pruned was sent before. *)
LEMMA PruneList ==
  ASSUME CoreInv, NEW order \in Bijection(1..Cardinality(AgedIds), AgedIds)
  PROVE  /\ SentWhenPruned(order) \in Seq(Mails)
         /\ \A i \in DOMAIN SentWhenPruned(order) :
               SentWhenPruned(order)[i].obj # None
         /\ \A q \in AgedIds : \E i \in DOMAIN SentWhenPruned(order) :
               SentWhenPruned(order)[i].id = q
<1>1. AgedIds \subseteq Ids /\ \A q \in AgedIds : map[q] # None
  BY DEF AgedIds, CoreInv, CoreShape, Aged
<1>2. IsFiniteSet(AgedIds)
  BY <1>1, RelayAssumption, FS_Subset
<1> DEFINE n == Cardinality(AgedIds)
<1>3. n \in Nat
  BY <1>2, FS_CardinalityType
<1>4. order \in [1 .. n -> AgedIds] /\ \A q \in AgedIds : \E i \in 1 .. n : order[i] = q
  BY DEF Bijection, Injection, Surjection
<1> HIDE DEF n
<1>5. SentWhenPruned(order) = [i \in 1 .. n |-> [id |-> order[i], obj |-> map[order[i]]]]
  BY <1>4 DEF SentWhenPruned, Message
<1>6. \A i \in 1 .. n : /\ [id |-> order[i], obj |-> map[order[i]]] \in Mails
                        /\ map[order[i]] # None
  BY <1>1, <1>4 DEF Mails, CoreInv, CoreShape, Maps
<1>7. SentWhenPruned(order) \in [1 .. n -> Mails]
  BY <1>5, <1>6
<1>8. SentWhenPruned(order) \in Seq(Mails)
  BY <1>3, <1>7, SeqDef
<1>9. DOMAIN SentWhenPruned(order) = 1 .. n
  BY <1>5
<1>10. \A i \in 1 .. n : /\ SentWhenPruned(order)[i].id = order[i]
                         /\ SentWhenPruned(order)[i].obj # None
  BY <1>5, <1>6
<1>11. \A q \in AgedIds : \E i \in 1 .. n : SentWhenPruned(order)[i].id = q
  BY <1>4, <1>10
<1> QED BY <1>8, <1>9, <1>10, <1>11

LEMMA StashKeeps ==
  ASSUME CoreInv, NEW prunes \in BOOLEAN, Stash(prunes)
  PROVE  CoreInv'
<1> DEFINE gone == IF prunes THEN AgedIds ELSE {}
           kept == [id \in Ids |-> IF id \in gone THEN None ELSE map[id]]
<1>0. CoreShape
  BY DEF CoreInv
<1>1. /\ running /\ dirty /\ map' = kept /\ writes' = writes \cup {kept}
      /\ buckets' = [t \in Times |-> IF t \in Aged /\ prunes THEN {} ELSE buckets[t]]
      /\ exposed' = IF writes = {} THEN {} ELSE exposed \cup gone
      /\ UNCHANGED <<dirty, file, relay, known, now, running>>
  BY DEF Stash
<1>2. PICK order \in Bijection(1..Cardinality(AgedIds), AgedIds) :
         Sends(SentWhenPruned(order))
  BY DEF Stash
<1>3. gone \subseteq AgedIds /\ gone \subseteq Ids
  <2>1. AgedIds \subseteq Ids
    BY <1>0 DEF CoreShape, AgedIds, Aged
  <2> QED BY <2>1
<1>4. kept \in Maps /\ \A q \in Ids : kept[q] = IF q \in gone THEN None ELSE map[q]
  BY <1>0 DEF CoreShape, Maps
<1>5. \A q \in Ids, t \in Times :
         q \notin gone /\ map[q] # None /\ q \in buckets[t] => q \in buckets'[t]
  BY <1>1 DEF AgedIds, Aged
<1> HIDE DEF gone, kept
<1>6. CoreShape'
  <2>1. remote' \in Maps /\ pending' \in Seq(Mails) /\ (relay # "service" => pending' = <<>>)
    BY <1>2, PruneList, SendsTyped
  <2>2. buckets' \in [Times -> SUBSET Ids]
    BY <1>0, <1>1 DEF CoreShape
  <2>3. exposed' \subseteq Ids /\ writes' \subseteq Maps
    BY <1>0, <1>1, <1>3, <1>4 DEF CoreShape
  <2> QED BY <1>0, <1>1, <1>4, <2>1, <2>2, <2>3 DEF CoreShape
<1>7. Agreed'
  <2>1. ASSUME NEW m \in writes', NEW q \in Ids \ exposed'
        PROVE  Val(m, q)' = Val(map, q)'
    <3>1. CASE m = kept
      BY <1>1, <3>1 DEF Val
    <3>2. CASE m \in writes
      <4>1. q \notin gone /\ q \notin exposed
        BY <1>1, <3>2
      <4>2. Val(m, q) = Val(map, q) /\ map'[q] = map[q]
        BY <1>1, <1>4, <3>2, <4>1 DEF CoreInv, Agreed
      <4> QED BY <4>2 DEF Val
    <3> QED BY <1>1, <3>1, <3>2
  <2> QED BY <1>1, <2>1 DEF Agreed, RelayCleanIsOnDisk, Val
<1>8. EverythingAges'
  <2> SUFFICES ASSUME NEW q \in Ids, map'[q] # None
               PROVE  \E t \in map'[q].stamp..now : q \in buckets'[t]
    BY <1>1 DEF EverythingAges
  <2>1. q \notin gone /\ map'[q] = map[q] /\ map[q] # None
    BY <1>1, <1>4
  <2>2. PICK t \in map[q].stamp..now : q \in buckets[t]
    BY <2>1 DEF CoreInv, EverythingAges
  <2>3. t \in Times
    BY <1>0, <2>1, RelayAssumption DEF CoreShape, Maps, Objects, Times
  <2> QED BY <1>5, <2>1, <2>2, <2>3
<1>9. KnownIsRelayed'
  <2> SUFFICES ASSUME relay # "none", NEW q \in known, map'[q] = None
               PROVE  Relayed(q)'
    BY <1>1 DEF KnownIsRelayed
  <2>1. q \in Ids
    BY <1>0 DEF CoreShape
  <2>2. q \in AgedIds \/ Relayed(q)
    BY <1>1, <1>3, <1>4, <2>1 DEF CoreInv, KnownIsRelayed
  <2> QED BY <1>2, <2>1, <2>2, PruneList, SendsRelay
<1> QED BY <1>6, <1>7, <1>8, <1>9 DEF CoreInv

(* A write ends, well or not. *)
LEMMA WrittenKeeps ==
  ASSUME CoreInv, Written
  PROVE  CoreInv'
<1>1. PICK m \in writes :
         /\ writes' = writes \ {m}
         /\ (file' = m /\ exposed' = exposed) \/ (exposed' = Ids /\ file' \in {file, Empty})
         /\ dirty' = FALSE
         /\ UNCHANGED <<map, buckets, relay, remote, pending, known, now, running>>
  BY DEF Written
<1>2. CoreShape'
  <2>1. CoreShape /\ Empty \in Maps
    BY DEF CoreInv, Empty, Maps
  <2> QED BY <1>1, <2>1 DEF CoreShape
<1>3. \A w \in writes', q \in Ids \ exposed' : Val(w, q)' = Val(map, q)'
  BY <1>1 DEF CoreInv, Agreed, Val
<1>4. RelayCleanIsOnDisk'
  BY <1>1 DEF CoreInv, Agreed, RelayCleanIsOnDisk, Val
<1>5. Agreed'
  BY <1>1, <1>3, <1>4 DEF CoreInv, Agreed, Val
<1>6. EverythingAges' /\ KnownIsRelayed'
  BY <1>1 DEF CoreInv, EverythingAges, KnownIsRelayed, Relayed, InPending
<1> QED BY <1>2, <1>5, <1>6 DEF CoreInv

(* The service stores or loses the first message: what is behind counts.   *)
LEMMA DeliveredKeeps ==
  ASSUME CoreInv, Delivered
  PROVE  CoreInv'
<1> DEFINE m == pending[1]
<1>0. CoreShape /\ pending \in Seq(Mails) /\ pending # <<>> /\ Len(pending) \in Nat
  BY DEF CoreInv, CoreShape, Delivered
<1>1. /\ Head(pending) = m /\ m \in Mails /\ 1 \in DOMAIN pending
      /\ pending' \in Seq(Mails) /\ Len(pending') = Len(pending) - 1
      /\ DOMAIN pending' = 1 .. Len(pending) - 1
      /\ \A i \in DOMAIN pending' : pending'[i] = pending[i + 1]
  BY <1>0 DEF Delivered
<1>2. /\ (remote' = [remote EXCEPT ![m.id] = m.obj] /\ known' = known)
            \/ (known' = known \ {m.id} /\ remote' = remote)
      /\ UNCHANGED <<map, buckets, dirty, file, writes, relay, exposed, now, running>>
  BY <1>1 DEF Delivered
<1>3. CoreShape'
  <2>1. relay = "service"
    BY <1>0 DEF CoreShape
  <2>2. remote' \in Maps
    BY <1>0, <1>1, <1>2 DEF CoreShape, Maps, Mails
  <2> QED BY <1>0, <1>1, <1>2, <2>1, <2>2 DEF CoreShape
<1>4. Agreed' /\ EverythingAges'
  BY <1>2 DEF CoreInv, Agreed, RelayCleanIsOnDisk, Val, EverythingAges
<1>5. KnownIsRelayed'
  <2> SUFFICES ASSUME relay # "none", NEW q \in known', map[q] = None
               PROVE  Relayed(q)'
    BY <1>2 DEF KnownIsRelayed
  <2>1. q \in known /\ q \in Ids /\ Relayed(q)
    BY <1>0, <1>2 DEF CoreShape, CoreInv, KnownIsRelayed
  <2>2. q = m.id => remote'[q] = m.obj
    BY <1>0, <1>2, <2>1 DEF CoreShape, Maps
  <2>3. q # m.id => remote'[q] = remote[q]
    BY <1>0, <1>2, <2>1 DEF CoreShape, Maps
  <2>4. CASE InPending(q)
    <3>1. PICK i \in DOMAIN pending :
             /\ pending[i].id = q /\ pending[i].obj # None
             /\ \A j \in (i + 1)..Len(pending) : pending[j].id = q => pending[j].obj # None
      BY <2>4 DEF InPending
    <3>2. CASE i = 1
      <4>1. remote'[q] # None
        BY <2>2, <3>1, <3>2
      <4>2. ASSUME NEW j \in DOMAIN pending', pending'[j].id = q
            PROVE  pending'[j].obj # None
        <5>1. j + 1 \in (i + 1) .. Len(pending)
          BY <1>0, <1>1, <3>2
        <5> QED BY <1>1, <3>1, <4>2, <5>1
      <4> QED BY <4>1, <4>2 DEF Relayed
    <3>3. CASE i # 1
      <4>1. i - 1 \in DOMAIN pending' /\ pending'[i - 1] = pending[i]
        BY <1>0, <1>1, <3>3
      <4>2. ASSUME NEW j \in ((i - 1) + 1) .. Len(pending'), pending'[j].id = q
            PROVE  pending'[j].obj # None
        <5>1. j + 1 \in (i + 1) .. Len(pending) /\ j \in DOMAIN pending'
          BY <1>0, <1>1
        <5> QED BY <1>1, <3>1, <4>2, <5>1
      <4> QED BY <3>1, <4>1, <4>2 DEF Relayed, InPending
    <3> QED BY <3>2, <3>3
  <2>5. CASE /\ remote[q] # None
             /\ \A i \in DOMAIN pending : pending[i].id = q => pending[i].obj # None
    <3>1. remote'[q] # None
      BY <1>1, <2>2, <2>3, <2>5
    <3>2. ASSUME NEW j \in DOMAIN pending', pending'[j].id = q
          PROVE  pending'[j].obj # None
      <4>1. j + 1 \in DOMAIN pending
        BY <1>0, <1>1
      <4> QED BY <1>1, <2>5, <3>2, <4>1
    <3> QED BY <3>1, <3>2 DEF Relayed
  <2> QED BY <2>1, <2>4, <2>5 DEF Relayed
<1> QED BY <1>3, <1>4, <1>5 DEF CoreInv

LEMMA StopsKeep ==
  ASSUME CoreInv, Stops
  PROVE  CoreInv'
<1>1. /\ running' = FALSE /\ map' = Empty /\ dirty' = FALSE /\ writes' = {}
      /\ pending' = <<>> /\ buckets' = [t \in Times |-> {}] /\ known' = {}
      /\ file' \in {file, Empty}
      /\ UNCHANGED <<relay, remote, exposed, now>>
  BY DEF Stops, StopsWith
<1>2. CoreShape'
  <2>1. map' \in Maps /\ Empty \in Maps
    BY <1>1 DEF Empty, Maps
  <2>2. buckets' \in [Times -> SUBSET Ids]
    BY <1>1
  <2>3. pending' \in Seq(Mails) /\ known' \subseteq Ids /\ writes' \subseteq Maps
    BY <1>1
  <2>4. CoreShape
    BY DEF CoreInv
  <2> QED BY <1>1, <2>1, <2>2, <2>3, <2>4 DEF CoreShape
<1> QED BY <1>1, <1>2
        DEF CoreInv, Agreed, RelayCleanIsOnDisk, EverythingAges, KnownIsRelayed, Empty

LEMMA StartsKeep ==
  ASSUME CoreInv, Starts
  PROVE  CoreInv'
<1>0. CoreShape /\ writes = {} /\ dirty = FALSE
  BY DEF CoreInv, Agreed, Starts, CoreShape
<1>1. /\ running' = TRUE /\ map' = Stamped(file) /\ buckets' = ChronoUpdateAll
      /\ known' = {id \in Ids : file[id] # None} /\ exposed' = {}
      /\ UNCHANGED <<dirty, file, writes, relay, remote, pending, now>>
  BY DEF Starts
<1>2. ASSUME NEW q \in Ids
      PROVE  /\ map'[q] \in Objects \cup {None}
             /\ file[q] = None => map'[q] = None
             /\ file[q] # None => /\ map'[q] # None /\ map'[q].stamp = now
                                  /\ map'[q].val = file[q].val
  <2>1. CASE file[q] = None
    BY <1>1, <2>1 DEF Stamped
  <2>2. CASE file[q] # None
    <3>1. file[q] \in Objects
      BY <1>0, <2>2 DEF CoreShape, Maps
    <3>2. PICK o : o = [file[q] EXCEPT !.stamp = now]
      OBVIOUS
    <3>3. o \in Objects /\ o.stamp = now /\ o.val = file[q].val
      BY <1>0, <3>1, <3>2 DEF Objects, CoreShape
    <3>4. map'[q] = o
      BY <1>1, <2>2, <3>2 DEF Stamped
    <3> QED BY <2>2, <3>3, <3>4, ObjectIsSomething
  <2> QED BY <2>1, <2>2
<1>3. map' \in Maps
  BY <1>1, <1>2 DEF Maps, Stamped
<1>4. CoreShape'
  <2>1. buckets' \in [Times -> SUBSET Ids]
    BY <1>1 DEF ChronoUpdateAll
  <2>2. known' \subseteq Ids
    BY <1>1
  <2> QED BY <1>0, <1>1, <1>3, <2>1, <2>2 DEF CoreShape
<1>5. Agreed'
  <2>1. \A q \in Ids : Val(file, q)' = Val(map, q)'
    BY <1>1, <1>2 DEF Val
  <2> QED BY <1>0, <1>1, <2>1 DEF Agreed, RelayCleanIsOnDisk
<1>6. EverythingAges'
  <2> SUFFICES ASSUME NEW q \in Ids, map'[q] # None
               PROVE  \E t \in map'[q].stamp..now : q \in buckets'[t]
    BY <1>1 DEF EverythingAges
  <2>1. file[q] # None /\ map'[q].stamp = now
    BY <1>2
  <2>2. now \in Times /\ now \in Nat
    BY <1>0, TimesAre DEF CoreShape
  <2>3. q \in buckets'[now] /\ now \in map'[q].stamp..now
    BY <1>1, <2>1, <2>2 DEF ChronoUpdateAll
  <2> QED BY <2>3
<1>7. KnownIsRelayed'
  BY <1>1, <1>2 DEF KnownIsRelayed
<1> QED BY <1>4, <1>5, <1>6, <1>7 DEF CoreInv

LEMMA TickKeeps ==
  ASSUME CoreInv, Tick
  PROVE  CoreInv'
<1>0. /\ CoreShape /\ now \in Nat /\ now' = now + 1 /\ now' \in Times
      /\ UNCHANGED <<map, buckets, dirty, file, writes, relay, remote, pending, exposed,
                     known, running>>
  BY TimesAre, RelayAssumption DEF CoreInv, CoreShape, Tick, Times
<1>1. CoreShape' /\ Agreed' /\ KnownIsRelayed'
  BY <1>0 DEF CoreInv, CoreShape, Agreed, RelayCleanIsOnDisk, Val, KnownIsRelayed,
              Relayed, InPending
<1>2. EverythingAges'
  <2> SUFFICES ASSUME NEW q \in Ids, map[q] # None
               PROVE  \E t \in map[q].stamp..now' : q \in buckets[t]
    BY <1>0 DEF EverythingAges
  <2>1. PICK t \in map[q].stamp..now : q \in buckets[t]
    BY DEF CoreInv, EverythingAges
  <2>2. t \in map[q].stamp..now'
    BY <1>0
  <2> QED BY <2>1, <2>2
<1> QED BY <1>1, <1>2 DEF CoreInv

LEMMA SameKeeps ==
  ASSUME CoreInv, UNCHANGED coreVars
  PROVE  CoreInv'
<1>1. CoreShape'
  BY DEF coreVars, CoreInv, CoreShape
<1>2. Agreed'
  BY DEF coreVars, CoreInv, Agreed, RelayCleanIsOnDisk, Val
<1>3. EverythingAges' /\ KnownIsRelayed'
  BY DEF coreVars, CoreInv, EverythingAges, KnownIsRelayed, Relayed, InPending
<1> QED BY <1>1, <1>2, <1>3 DEF CoreInv


-----------------------------------------------------------------------------
(* The relay store keeps its invariant. *)

(* What findOne does to the objects, and the late answers of it. *)
LEMMA FindKeeps ==
  ASSUME CoreInv, NEW id \in Ids, FindInMap(id)
  PROVE  CoreInv'
<1>1. map[id] \in Objects /\ running /\ map[id] # None
  BY DEF FindInMap, CoreInv, CoreShape, Maps
<1>2. PICK v : v = map[id].val
  OBVIOUS
<1>3. v \in Vals \cup {None}
  BY <1>1, <1>2 DEF Objects
<1>4. map' = [map EXCEPT ![id] = [val |-> v, stamp |-> now]]
  <2>1. map' = [map EXCEPT ![id].stamp = now]
    BY DEF FindInMap
  <2>2. [map[id] EXCEPT !.stamp = now] = [val |-> v, stamp |-> now]
    BY <1>1, <1>2 DEF Objects
  <2> QED BY <2>1, <2>2 DEF CoreInv, CoreShape, Maps
<1>5. /\ buckets' = UpdateStamp(buckets, map[id].stamp, id)
      /\ UNCHANGED <<dirty, file, writes, relay, remote, pending, exposed, known, now,
                     running>>
  BY DEF FindInMap
<1> QED BY <1>1, <1>2, <1>3, <1>4, <1>5, UseKeeps

LEMMA FetchedKeeps ==
  ASSUME RelayInv, NEW c \in Callers, Fetched(c)
  PROVE  CoreInv'
<1> DEFINE id == finding[c].id
           obj == finding[c].obj
<1>0. finding[c] \in Findings /\ obj # None /\ running
  BY DEF Fetched, RelayInv, FindingShape
<1>1. id \in Ids /\ obj \in Objects /\ obj.val \in Vals \cup {None}
  BY <1>0 DEF Findings, Objects
<1>2. UNCHANGED <<file, writes, relay, now, running>>
  BY DEF Fetched
<1>3. CASE map[id] = None
  <2>1. PICK o : o = [obj EXCEPT !.stamp = now]
    OBVIOUS
  <2>2. o \in Objects
    BY <1>1, <2>1 DEF Objects, RelayInv, CoreInv, CoreShape
  <2>3. AddToStorageMap(id, obj.val) /\ Sends(<<Message(id, o)>>)
    BY <1>3, <2>1 DEF Fetched
  <2> HIDE DEF id, obj
  <2> QED BY <1>0, <1>1, <1>2, <2>2, <2>3, AddKeeps DEF RelayInv
<1>4. CASE map[id] # None
  <2>1. /\ buckets' = UpdateStamp(buckets, obj.stamp, id)
        /\ Sends(<<Message(id, obj)>>)
        /\ UNCHANGED <<map, dirty, exposed, known>>
    BY <1>4 DEF Fetched
  <2> HIDE DEF id, obj
  <2> QED BY <1>0, <1>1, <1>2, <1>4, <2>1, LateKeeps DEF RelayInv
<1> QED BY <1>3, <1>4


LEMMA FindingKeeps ==
  ASSUME RelayInv, RelayNext
  PROVE  FindingShape'
<1>0. FindingShape /\ remote \in Maps /\ running \in BOOLEAN
  BY DEF RelayInv, CoreInv, CoreShape
<1>1. ASSUME NEW c \in Callers, NEW id \in Ids, FindElsewhere(c, id)
      PROVE  FindingShape'
  <2>1. PICK f : f = [id |-> id, answered |-> FALSE, obj |-> None]
    OBVIOUS
  <2>2. f \in Findings
    BY <2>1 DEF Findings
  <2>3. finding' = [finding EXCEPT ![c] = f] /\ running' = running /\ running
    BY <1>1, <2>1 DEF FindElsewhere, Called
  <2> QED BY <1>0, <2>2, <2>3 DEF FindingShape
<1>2. ASSUME NEW c \in Callers, Answers(c)
      PROVE  FindingShape'
  <2>1. finding[c] \in Findings /\ running
    BY <1>0, <1>2 DEF Answers, Asking, FindingShape
  <2>2. PICK f : f = [finding[c] EXCEPT !.answered = TRUE, !.obj = remote[finding[c].id]]
    OBVIOUS
  <2>3. f \in Findings
    BY <1>0, <2>1, <2>2 DEF Findings, Maps
  <2>4. finding' = [finding EXCEPT ![c] = f] /\ running' = running
    <3>1. /\ finding' = [finding EXCEPT ![c].answered = TRUE,
                                        ![c].obj = remote[finding[c].id]]
          /\ running' = running
      BY <1>2 DEF Answers
    <3> QED BY <1>0, <2>2, <3>1 DEF FindingShape
  <2> QED BY <1>0, <2>1, <2>3, <2>4 DEF FindingShape
<1>3. ASSUME NEW c \in Callers, FindFails(c) \/ Fetched(c)
      PROVE  FindingShape'
  <2>1. finding' = [finding EXCEPT ![c] = None] /\ running' = running
    BY <1>3 DEF FindFails, Fetched
  <2> QED BY <1>0, <2>1 DEF FindingShape
<1>4. CASE Stops
  <2>1. finding' = [c \in Callers |-> None]
    BY <1>4 DEF Stops, StopsWith
  <2> QED BY <2>1 DEF FindingShape
<1>5. CASE Starts
  BY <1>0, <1>5 DEF Starts, FindingShape
<1>6. CASE UNCHANGED <<finding, running>>
  BY <1>0, <1>6 DEF FindingShape
<1>7. CASE \E id \in Ids : \/ \E v \in Vals : Update(id, v)
                           \/ Delete(id) \/ FindInMap(id)
  BY <1>6, <1>7 DEF Update, Delete, FindInMap
<1>8. CASE Delivered \/ Stash(TRUE) \/ Written \/ Tick
  BY <1>6, <1>8 DEF Delivered, Stash, Written, Tick
<1> QED BY <1>1, <1>2, <1>3, <1>4, <1>5, <1>7, <1>8 DEF RelayNext

LEMMA RelayKeeps ==
  ASSUME RelayInv, RelayNext \/ UNCHANGED relayVars
  PROVE  RelayInv'
<1>0. CoreInv
  BY DEF RelayInv
<1>1. ASSUME NEW id \in Ids, NEW v \in Vals, Update(id, v)
      PROVE  CoreInv'
  <2>1. PICK o : o = [val |-> v, stamp |-> now]
    OBVIOUS
  <2>2. o \in Objects
    BY <1>0, <2>1 DEF Objects, CoreInv, CoreShape
  <2>3. /\ running /\ AddToStorageMap(id, v) /\ Sends(<<Message(id, o)>>)
        /\ UNCHANGED <<file, writes, relay, now, running>>
    BY <1>1, <2>1 DEF Update, Called
  <2> QED BY <1>0, <2>2, <2>3, AddKeeps
<1>2. ASSUME NEW id \in Ids, Delete(id)
      PROVE  CoreInv'
  <2>1. /\ running /\ map' = [map EXCEPT ![id] = None] /\ dirty' = TRUE /\ Exposes(id)
        /\ known' = known \ {id} /\ Sends(<<Message(id, None)>>)
        /\ UNCHANGED <<buckets, file, writes, relay, now, running>>
    BY <1>2 DEF Delete, Called
  <2> QED BY <1>0, <2>1, DropKeeps
<1>3. ASSUME NEW c \in Callers, NEW id \in Ids, FindElsewhere(c, id)
      PROVE  CoreInv'
  BY <1>0, <1>3, SameKeeps DEF FindElsewhere, coreVars
<1>4. ASSUME NEW c \in Callers, Answers(c) \/ FindFails(c)
      PROVE  CoreInv'
  BY <1>0, <1>4, SameKeeps DEF Answers, FindFails, coreVars
<1>5. CASE UNCHANGED relayVars
  <2>1. UNCHANGED coreVars
    BY <1>5 DEF relayVars, coreVars
  <2>2. finding' = finding /\ running' = running
    BY <1>5 DEF relayVars
  <2>3. FindingShape'
    BY <2>2 DEF RelayInv, FindingShape
  <2> QED BY <1>0, <2>1, <2>3, SameKeeps DEF RelayInv
<1>6. CASE RelayNext
  <2>1. CoreInv'
    BY <1>0, <1>1, <1>2, <1>3, <1>4, <1>6, FindKeeps, FetchedKeeps, DeliveredKeeps,
       StashKeeps, WrittenKeeps, StopsKeep, StartsKeep, TickKeeps DEF RelayNext
  <2> QED BY <1>6, <2>1, FindingKeeps DEF RelayInv
<1> QED BY <1>5, <1>6


-----------------------------------------------------------------------------
(* The static store.  Its keys share nothing: every id belongs to one key, *)
(* so the invariant says of each key what its tables, the objects of its   *)
(* ids and the calls under way for it have to do with each other, and an   *)
(* action disturbs one key at most.                                        *)

PageReps == [obj : Vals \cup {None}, flat : Vals \cup {None}, hooked : BOOLEAN,
             inMap : BOOLEAN, callers : SUBSET Callers, writing : BOOLEAN]
Pcs == {"search", "find", "confirm", "adopt"}
CallReps == [op : {"get", "set"}, key : Keys, val : Vals, pc : Pcs,
             id : Ids \cup {None}, alone : BOOLEAN]

TablesShape ==
    /\ whoId \in [Keys -> Ids \cup {None}] /\ whoHash \in [Keys -> Ids \cup {None}]
    /\ last \in [Keys -> Vals \cup {None}]
    /\ unhooks \in BOOLEAN

PagesShape ==
    /\ pages \in [Ids -> PageReps \cup {None}]
    /\ blobs \in [Ids -> Vals \cup {None}]
    /\ backup \in [id : Ids, flat : Vals] \cup {None}
    /\ cut \subseteq Ids
    /\ \A id \in Ids : Away(id) =>
          unhooks /\ (blobs[id] # None \/ Rewritten(id) \/ id \in cut)

CallsShape ==
    /\ call \in [Callers -> CallReps \cup {None}]
    /\ running \/ \A c \in Callers : call[c] = None

StaticShape == TablesShape /\ PagesShape /\ CallsShape

(* The tables name ids of the key, and so do the calls.                    *)
CallFor(c, k) == call[c] # None /\ call[c].key = k

Named(k) ==
    /\ whoId[k] # None => Owner[whoId[k]] = k
    /\ whoHash[k] # None => whoHash[k] = whoId[k]
    /\ \A c \in Callers : CallFor(c, k) /\ call[c].pc # "search" =>
          call[c].id \in Ids /\ Owner[call[c].id] = k
    /\ \A c \in Callers : CallFor(c, k) /\ call[c].pc = "search" => call[c].id = None

Backed(k) ==
    relay # "service" /\ whoId[k] # None =>
        map[whoId[k]] # None \/ pages[whoId[k]] # None

(* What was set is read, unless a call is under way; a call that is alone  *)
(* is, and what waits to be confirmed stands in the page.                  *)
Read(k) ==
    /\ last[k] # None => ~Busy(k) /\ Visible(k) = last[k]
    /\ \A c \in Callers : CallFor(c, k) /\ call[c].alone =>
          /\ \A d \in Callers : CallFor(d, k) => d = c
          /\ call[c].pc = "confirm" => PageOf(k) # None /\ PageOf(k).obj = call[c].val

KeyInv(k) == Named(k) /\ Backed(k) /\ (~unhooks => Read(k))

StaticInv ==
    /\ CoreInv /\ FindingShape /\ StaticShape
    /\ \A k \in Keys : KeyInv(k)

(* What a step on behalf of key k leaves alone.                            *)
Spares(k) ==
    /\ relay' = relay /\ unhooks' = unhooks
    /\ \A id \in Ids : Owner[id] # k => map'[id] = map[id] /\ pages'[id] = pages[id]
    /\ \A q \in Keys \ {k} :
          /\ whoId'[q] = whoId[q] /\ whoHash'[q] = whoHash[q] /\ last'[q] = last[q]
          /\ \A c \in Callers : CallFor(c, q) \/ CallFor(c, q)' => call'[c] = call[c]

LEMMA SparesKeys ==
  ASSUME StaticInv, NEW k \in Keys, Spares(k), KeyInv(k)'
  PROVE  \A q \in Keys : KeyInv(q)'
<1> SUFFICES ASSUME NEW q \in Keys \ {k}
             PROVE  KeyInv(q)'
  OBVIOUS
<1>0. KeyInv(q) /\ TablesShape /\ relay' = relay /\ unhooks' = unhooks
  BY DEF StaticInv, StaticShape, Spares
<1>1. /\ whoId'[q] = whoId[q] /\ whoHash'[q] = whoHash[q] /\ last'[q] = last[q]
      /\ whoId[q] \in Ids \cup {None} /\ whoHash[q] \in Ids \cup {None}
  BY <1>0 DEF Spares, TablesShape
<1>2. \A c \in Callers : CallFor(c, q) \/ CallFor(c, q)' => call'[c] = call[c]
  BY DEF Spares
<1>3. \A c \in Callers : CallFor(c, q)' <=> CallFor(c, q)
  BY <1>2 DEF CallFor
<1>4. whoId[q] # None => /\ map'[whoId[q]] = map[whoId[q]]
                         /\ pages'[whoId[q]] = pages[whoId[q]]
  BY <1>0, <1>1 DEF KeyInv, Named, Spares
<1>5. whoHash[q] # None => pages'[whoHash[q]] = pages[whoHash[q]]
  BY <1>0, <1>1, <1>4 DEF KeyInv, Named
<1>6. Named(q)'
  BY <1>0, <1>1, <1>2, <1>3 DEF KeyInv, Named
<1>7. Backed(q)'
  BY <1>0, <1>1, <1>4 DEF KeyInv, Backed
<1>8. ASSUME ~unhooks PROVE Read(q)'
  <2>1. Busy(q)' <=> Busy(q)
    BY <1>3 DEF Busy, CallFor
  <2>2. PageOf(q)' = PageOf(q)
    BY <1>1, <1>5 DEF PageOf
  <2>3. PageOf(q) # None => /\ pages'[whoHash[q]] = pages[whoHash[q]]
                            /\ pages[whoHash[q]].hooked
                            /\ whoHash'[q] = whoHash[q]
    BY <1>1, <1>5, <1>8 DEF PageOf, StaticInv, StaticShape, PagesShape, Away
  <2>4. PageOf(q) # None => (Hooked(whoHash[q]).obj)' = Hooked(whoHash[q]).obj
    BY <2>3 DEF Hooked
  <2>5. Visible(q)' = Visible(q)
    BY <1>1, <1>4, <2>2, <2>4 DEF Visible
  <2> QED BY <1>0, <1>1, <1>2, <1>3, <1>8, <2>1, <2>2, <2>5 DEF KeyInv, Read
<1> QED BY <1>0, <1>6, <1>7, <1>8 DEF KeyInv


(* Pages and calls are never None. *)
LEMMA PageIsSomething ==
  ASSUME NEW p \in PageReps
  PROVE  p # None
BY StaticAssumption DEF PageReps

LEMMA CallIsSomething ==
  ASSUME NEW p \in CallReps
  PROVE  p # None
BY StaticAssumption DEF CallReps, Pcs

LEMMA BackupIsSomething ==
  ASSUME NEW b \in [id : Ids, flat : Vals]
  PROVE  b # None
BY StaticAssumption

LEMMA HookedIs ==
  ASSUME StaticInv, NEW id \in Ids, pages[id] # None
  PROVE  /\ Hooked(id) \in PageReps /\ (Hooked(id).hooked \/ Hooked(id) = pages[id])
         /\ ~unhooks => Hooked(id) = pages[id] /\ pages[id].hooked
         /\ Hooked(id).inMap => Hooked(id) = pages[id]
<1>1. pages[id] \in PageReps /\ blobs[id] \in Vals \cup {None}
  BY DEF StaticInv, StaticShape, PagesShape
<1>2. ~unhooks => pages[id].hooked
  BY DEF StaticInv, StaticShape, PagesShape, Away
<1>3. CASE pages[id].hooked \/ blobs[id] = None
  BY <1>1, <1>2, <1>3 DEF Hooked
<1>4. CASE ~(pages[id].hooked \/ blobs[id] = None)
  <2>1. PICK p : p = [Page(blobs[id]) EXCEPT !.flat = None, !.writing = pages[id].writing]
    OBVIOUS
  <2>2. p \in PageReps /\ p.hooked /\ ~p.inMap
    BY <1>1, <2>1 DEF PageReps, Page
  <2>3. Hooked(id) = p
    BY <1>4, <2>1 DEF Hooked
  <2> QED BY <1>2, <1>4, <2>2, <2>3
<1> QED BY <1>3, <1>4

LEMMA PutsPage ==
  ASSUME StaticInv, NEW id, NEW p \in PageReps \cup {None},
         p # None => p.hooked \/ (pages[id] # None /\ p.hooked = pages[id].hooked),
         pages' = [pages EXCEPT ![id] = p],
         blobs' = blobs, backup' = backup, unhooks' = unhooks, cut' = cut
  PROVE  PagesShape'
<1>0. PagesShape
  BY DEF StaticInv, StaticShape
<1>1. pages' \in [Ids -> PageReps \cup {None}] /\ \A q \in Ids \ {id} : pages'[q] = pages[q]
  BY <1>0 DEF PagesShape
<1>2. id \in Ids => pages'[id] = p
  BY <1>0 DEF PagesShape
<1>3. \A q \in Ids : Away(q)' => Away(q)
  BY <1>1, <1>2 DEF Away
<1> QED BY <1>0, <1>1, <1>3 DEF PagesShape, Rewritten

LEMMA SamePages ==
  ASSUME StaticInv, pages' = pages, blobs' = blobs, backup' = backup, unhooks' = unhooks,
         cut' = cut
  PROVE  PagesShape'
BY DEF StaticInv, StaticShape, PagesShape, Away, Rewritten

LEMMA SameFinding ==
  ASSUME StaticInv, finding' = finding, running' = running
  PROVE  FindingShape'
BY DEF StaticInv, FindingShape

(* Calls that are overlapped are still there, but not alone; those that    *)
(* hold the object that is set see it.                                     *)
Overlapping(k, o) ==
    \/ o = Overlapped(k)
    \/ \E id \in Ids, v \in Vals : Owner[id] = k /\ o = Seen(Overlapped(k), id, v)

LEMMA OverlappedIs ==
  ASSUME StaticInv, NEW k \in Keys, NEW o, Overlapping(k, o)
  PROVE  /\ o \in [Callers -> CallReps \cup {None}]
         /\ \A c \in Callers :
               /\ ~CallFor(c, k) => o[c] = call[c]
               /\ CallFor(c, k) =>
                     /\ o[c] # None /\ o[c].key = k
                     /\ o[c].pc = call[c].pc
                     /\ o[c].id = call[c].id
                     /\ ~o[c].alone
<1> DEFINE w == Overlapped(k)
<1>0. call \in [Callers -> CallReps \cup {None}]
  BY DEF StaticInv, StaticShape, CallsShape
<1>1. ASSUME NEW c \in Callers
      PROVE  /\ w[c] \in CallReps \cup {None}
             /\ ~CallFor(c, k) => w[c] = call[c]
             /\ CallFor(c, k) =>
                   /\ w[c] \in CallReps /\ w[c].key = k
                   /\ w[c].pc = call[c].pc
                   /\ w[c].id = call[c].id
                   /\ ~w[c].alone
  <2>1. CASE ~CallFor(c, k)
    BY <1>0, <2>1 DEF Overlapped, CallFor
  <2>2. CASE CallFor(c, k)
    <3>1. PICK r : r = [call[c] EXCEPT !.alone = FALSE]
      OBVIOUS
    <3>2. call[c] \in CallReps
      BY <1>0, <2>2 DEF CallFor
    <3>3. /\ r \in CallReps /\ r.key = call[c].key /\ r.pc = call[c].pc
          /\ r.id = call[c].id /\ ~r.alone
      BY <3>1, <3>2 DEF CallReps
    <3>4. w[c] = r
      BY <2>2, <3>1 DEF Overlapped, CallFor
    <3> QED BY <2>2, <3>3, <3>4 DEF CallFor
  <2> QED BY <2>1, <2>2
<1>2. CASE o = w
  BY <1>1, <1>2, CallIsSomething DEF Overlapped
<1>3. ASSUME NEW id \in Ids, NEW v \in Vals, Owner[id] = k, o = Seen(w, id, v)
      PROVE  /\ o \in [Callers -> CallReps \cup {None}]
             /\ \A c \in Callers :
                   /\ ~CallFor(c, k) => o[c] = call[c]
                   /\ CallFor(c, k) =>
                         /\ o[c] # None /\ o[c].key = k
                         /\ o[c].pc = call[c].pc
                         /\ o[c].id = call[c].id
                         /\ ~o[c].alone
  <2> HIDE DEF w
  <2>1. ASSUME NEW c \in Callers
        PROVE  /\ o[c] \in CallReps \cup {None}
               /\ ~CallFor(c, k) => o[c] = call[c]
               /\ CallFor(c, k) =>
                     /\ o[c] # None /\ o[c].key = k
                     /\ o[c].pc = call[c].pc
                     /\ o[c].id = call[c].id
                     /\ ~o[c].alone
    <3>1. CASE ~CallFor(c, k)
      <4>1. ASSUME call[c] # None PROVE call[c].id # id
        <5>1. PICK q : q = call[c].key
          OBVIOUS
        <5>2. q \in Keys /\ CallFor(c, q) /\ q # k
          BY <1>0, <3>1, <4>1, <5>1 DEF CallFor, CallReps
        <5>3. Named(q)
          BY <5>2 DEF StaticInv, KeyInv
        <5> QED BY <1>3, <5>2, <5>3, StaticAssumption DEF Named
      <4>2. o[c] = w[c]
        BY <1>1, <1>3, <3>1, <4>1 DEF Seen
      <4> QED BY <1>1, <3>1, <4>2
    <3>2. CASE CallFor(c, k)
      <4>1. PICK r : r = [w[c] EXCEPT !.val = v]
        OBVIOUS
      <4>2. w[c] \in CallReps
        BY <1>1, <3>2
      <4>3. /\ r \in CallReps /\ r.key = w[c].key /\ r.pc = w[c].pc
            /\ r.id = w[c].id /\ r.alone = w[c].alone
        BY <4>1, <4>2 DEF CallReps
      <4>4. o[c] = r \/ o[c] = w[c]
        BY <1>3, <4>1 DEF Seen
      <4> QED BY <1>1, <3>2, <4>2, <4>3, <4>4, CallIsSomething
    <3> QED BY <3>1, <3>2
  <2> QED BY <1>3, <2>1 DEF Seen
<1> QED BY <1>2, <1>3 DEF Overlapping

LEMMA Overlaps ==
  ASSUME StaticInv, NEW k \in Keys, Overlapping(k, call'), running' = running
  PROVE  /\ CallsShape'
         /\ \A c \in Callers :
               /\ CallFor(c, k)' <=> CallFor(c, k)
               /\ ~CallFor(c, k) => call'[c] = call[c]
               /\ CallFor(c, k) => /\ call'[c].pc = call[c].pc
                                   /\ call'[c].id = call[c].id
                                   /\ ~call'[c].alone
         /\ \A q \in Keys \ {k}, c \in Callers :
               CallFor(c, q) \/ CallFor(c, q)' => call'[c] = call[c]
<1> DEFINE o == call'
<1>0. /\ o \in [Callers -> CallReps \cup {None}]
      /\ \A c \in Callers :
            /\ ~CallFor(c, k) => o[c] = call[c]
            /\ CallFor(c, k) =>
                  /\ o[c] # None /\ o[c].key = k
                  /\ o[c].pc = call[c].pc
                  /\ o[c].id = call[c].id
                  /\ ~o[c].alone
  BY OverlappedIs
<1>1. CallsShape'
  BY <1>0 DEF StaticInv, StaticShape, CallsShape, CallFor
<1>2. \A c \in Callers :
         /\ CallFor(c, k)' <=> CallFor(c, k)
         /\ ~CallFor(c, k) => call'[c] = call[c]
         /\ CallFor(c, k) => /\ call'[c].pc = call[c].pc
                             /\ call'[c].id = call[c].id
                             /\ ~call'[c].alone
  BY <1>0 DEF CallFor
<1>3. ASSUME NEW q \in Keys \ {k}, NEW c \in Callers, CallFor(c, q) \/ CallFor(c, q)'
      PROVE  call'[c] = call[c]
  BY <1>2, <1>3 DEF CallFor
<1> QED BY <1>1, <1>2, <1>3


(* get and set of an object that is here. *)
(* What get and set leave at the page: the key reads it afterwards.        *)
LEMMA AtPageKeeps ==
  ASSUME StaticInv, NEW k \in Keys, NEW id \in Ids, id = whoHash[k], pages[id] # None,
         NEW p \in PageReps, p.hooked \/ p.hooked = pages[id].hooked,
         pages' = [pages EXCEPT ![id] = p],
         CoreInv', \A q \in Ids \ {id} : map'[q] = map[q],
         Overlapping(k, call'),
         NEW v \in Vals \cup {None},
         last' = [last EXCEPT ![k] = IF Busy(k) THEN None ELSE v],
         ~unhooks /\ ~Busy(k) /\ v # None => p.obj = v,
         UNCHANGED <<relay, finding, running, whoId, whoHash, blobs, backup, unhooks, cut>>
  PROVE  StaticInv'
<1>0. /\ TablesShape /\ PagesShape /\ KeyInv(k)
  BY DEF StaticInv, StaticShape
<1>1. p # None
  BY PageIsSomething
<1>2. id = whoId[k] /\ Owner[id] = k
  BY <1>0, StaticAssumption DEF KeyInv, Named
<1>3. PagesShape'
  BY <1>1, PutsPage
<1>4. TablesShape'
  BY <1>0 DEF TablesShape
<1>5. CallsShape' /\ FindingShape'
  BY Overlaps, SameFinding
<1>6. pages'[id] = p /\ \A q \in Ids \ {id} : pages'[q] = pages[q]
  BY <1>0 DEF PagesShape
<1>7. Spares(k)
  BY <1>0, <1>2, <1>6, Overlaps DEF Spares, TablesShape
<1>8. Named(k)'
  BY <1>0, Overlaps DEF KeyInv, Named
<1>9. Backed(k)'
  BY <1>1, <1>2, <1>6 DEF Backed
<1>10. ASSUME ~unhooks PROVE Read(k)'
  <2>1. Busy(k)' <=> Busy(k)
    BY Overlaps DEF Busy, CallFor
  <2>2. p.hooked
    BY <1>0, <1>10 DEF PagesShape, Away
  <2>3. Visible(k)' = p.obj
    BY <1>1, <1>2, <1>6, <2>2, StaticAssumption DEF Visible, PageOf, Hooked
  <2>4. last'[k] # None => ~Busy(k) /\ last'[k] = p.obj
    BY <1>0, <1>10 DEF TablesShape
  <2> QED BY <2>1, <2>3, <2>4, Overlaps DEF Read
<1> QED BY <1>3, <1>4, <1>5, <1>7, <1>8, <1>9, <1>10, SparesKeys
        DEF StaticInv, StaticShape, KeyInv

LEMMA PageOfIs ==
  ASSUME StaticInv, NEW k \in Keys, PageOf(k) # None
  PROVE  /\ whoHash[k] \in Ids /\ pages[whoHash[k]] # None /\ whoHash[k] = whoId[k]
         /\ Owner[whoHash[k]] = k /\ pages[whoHash[k]] \in PageReps
BY DEF PageOf, StaticInv, StaticShape, TablesShape, PagesShape, KeyInv, Named

LEMMA GetAtPageKeeps ==
  ASSUME StaticInv, NEW k \in Keys, GetAtPage(k)
  PROVE  StaticInv'
<1>1. PICK id : id = whoHash[k]
  OBVIOUS
<1>2. /\ PageOf(k) # None /\ call' = Overlapped(k)
      /\ pages' = [pages EXCEPT ![id] = Hooked(id)]
      /\ last' = [last EXCEPT ![k] = IF Busy(k) THEN None ELSE @]
      /\ UNCHANGED <<map, buckets, dirty, file, writes, relay, remote, pending, finding,
                     exposed, known, now, running, whoId, whoHash, blobs, backup, unhooks, cut>>
  BY <1>1 DEF GetAtPage, Notes
<1>3. id \in Ids /\ pages[id] # None /\ Hooked(id) \in PageReps
  BY <1>1, <1>2, PageOfIs, HookedIs
<1>4. PICK p \in PageReps : p = Hooked(id)
  BY <1>3
<1>5. p.hooked \/ p.hooked = pages[id].hooked
  BY <1>3, <1>4, HookedIs
<1>6. CoreInv'
  BY <1>2, SameKeeps DEF coreVars, StaticInv
<1>7. PICK v : v = last[k]
  OBVIOUS
<1>8. /\ v \in Vals \cup {None}
      /\ last' = [last EXCEPT ![k] = IF Busy(k) THEN None ELSE v]
  BY <1>2, <1>7 DEF StaticInv, StaticShape, TablesShape
<1>9. ASSUME ~unhooks, ~Busy(k), v # None PROVE p.obj = v
  <2>1. Visible(k) = v
    BY <1>7, <1>9 DEF StaticInv, KeyInv, Read
  <2> QED BY <1>1, <1>2, <1>4, <2>1 DEF Visible
<1>10. Overlapping(k, call')
  BY <1>2 DEF Overlapping
<1>11. pages' = [pages EXCEPT ![id] = p] /\ \A q \in Ids \ {id} : map'[q] = map[q]
  BY <1>2, <1>4
<1>12. UNCHANGED <<relay, finding, running, whoId, whoHash, blobs, backup, unhooks, cut>>
  BY <1>2
<1> QED BY <1>1, <1>3, <1>5, <1>6, <1>8, <1>9, <1>10, <1>11, <1>12, AtPageKeeps

LEMMA SetAtPageKeeps ==
  ASSUME StaticInv, NEW k \in Keys, NEW v \in Vals, SetAtPage(k, v)
  PROVE  StaticInv'
<1>1. PICK id : id = whoHash[k]
  OBVIOUS
<1>2. PICK h : h = Hooked(id)
  OBVIOUS
<1>3. /\ PageOf(k) # None /\ h.hooked /\ map[id] # None
      /\ call' = Seen(Overlapped(k), id, v)
      /\ pages' = [pages EXCEPT ![id] = [h EXCEPT !.obj = v]]
      /\ map' = IF h.inMap THEN [map EXCEPT ![id] = [val |-> v, stamp |-> @.stamp]] ELSE map
      /\ exposed' = IF h.inMap THEN exposed \cup {id} ELSE exposed
      /\ last' = [last EXCEPT ![k] = IF Busy(k) THEN None ELSE v]
      /\ UNCHANGED <<buckets, dirty, file, writes, relay, remote, pending, finding,
                     known, now, running, whoId, whoHash, blobs, backup, unhooks, cut>>
  BY <1>1, <1>2 DEF SetAtPage, Notes, Readable, Assigned
<1>4. id \in Ids /\ pages[id] # None /\ h \in PageReps /\ Owner[id] = k
  BY <1>1, <1>2, <1>3, PageOfIs, HookedIs
<1>5. PICK p : p = [h EXCEPT !.obj = v]
  OBVIOUS
<1>6. p \in PageReps /\ p.hooked /\ p.obj = v
  BY <1>3, <1>4, <1>5 DEF PageReps
<1>7. CoreInv /\ map \in Maps
  BY DEF StaticInv, CoreInv, CoreShape
<1>8. CoreInv' /\ \A q \in Ids \ {id} : map'[q] = map[q]
  <2>1. CASE h.inMap
    <3>1. CoreInv'
      BY <1>3, <1>4, <1>7, <2>1, InPlaceKeeps
    <3> QED BY <1>3, <1>7, <2>1, <3>1 DEF Maps
  <2>2. CASE ~h.inMap
    BY <1>3, <1>7, <2>2, SameKeeps DEF coreVars
  <2> QED BY <2>1, <2>2
<1>9. Overlapping(k, call')
  BY <1>3, <1>4 DEF Overlapping
<1>10. pages' = [pages EXCEPT ![id] = p]
  BY <1>3, <1>5
<1>11. UNCHANGED <<relay, finding, running, whoId, whoHash, blobs, backup, unhooks, cut>>
  BY <1>3
<1>12. last' = [last EXCEPT ![k] = IF Busy(k) THEN None ELSE v]
  BY <1>3
<1> QED BY <1>1, <1>4, <1>6, <1>8, <1>9, <1>10, <1>11, <1>12, AtPageKeeps

(* A set that finds no page to change leaves the object where it is.       *)
LEMMA SetAtNoPageKeeps ==
  ASSUME StaticInv, NEW k \in Keys, SetAtNoPage(k)
  PROVE  StaticInv'
<1>1. PICK id : id = whoHash[k]
  OBVIOUS
<1>2. /\ PageOf(k) # None /\ ~Hooked(id).hooked /\ map[id] # None /\ running
      /\ call' = Overlapped(k)
      /\ map' = [map EXCEPT ![id] = [val |-> @.val, stamp |-> now]]
      /\ buckets' = UpdateStamp(buckets, map[id].stamp, id)
      /\ last' = [last EXCEPT ![k] = None]
      /\ UNCHANGED <<dirty, file, writes, relay, remote, pending, finding, exposed,
                     known, now, running, whoId, whoHash, pages, blobs, backup, unhooks, cut>>
  BY <1>1 DEF SetAtNoPage, Notes, Readable, Called
<1>3. id \in Ids /\ pages[id] # None /\ pages[id] \in PageReps
  BY <1>1, <1>2, PageOfIs
<1>4. PICK p \in PageReps : p = pages[id]
  BY <1>3
<1>5. CoreInv /\ map \in Maps /\ pages \in [Ids -> PageReps \cup {None}]
  BY DEF StaticInv, StaticShape, PagesShape, CoreInv, CoreShape
<1>6. PICK w \in Vals \cup {None} : w = map[id].val
  BY <1>2, <1>3, <1>5 DEF Maps, Objects
<1>7. CoreInv'
  BY <1>2, <1>3, <1>5, <1>6, UseKeeps
<1>8. \A q \in Ids \ {id} : map'[q] = map[q]
  BY <1>2, <1>5 DEF Maps
<1>9. pages' = [pages EXCEPT ![id] = p]
  BY <1>2, <1>3, <1>4, <1>5
<1>10. Overlapping(k, call')
  BY <1>2 DEF Overlapping
<1>11. PICK v \in Vals \cup {None} : v = None
  OBVIOUS
<1>12. last' = [last EXCEPT ![k] = IF Busy(k) THEN None ELSE v]
  BY <1>2, <1>11
<1>13. UNCHANGED <<relay, finding, running, whoId, whoHash, blobs, backup, unhooks, cut>>
  BY <1>2
<1> QED BY <1>1, <1>3, <1>4, <1>7, <1>8, <1>9, <1>10, <1>11, <1>12, <1>13, AtPageKeeps

LEMMA InMapKeeps ==
  ASSUME StaticInv, NEW k \in Keys, NEW op \in {"get", "set"}, NEW v \in Vals,
         InMap(k, op, v)
  PROVE  StaticInv'
<1> DEFINE id == whoId[k]
<1>0. /\ CoreInv /\ CoreShape /\ TablesShape /\ PagesShape /\ KeyInv(k)
  BY DEF StaticInv, StaticShape, CoreInv
<1>1. /\ id # None /\ PageOf(k) = None /\ map[id] # None /\ running
      /\ call' = IF op = "set" /\ pages[id] # None /\ pages[id].inMap
                 THEN Seen(Overlapped(k), id, v) ELSE Overlapped(k)
      /\ pages' = IF op = "set" /\ pages[id] # None /\ pages[id].inMap
                  THEN [pages EXCEPT ![id].obj = v] ELSE pages
      /\ last' = [last EXCEPT ![k] = IF Busy(k) THEN None ELSE IF op = "set" THEN v ELSE @]
      /\ buckets' = UpdateStamp(buckets, map[id].stamp, id)
      /\ exposed' = IF op = "set" THEN exposed \cup {id} ELSE exposed
      /\ UNCHANGED <<dirty, file, writes, relay, remote, pending, finding, known, now,
                     running, whoId, whoHash, blobs, backup, unhooks, cut>>
  BY DEF InMap, Notes, Called
<1>2. id \in Ids /\ Owner[id] = k /\ map[id] \in Objects
  BY <1>0, <1>1 DEF TablesShape, KeyInv, Named, CoreShape, Maps
<1>3. PICK w : w = IF op = "set" THEN v ELSE map[id].val
  OBVIOUS
<1>4. w \in Vals \cup {None} /\ (op = "set" => w = v) /\ (op = "get" => w = map[id].val)
  BY <1>2, <1>3 DEF Objects
<1>5. map' = [map EXCEPT ![id] = [val |-> w, stamp |-> now]]
  BY <1>3 DEF InMap, Assigned
<1>6. [val |-> w, stamp |-> now] \in Objects
  BY <1>0, <1>4 DEF Objects, CoreShape
<1>7. CoreInv'
  <2>1. \/ w = map[id].val /\ exposed' = exposed
        \/ exposed' = exposed \cup {id}
    BY <1>1, <1>4
  <2> QED BY <1>0, <1>1, <1>2, <1>4, <1>5, <2>1, UseKeeps
<1>8. map'[id] # None /\ map'[id].val = w
  <2>1. map'[id] = [val |-> w, stamp |-> now]
    BY <1>0, <1>2, <1>5 DEF CoreShape, Maps
  <2> QED BY <1>6, <2>1, ObjectIsSomething
<1> HIDE DEF id
<1>9. Overlapping(k, call')
  BY <1>1, <1>2 DEF Overlapping
<1>10. PagesShape' /\ (pages' = pages \/ pages[id] # None)
  <2>1. CASE pages' = pages
    BY <1>1, <2>1, SamePages
  <2>2. CASE pages' # pages
    <3>1. PICK p : p = [pages[id] EXCEPT !.obj = v]
      OBVIOUS
    <3>2. pages[id] # None /\ pages[id] \in PageReps
      BY <1>0, <1>1, <1>2, <2>2 DEF PagesShape
    <3>3. p \in PageReps /\ p.hooked = pages[id].hooked
      BY <3>1, <3>2 DEF PageReps
    <3>4. pages' = [pages EXCEPT ![id] = p]
      BY <1>1, <2>2, <3>1
    <3> QED BY <1>1, <3>2, <3>3, <3>4, PutsPage
  <2> QED BY <2>1, <2>2
<1>11. \A q \in Ids \ {id} : pages'[q] = pages[q]
  BY <1>0, <1>1, <1>2 DEF PagesShape
<1>12. TablesShape' /\ CallsShape' /\ FindingShape'
  BY <1>0, <1>1, <1>9, SameFinding, Overlaps DEF TablesShape
<1>13. Spares(k)
  BY <1>0, <1>1, <1>2, <1>5, <1>9, <1>11, Overlaps DEF Spares, CoreShape, Maps, TablesShape
<1>14. Named(k)'
  BY <1>0, <1>1, <1>9, Overlaps DEF KeyInv, Named
<1>15. Backed(k)'
  BY <1>1, <1>8 DEF Backed, id
<1>16. ASSUME ~unhooks PROVE Read(k)'
  <2>1. Busy(k)' <=> Busy(k)
    BY <1>1, <1>9, Overlaps DEF Busy, CallFor
  <2>2. PageOf(k)' = None
    <3>1. whoHash[k] # None => pages[id] = None /\ whoHash[k] = id
      BY <1>0, <1>1 DEF PageOf, KeyInv, Named, id
    <3>2. whoHash[k] # None => pages' = pages
      BY <1>1, <3>1
    <3> QED BY <1>1, <3>1, <3>2 DEF PageOf
  <2>3. Visible(k)' = w
    BY <1>1, <1>2, <1>8, <2>2 DEF Visible, id
  <2>4. last'[k] # None => last'[k] = Visible(k)'
    <3>1. CASE op = "set"
      BY <1>0, <1>1, <1>4, <2>3, <3>1 DEF TablesShape
    <3>2. CASE op = "get"
      <4>1. Visible(k) = w
        BY <1>1, <1>4, <3>2 DEF Visible, id
      <4> QED BY <1>0, <1>1, <1>16, <2>3, <3>2, <4>1 DEF TablesShape, KeyInv, Read
    <3> QED BY <3>1, <3>2
  <2>5. last'[k] # None => ~Busy(k)
    BY <1>0, <1>1 DEF TablesShape
  <2> QED BY <1>1, <1>9, <2>1, <2>4, <2>5, Overlaps DEF Read
<1> QED BY <1>1, <1>7, <1>10, <1>12, <1>13, <1>14, <1>15, <1>16, SparesKeys
        DEF StaticInv, StaticShape, KeyInv

LEMMA DelKeeps ==
  ASSUME StaticInv, NEW k \in Keys, DelKeyValue(k)
  PROVE  StaticInv'
<1> DEFINE id == whoId[k]
<1>0. /\ CoreInv /\ CoreShape /\ TablesShape /\ PagesShape /\ KeyInv(k)
  BY DEF StaticInv, StaticShape, CoreInv
<1>1. /\ id # None /\ map[id] # None /\ running /\ running' = running
      /\ map' = [map EXCEPT ![id] = None] /\ dirty' = TRUE /\ Exposes(id)
      /\ known' = known \ {id} /\ Sends(<<Message(id, None)>>)
      /\ pages' = [pages EXCEPT ![id] = None]
      /\ whoId' = [whoId EXCEPT ![k] = None]
      /\ whoHash' = [whoHash EXCEPT ![k] = None]
      /\ call' = Overlapped(k)
      /\ last' = [last EXCEPT ![k] = None]
      /\ UNCHANGED <<buckets, file, writes, relay, finding, now, running, blobs, backup,
                     unhooks, cut>>
  BY DEF DelKeyValue, Called
<1>2. id \in Ids /\ Owner[id] = k
  BY <1>0, <1>1 DEF TablesShape, KeyInv, Named
<1> HIDE DEF id
<1>3. Overlapping(k, call')
  BY <1>1 DEF Overlapping
<1>4. CoreInv'
  BY <1>0, <1>1, <1>2, DropKeeps
<1>5. PagesShape' /\ FindingShape' /\ CallsShape'
  BY <1>1, <1>3, PutsPage, SameFinding, Overlaps
<1>6. TablesShape'
  BY <1>0, <1>1 DEF TablesShape
<1>7. Spares(k)
  BY <1>0, <1>1, <1>2, <1>3, Overlaps DEF Spares, CoreShape, Maps, PagesShape, TablesShape
<1>8. whoId'[k] = None /\ whoHash'[k] = None /\ last'[k] = None
  BY <1>0, <1>1 DEF TablesShape
<1>9. KeyInv(k)'
  BY <1>0, <1>1, <1>8, <1>3, Overlaps DEF KeyInv, Named, Backed, Read
<1> QED BY <1>4, <1>5, <1>6, <1>7, <1>9, SparesKeys DEF StaticInv, StaticShape

(* A call is told that it waits for the remote store. *)
LEMMA AsksKeeps ==
  ASSUME StaticInv, NEW c \in Callers, NEW k \in Keys, NEW op \in {"get", "set"},
         NEW v \in Vals, Asks(c, k, op, v)
  PROVE  StaticInv'
<1> DEFINE id == whoId[k]
           pc == CASE id = None -> "search"
                   [] id # None /\ ~Readable(k) -> "find"
                   [] OTHER -> "confirm"
           calls == IF pc = "confirm" THEN Seen(Overlapped(k), id, v) ELSE Overlapped(k)
<1>0. /\ CoreInv /\ TablesShape /\ PagesShape /\ KeyInv(k) /\ CallsShape
      /\ id \in Ids \cup {None}
  BY DEF StaticInv, StaticShape, TablesShape
<1>1. /\ pc \in {"search", "find", "confirm"} /\ pc \in Pcs
      /\ pc = "search" <=> id = None
      /\ pc = "confirm" => Readable(k)
  BY DEF Pcs
<1>2. /\ running /\ call[c] = None
      /\ op = "get" => PageOf(k) = None
      /\ pc # "search" => map[id] = None
      /\ pages' = IF pc = "confirm"
                  THEN [pages EXCEPT ![id] = [Hooked(id) EXCEPT !.obj = v,
                                                              !.callers = @ \cup {c}]]
                  ELSE pages
      /\ call' = [calls EXCEPT ![c] = [op |-> op, key |-> k, val |-> v, pc |-> pc,
                                       id |-> id, alone |-> ~Busy(k)]]
      /\ last' = [last EXCEPT ![k] = IF op = "set" \/ Busy(k) THEN None ELSE @]
      /\ UNCHANGED <<map, buckets, dirty, file, writes, relay, remote, pending, finding,
                     exposed, known, now, running, whoId, whoHash, blobs, backup, unhooks, cut>>
  BY DEF Asks, Called, Notes
<1> HIDE DEF pc
<1>3. pc = "confirm" => /\ id \in Ids /\ pages[id] # None /\ whoHash[k] = id
                        /\ Owner[id] = k /\ Hooked(id).hooked
  BY <1>0, <1>1 DEF Readable, PageOf, KeyInv, Named
<1>4. id # None => id \in Ids /\ Owner[id] = k
  BY <1>0 DEF KeyInv, Named
<1>5. PICK o : o = calls
  OBVIOUS
<1>6. Overlapping(k, o)
  BY <1>3, <1>5 DEF Overlapping
<1> HIDE DEF calls
<1>7. PICK r : r = [op |-> op, key |-> k, val |-> v, pc |-> pc, id |-> id, alone |-> ~Busy(k)]
  OBVIOUS
<1>8. /\ r \in CallReps /\ r # None /\ r.key = k /\ r.pc = pc /\ r.id = id /\ r.val = v
      /\ r.alone <=> ~Busy(k)
  <2>1. r \in CallReps
    BY <1>0, <1>1, <1>7 DEF CallReps
  <2> QED BY <1>7, <2>1, CallIsSomething
<1>9. call' = [o EXCEPT ![c] = r]
  BY <1>2, <1>5, <1>7
<1>10. /\ call'[c] = r
       /\ \A d \in Callers \ {c} : call'[d] = o[d]
       /\ CallsShape'
  <2>1. o \in [Callers -> CallReps \cup {None}]
    BY <1>6, OverlappedIs
  <2>2. call'[c] = r /\ \A d \in Callers \ {c} : call'[d] = o[d]
    BY <1>9, <2>1
  <2>3. call' \in [Callers -> CallReps \cup {None}]
    BY <1>8, <1>9, <2>1
  <2>4. running' = running /\ running
    BY <1>2
  <2> QED BY <2>2, <2>3, <2>4 DEF CallsShape
<1>11. PICK p : p = [Hooked(id) EXCEPT !.obj = v, !.callers = @ \cup {c}]
  OBVIOUS
<1>12. pc = "confirm" => p \in PageReps /\ p.hooked /\ p # None /\ p.obj = v
  <2>1. ASSUME pc = "confirm" PROVE Hooked(id) \in PageReps /\ Hooked(id).hooked
    BY <1>3, <2>1, HookedIs
  <2>2. pc = "confirm" => p \in PageReps /\ p.hooked /\ p.obj = v
    BY <1>11, <2>1 DEF PageReps
  <2> QED BY <2>2, PageIsSomething
<1>13. pages' = IF pc = "confirm" THEN [pages EXCEPT ![id] = p] ELSE pages
  BY <1>2, <1>11
<1> HIDE DEF id
<1>14. PagesShape'
  BY <1>2, <1>12, <1>13, PutsPage, SamePages
<1>15. TablesShape'
  BY <1>0, <1>2 DEF TablesShape
<1>16. CoreInv' /\ FindingShape'
  BY <1>0, <1>2, SameKeeps, SameFinding DEF coreVars
<1>17. \A d \in Callers : CallFor(d, k)' <=> d = c \/ CallFor(d, k)
  BY <1>6, <1>8, <1>10, OverlappedIs DEF CallFor
<1>18. Spares(k)
  <2>1. ASSUME NEW q \in Keys \ {k}, NEW d \in Callers, CallFor(d, q) \/ CallFor(d, q)'
        PROVE  call'[d] = call[d]
    <3>1. d # c
      BY <1>2, <1>8, <1>10, <2>1 DEF CallFor
    <3>2. ~CallFor(d, k)
      BY <1>6, <1>10, <2>1, <3>1, OverlappedIs DEF CallFor
    <3> QED BY <1>6, <1>10, <3>1, <3>2, OverlappedIs
  <2>2. \A q \in Ids : Owner[q] # k => pages'[q] = pages[q]
    BY <1>0, <1>3, <1>13 DEF PagesShape
  <2> QED BY <1>0, <1>2, <2>1, <2>2 DEF Spares, TablesShape
<1>19. Named(k)'
  <2>1. ASSUME NEW d \in Callers, CallFor(d, k)'
        PROVE  IF call'[d].pc = "search" THEN call'[d].id = None
               ELSE call'[d].id \in Ids /\ Owner[call'[d].id] = k
    <3>1. CASE d = c
      BY <1>1, <1>4, <1>8, <1>10, <2>1, <3>1 DEF id
    <3>2. CASE d # c
      BY <1>0, <1>6, <1>10, <1>17, <2>1, <3>2, OverlappedIs DEF KeyInv, Named
    <3> QED BY <3>1, <3>2
  <2> QED BY <1>0, <1>2, <2>1 DEF KeyInv, Named
<1>20. Backed(k)'
  <2>1. \A q \in Ids : pages[q] # None => pages'[q] # None
    BY <1>0, <1>12, <1>13 DEF PagesShape
  <2> QED BY <1>0, <1>2, <1>4, <2>1 DEF KeyInv, Backed, id
<1>21. ASSUME ~unhooks PROVE Read(k)'
  <2>1. last'[k] = None
    <3>1. CASE op = "get" /\ ~Busy(k) /\ last[k] # None
      <4>1. Visible(k) = last[k]
        BY <1>0, <1>21, <3>1 DEF KeyInv, Read
      <4>2. PageOf(k) = None
        BY <1>2, <3>1
      <4>3. id = None \/ map[id] = None
        BY <1>1, <1>2
      <4>4. Visible(k) = None
        BY <4>2, <4>3 DEF Visible, id
      <4> QED BY <3>1, <4>1, <4>4
    <3> QED BY <1>0, <1>2, <3>1 DEF TablesShape
  <2>2. ASSUME NEW d \in Callers, CallFor(d, k)', call'[d].alone
        PROVE  d = c /\ ~Busy(k)
    <3>1. d = c
      BY <1>6, <1>10, <1>17, <2>2, OverlappedIs
    <3> QED BY <1>8, <1>10, <2>2, <3>1
  <2>3. ~Busy(k) => \A d \in Callers : ~CallFor(d, k)
    BY DEF Busy, CallFor
  <2>4. pc = "confirm" => PageOf(k)' = p
    BY <1>0, <1>2, <1>3, <1>1, <1>13 DEF PageOf, PagesShape
  <2> QED BY <1>8, <1>10, <1>12, <1>17, <2>1, <2>2, <2>3, <2>4 DEF Read
<1> QED BY <1>2, <1>10, <1>14, <1>15, <1>16, <1>18, <1>19, <1>20, <1>21, SparesKeys
        DEF StaticInv, StaticShape, KeyInv

(* A call ends: if it was alone and stored something, that is what is read. *)
LEMMA EndKeeps ==
  ASSUME StaticInv, NEW c \in Callers, NEW k \in Keys, CallFor(c, k),
         NEW stored \in BOOLEAN, Ends(c, stored),
         CoreInv', PagesShape', UNCHANGED <<finding, running, relay, unhooks>>,
         whoId' \in [Keys -> Ids \cup {None}], whoHash' \in [Keys -> Ids \cup {None}],
         \A q \in Keys \ {k} : whoId'[q] = whoId[q] /\ whoHash'[q] = whoHash[q],
         \A id \in Ids : Owner[id] # k => map'[id] = map[id] /\ pages'[id] = pages[id],
         whoId'[k] # None => Owner[whoId'[k]] = k,
         whoHash'[k] # None => whoHash'[k] = whoId'[k],
         Backed(k)',
         ~unhooks /\ call[c].op = "set" /\ call[c].alone /\ stored =>
            Visible(k)' = call[c].val
  PROVE  StaticInv'
<1>0. /\ CoreInv /\ TablesShape /\ CallsShape /\ KeyInv(k)
      /\ call[c] # None /\ call[c].key = k /\ call[c] \in CallReps
  BY DEF StaticInv, StaticShape, CallsShape, CallFor
<1>1. /\ call' = [call EXCEPT ![c] = None]
      /\ last' = [last EXCEPT ![k] =
                    IF ~call[c].alone THEN None
                    ELSE IF call[c].op = "get" THEN @
                    ELSE IF stored THEN call[c].val ELSE None]
  BY <1>0 DEF Ends
<1>2. call[c].op \in {"get", "set"} /\ call[c].val \in Vals
  BY <1>0 DEF CallReps
<1>3. TablesShape' /\ CallsShape'
  BY <1>0, <1>1, <1>2 DEF TablesShape, CallsShape
<1>4. FindingShape'
  BY SameFinding
<1>5. /\ call'[c] = None /\ ~CallFor(c, k)'
      /\ \A d \in Callers \ {c} : call'[d] = call[d]
  BY <1>0, <1>1 DEF CallsShape, CallFor
<1>6. Spares(k)
  BY <1>0, <1>1, <1>5 DEF Spares, TablesShape, CallFor
<1>7. Named(k)'
  BY <1>0, <1>5 DEF KeyInv, Named, CallFor
<1>8. ASSUME ~unhooks PROVE Read(k)'
  <2>1. last[k] = None
    BY <1>0, <1>8 DEF KeyInv, Read, Busy
  <2>2. call[c].alone => \A d \in Callers : ~CallFor(d, k)'
    BY <1>0, <1>5, <1>8 DEF KeyInv, Read, CallFor
  <2>3. \A d \in Callers : CallFor(d, k)' => ~call'[d].alone
    BY <1>0, <1>5, <1>8 DEF KeyInv, Read, CallFor
  <2>4. last'[k] # None => /\ call[c].alone /\ call[c].op = "set" /\ stored
                           /\ last'[k] = call[c].val
    BY <1>0, <1>1, <1>2, <2>1 DEF TablesShape
  <2>5. last'[k] # None => ~Busy(k)' /\ Visible(k)' = last'[k]
    BY <1>8, <2>2, <2>4 DEF Busy, CallFor
  <2> QED BY <2>3, <2>5 DEF Read
<1> QED BY <1>3, <1>4, <1>6, <1>7, <1>8, SparesKeys DEF StaticInv, StaticShape, KeyInv

LEMMA WaitsIs ==
  ASSUME StaticInv, NEW c \in Callers, NEW pc, Waits(c, pc)
  PROVE  /\ call[c] \in CallReps /\ call[c].pc = pc /\ call[c].key \in Keys
         /\ call[c].val \in Vals /\ call[c].op \in {"get", "set"} /\ call[c].alone \in BOOLEAN
         /\ CallFor(c, call[c].key) /\ running
         /\ pc # "search" => call[c].id \in Ids /\ Owner[call[c].id] = call[c].key
<1>1. /\ call[c] \in CallReps /\ call[c] # None /\ call[c].pc = pc /\ running
  BY DEF StaticInv, StaticShape, CallsShape, Waits
<1>2. call[c].key \in Keys /\ CallFor(c, call[c].key)
  BY <1>1 DEF CallReps, CallFor
<1>3. pc # "search" => call[c].id \in Ids /\ Owner[call[c].id] = call[c].key
  BY <1>1, <1>2 DEF StaticInv, KeyInv, Named
<1> QED BY <1>1, <1>2, <1>3 DEF CallReps

LEMMA FindNothingKeeps ==
  ASSUME StaticInv, NEW c \in Callers, FindNothing(c)
  PROVE  StaticInv'
<1>1. /\ Waits(c, "find") /\ Ends(c, FALSE)
      /\ UNCHANGED <<map, buckets, dirty, file, writes, relay, remote, pending, finding,
                     exposed, known, now, running, whoId, whoHash, pages, blobs, backup,
                     unhooks, cut>>
  BY DEF FindNothing, relayVars
<1>2. PICK k : k = call[c].key
  OBVIOUS
<1>3. k \in Keys /\ CallFor(c, k) /\ CoreInv /\ KeyInv(k) /\ TablesShape
  BY <1>1, <1>2, WaitsIs DEF StaticInv, StaticShape
<1>4. CoreInv' /\ PagesShape'
  BY <1>1, <1>3, SameKeeps, SamePages DEF coreVars
<1>5. Backed(k)'
  BY <1>1, <1>3 DEF KeyInv, Backed
<1> QED BY <1>1, <1>3, <1>4, <1>5, EndKeeps DEF TablesShape, KeyInv, Named

LEMMA SearchFailsKeeps ==
  ASSUME StaticInv, NEW c \in Callers, SearchFails(c)
  PROVE  StaticInv'
<1>1. /\ Waits(c, "search") /\ Ends(c, TRUE)
      /\ UNCHANGED <<file, writes, relay, finding, now, running, pages, blobs, backup,
                     unhooks, cut>>
  BY DEF SearchFails
<1>2. PICK k : k = call[c].key
  OBVIOUS
<1>3. /\ k \in Keys /\ CallFor(c, k) /\ CoreInv /\ KeyInv(k) /\ TablesShape /\ running
      /\ call[c].op \in {"get", "set"} /\ call[c].val \in Vals
  BY <1>1, <1>2, WaitsIs DEF StaticInv, StaticShape
<1>4. PagesShape'
  BY <1>1, SamePages
<1>5. CASE call[c].op = "get"
  <2>1. UNCHANGED <<map, buckets, dirty, exposed, known, remote, pending, whoId, whoHash>>
    BY <1>5 DEF SearchFails
  <2>2. CoreInv'
    BY <1>1, <1>3, <2>1, SameKeeps DEF coreVars
  <2>3. Backed(k)'
    BY <1>1, <1>3, <2>1 DEF KeyInv, Backed
  <2> QED BY <1>1, <1>3, <1>4, <1>5, <2>1, <2>2, <2>3, EndKeeps DEF TablesShape, KeyInv, Named
<1>6. CASE call[c].op # "get"
  <2>1. PICK v : v = call[c].val
    OBVIOUS
  <2>2. PICK o : o = [val |-> v, stamp |-> now]
    OBVIOUS
  <2>3. PICK id \in Ids :
           /\ Owner[id] = k /\ Unused(id)
           /\ AddToStorageMap(id, v) /\ Sends(<<Message(id, o)>>)
           /\ whoId' = [whoId EXCEPT ![k] = id]
           /\ whoHash' = [whoHash EXCEPT ![k] = None]
    BY <1>2, <1>6, <2>1, <2>2 DEF SearchFails
  <2>4. o \in Objects /\ o # None /\ o.val = v
    <3>1. o \in Objects
      BY <1>3, <2>1, <2>2 DEF Objects, CoreInv, CoreShape
    <3> QED BY <2>2, <3>1, ObjectIsSomething
  <2>5. CoreInv'
    BY <1>1, <1>3, <2>1, <2>3, <2>4, AddKeeps
  <2>6. map'[id] = o /\ \A q \in Ids \ {id} : map'[q] = map[q]
    BY <1>3, <2>2, <2>3 DEF AddToStorageMap, CoreInv, CoreShape, Maps
  <2>7. whoId'[k] = id /\ whoHash'[k] = None
    BY <1>3, <2>3 DEF TablesShape
  <2>8. Backed(k)'
    BY <2>4, <2>6, <2>7 DEF Backed
  <2>9. Visible(k)' = v
    BY <2>3, <2>4, <2>6, <2>7, StaticAssumption DEF Visible, PageOf
  <2>10. /\ whoId' \in [Keys -> Ids \cup {None}] /\ whoHash' \in [Keys -> Ids \cup {None}]
         /\ \A q \in Keys \ {k} : whoId'[q] = whoId[q] /\ whoHash'[q] = whoHash[q]
    BY <1>3, <2>3 DEF TablesShape
  <2>11. \A q \in Ids : Owner[q] # k => map'[q] = map[q] /\ pages'[q] = pages[q]
    BY <1>1, <2>3, <2>6
  <2>12. Owner[whoId'[k]] = k /\ Visible(k)' = call[c].val
    BY <2>1, <2>3, <2>7, <2>9
  <2> QED BY <1>1, <1>3, <1>4, <2>5, <2>7, <2>8, <2>10, <2>11, <2>12, EndKeeps
<1> QED BY <1>5, <1>6


LEMMA SearchFindsKeeps ==
  ASSUME StaticInv, NEW c \in Callers, SearchFinds(c)
  PROVE  StaticInv'
<1>1. PICK k : k = call[c].key
  OBVIOUS
<1>2. PICK id \in Ids :
         /\ Waits(c, "search") /\ relay = "service"
         /\ Owner[id] = k /\ remote[id] # None
         /\ IF call[c].op = "get"
            THEN /\ whoId' = [whoId EXCEPT ![k] = id]
                 /\ whoHash' = [whoHash EXCEPT ![k] = None]
                 /\ Ends(c, FALSE)
            ELSE /\ call' = [call EXCEPT ![c].pc = "adopt", ![c].id = id]
                 /\ UNCHANGED <<whoId, whoHash, last>>
         /\ UNCHANGED <<map, buckets, dirty, file, writes, relay, remote, pending, finding,
                        exposed, known, now, running, pages, blobs, backup, unhooks, cut>>
  BY <1>1 DEF SearchFinds
<1>3. /\ k \in Keys /\ CallFor(c, k) /\ CoreInv /\ KeyInv(k) /\ TablesShape /\ running
      /\ CallsShape /\ call[c] \in CallReps
  BY <1>1, <1>2, WaitsIs DEF StaticInv, StaticShape
<1>4. CoreInv' /\ PagesShape' /\ FindingShape'
  BY <1>2, <1>3, SameKeeps, SamePages, SameFinding DEF coreVars
<1>5. CASE call[c].op = "get"
  <2>1. whoId'[k] = id /\ whoHash'[k] = None
    BY <1>2, <1>3, <1>5 DEF TablesShape
  <2>2. /\ whoId' \in [Keys -> Ids \cup {None}] /\ whoHash' \in [Keys -> Ids \cup {None}]
        /\ \A q \in Keys \ {k} : whoId'[q] = whoId[q] /\ whoHash'[q] = whoHash[q]
    BY <1>2, <1>3, <1>5 DEF TablesShape
  <2>3. Backed(k)'
    BY <1>2 DEF Backed
  <2> QED BY <1>2, <1>3, <1>4, <1>5, <2>1, <2>2, <2>3, EndKeeps
<1>6. CASE call[c].op # "get"
  <2>1. PICK r : r = [call[c] EXCEPT !.pc = "adopt", !.id = id]
    OBVIOUS
  <2>2. /\ r \in CallReps /\ r.key = k /\ r.id = id /\ r.pc = "adopt"
        /\ r.alone = call[c].alone
    BY <1>1, <1>3, <2>1 DEF CallReps, Pcs
  <2>3. r # None
    BY <2>2, CallIsSomething
  <2>4. call' = [call EXCEPT ![c] = r]
    <3>1. call' = [call EXCEPT ![c].pc = "adopt", ![c].id = id]
      BY <1>2, <1>6
    <3> QED BY <1>3, <2>1, <3>1 DEF CallsShape
  <2>5. call'[c] = r /\ \A d \in Callers \ {c} : call'[d] = call[d]
    BY <1>3, <2>4 DEF CallsShape
  <2>6. CallsShape' /\ TablesShape'
    BY <1>2, <1>3, <1>6, <2>2, <2>4 DEF CallsShape, TablesShape
  <2>7. \A d \in Callers, q \in Keys : CallFor(d, q)' <=> CallFor(d, q)
    BY <1>1, <1>3, <2>2, <2>3, <2>5 DEF CallFor
  <2>8. Spares(k)
    BY <1>1, <1>2, <1>3, <1>6, <2>5, <2>7 DEF Spares, CallFor
  <2>9. Named(k)'
    BY <1>2, <1>3, <1>6, <2>2, <2>5, <2>7 DEF KeyInv, Named
  <2>10. Backed(k)'
    BY <1>2 DEF Backed
  <2>11. ASSUME ~unhooks PROVE Read(k)'
    <3>1. last'[k] = None
      BY <1>2, <1>3, <1>6, <2>11 DEF KeyInv, Read, Busy, CallFor
    <3>2. \A d \in Callers : call'[d].alone = call[d].alone
      BY <2>2, <2>5
    <3>3. PageOf(k)' = PageOf(k)
      BY <1>2, <1>6 DEF PageOf
    <3>4. ASSUME NEW d \in Callers, CallFor(d, k)', call'[d].alone,
                 call'[d].pc = "confirm"
          PROVE  PageOf(k)' # None /\ PageOf(k)'.obj = call'[d].val
      <4>1. d # c
        BY <2>2, <2>5, <3>4
      <4> QED BY <1>3, <2>5, <2>7, <2>11, <3>3, <3>4, <4>1 DEF KeyInv, Read
    <3>5. ASSUME NEW d \in Callers, CallFor(d, k)', call'[d].alone,
                 NEW e \in Callers, CallFor(e, k)'
          PROVE  e = d
      BY <1>3, <2>7, <2>11, <3>2, <3>5 DEF KeyInv, Read
    <3> QED BY <3>1, <3>4, <3>5 DEF Read
  <2>12. KeyInv(k)'
    BY <1>2, <2>9, <2>10, <2>11 DEF KeyInv
  <2> QED BY <1>3, <1>4, <2>6, <2>8, <2>12, SparesKeys DEF StaticInv, StaticShape
<1> QED BY <1>5, <1>6

(* What findOne found is noted, with or without a page. *)
LEMMA Stashes ==
  ASSUME StaticInv, NEW c \in Callers, NEW paged \in BOOLEAN, Waits(c, "find"),
         remote[call[c].id] # None, StashesLarge(c, paged),
         UNCHANGED <<blobs, backup, unhooks, cut>>,
         NEW k, k = call[c].key, NEW id, id = call[c].id
  PROVE  /\ PagesShape'
         /\ FoundVal(c) \in Vals \cup {None}
         /\ whoId' \in [Keys -> Ids \cup {None}] /\ whoHash' \in [Keys -> Ids \cup {None}]
         /\ \A q \in Keys \ {k} : whoId'[q] = whoId[q] /\ whoHash'[q] = whoHash[q]
         /\ \A q \in Ids \ {id} : pages'[q] = pages[q]
         /\ whoId'[k] = id
         /\ whoHash'[k] = IF paged THEN id ELSE None
         /\ paged => /\ pages'[id] # None /\ pages'[id].hooked
                     /\ pages'[id].obj = FoundVal(c)
         /\ pages[id] # None => pages'[id] # None
<1>0. /\ TablesShape /\ PagesShape /\ CoreShape
      /\ k \in Keys /\ id \in Ids /\ Owner[id] = k /\ call[c].val \in Vals
  BY WaitsIs DEF StaticInv, StaticShape, CoreInv
<1>1. remote[id] \in Objects /\ remote[id].val \in Vals \cup {None}
  BY <1>0 DEF CoreShape, Maps, Objects
<1>2. FoundVal(c) \in Vals \cup {None}
  BY <1>0, <1>1 DEF FoundVal
<1>3. PICK same \in BOOLEAN :
         pages' = IF paged
                  THEN [pages EXCEPT ![id] = [Page(remote[id].val) EXCEPT
                                                 !.obj = FoundVal(c), !.writing = same]]
                  ELSE pages
  <2>1. PICK same \in {FALSE} \cup {pages[id] # None /\ pages[id].writing} :
           pages' = IF paged
                    THEN [pages EXCEPT ![id] = [Page(remote[id].val) EXCEPT
                                                   !.obj = FoundVal(c), !.writing = same]]
                    ELSE pages
    BY DEF StashesLarge
  <2>2. pages[id] # None => pages[id].writing \in BOOLEAN
    BY <1>0 DEF PagesShape, PageReps
  <2>3. same \in BOOLEAN
    BY <2>1, <2>2
  <2> QED BY <2>1, <2>3
<1>4. PICK p : p = [Page(remote[id].val) EXCEPT !.obj = FoundVal(c), !.writing = same]
  OBVIOUS
<1>5. p \in PageReps /\ p.hooked /\ p.obj = FoundVal(c)
  BY <1>1, <1>2, <1>4 DEF Page, PageReps
<1>6. p # None
  BY <1>5, PageIsSomething
<1>7. /\ pages' = IF paged THEN [pages EXCEPT ![id] = p] ELSE pages
      /\ whoId' = [whoId EXCEPT ![k] = id]
      /\ whoHash' = [whoHash EXCEPT ![k] = IF paged THEN id ELSE None]
  BY <1>3, <1>4 DEF StashesLarge
<1>8. PagesShape'
  BY <1>5, <1>7, PutsPage, SamePages
<1>9. /\ whoId' \in [Keys -> Ids \cup {None}] /\ whoHash' \in [Keys -> Ids \cup {None}]
      /\ \A q \in Keys \ {k} : whoId'[q] = whoId[q] /\ whoHash'[q] = whoHash[q]
      /\ whoId'[k] = id /\ whoHash'[k] = IF paged THEN id ELSE None
  BY <1>0, <1>7 DEF TablesShape
<1>10. /\ \A q \in Ids \ {id} : pages'[q] = pages[q]
       /\ (paged => pages'[id] = p)
       /\ (~paged => pages'[id] = pages[id])
  BY <1>0, <1>7 DEF PagesShape
<1> QED BY <1>2, <1>5, <1>6, <1>8, <1>9, <1>10

LEMMA FindCreatesKeeps ==
  ASSUME StaticInv, NEW c \in Callers, FindCreates(c)
  PROVE  StaticInv'
<1>1. PICK k : k = call[c].key
  OBVIOUS
<1>2. PICK id : id = call[c].id
  OBVIOUS
<1>3. PICK paged \in BOOLEAN :
         /\ StashesLarge(c, paged)
         /\ AddToStorageMap(id, IF paged THEN None ELSE FoundVal(c))
  BY <1>2 DEF FindCreates
<1>4. PICK o : o = [remote[id] EXCEPT !.stamp = now]
  OBVIOUS
<1>5. /\ Waits(c, "find") /\ relay = "service" /\ remote[id] # None
      /\ Sends(<<Message(id, o)>>) /\ Ends(c, TRUE)
      /\ UNCHANGED <<file, writes, relay, finding, now, running, blobs, backup, unhooks, cut>>
  BY <1>2, <1>4 DEF FindCreates
<1>6. /\ k \in Keys /\ CallFor(c, k) /\ CoreInv /\ CoreShape /\ running
      /\ id \in Ids /\ Owner[id] = k
      /\ call[c].op \in {"get", "set"} /\ call[c].val \in Vals
  BY <1>1, <1>2, <1>5, WaitsIs DEF StaticInv, CoreInv
<1>7. o \in Objects
  BY <1>4, <1>5, <1>6 DEF CoreShape, Maps, Objects
<1>8. PICK v : v = IF paged THEN None ELSE FoundVal(c)
  OBVIOUS
<1>9. v \in Vals \cup {None}
  BY <1>1, <1>2, <1>3, <1>5, <1>8, Stashes
<1>10. CoreInv'
  BY <1>3, <1>5, <1>6, <1>7, <1>8, <1>9, AddKeeps
<1>11. /\ map'[id] # None /\ map'[id].val = v
       /\ \A q \in Ids \ {id} : map'[q] = map[q]
  <2>1. PICK w : w = [val |-> v, stamp |-> now]
    OBVIOUS
  <2>2. w \in Objects
    BY <1>6, <1>9, <2>1 DEF Objects, CoreShape
  <2>3. map' = [map EXCEPT ![id] = w]
    BY <1>3, <1>8, <2>1 DEF AddToStorageMap
  <2>4. map'[id] = w /\ \A q \in Ids \ {id} : map'[q] = map[q]
    BY <1>6, <2>3 DEF CoreShape, Maps
  <2> QED BY <2>1, <2>2, <2>4, ObjectIsSomething
<1>12. /\ PagesShape'
       /\ whoId' \in [Keys -> Ids \cup {None}] /\ whoHash' \in [Keys -> Ids \cup {None}]
       /\ \A q \in Keys \ {k} : whoId'[q] = whoId[q] /\ whoHash'[q] = whoHash[q]
       /\ \A q \in Ids \ {id} : pages'[q] = pages[q]
       /\ whoId'[k] = id /\ whoHash'[k] = IF paged THEN id ELSE None
       /\ paged => pages'[id] # None /\ pages'[id].hooked /\ pages'[id].obj = FoundVal(c)
  BY <1>1, <1>2, <1>3, <1>5, Stashes
<1>13. Backed(k)'
  BY <1>11, <1>12 DEF Backed
<1>14. call[c].op = "set" => Visible(k)' = call[c].val
  <2>1. ASSUME call[c].op = "set" PROVE FoundVal(c) = call[c].val
    BY <2>1 DEF FoundVal
  <2>2. CASE paged
    <3>1. Visible(k)' = FoundVal(c)
      BY <1>6, <1>12, <2>2, StaticAssumption DEF Visible, PageOf, Hooked
    <3> QED BY <2>1, <3>1
  <2>3. CASE ~paged
    <3>1. Visible(k)' = FoundVal(c)
      BY <1>6, <1>8, <1>11, <1>12, <2>3, StaticAssumption DEF Visible, PageOf
    <3> QED BY <2>1, <3>1
  <2> QED BY <2>2, <2>3
<1>15. \A q \in Ids : Owner[q] # k => map'[q] = map[q] /\ pages'[q] = pages[q]
  BY <1>6, <1>11, <1>12
<1>16. /\ UNCHANGED <<finding, running, relay, unhooks>> /\ Owner[whoId'[k]] = k
       /\ whoHash'[k] # None => whoHash'[k] = whoId'[k]
  BY <1>5, <1>6, <1>12
<1>17. /\ whoId' \in [Keys -> Ids \cup {None}] /\ whoHash' \in [Keys -> Ids \cup {None}]
       /\ \A q \in Keys \ {k} : whoId'[q] = whoId[q] /\ whoHash'[q] = whoHash[q]
       /\ PagesShape'
  BY <1>12
<1>18. Ends(c, TRUE) /\ CallFor(c, k) /\ k \in Keys
  BY <1>5, <1>6
<1> QED BY <1>10, <1>13, <1>14, <1>15, <1>16, <1>17, <1>18, EndKeeps


LEMMA FindIsLateKeeps ==
  ASSUME StaticInv, NEW c \in Callers, FindIsLate(c)
  PROVE  StaticInv'
<1>1. PICK k : k = call[c].key
  OBVIOUS
<1>2. PICK id : id = call[c].id
  OBVIOUS
<1>3. PICK paged \in BOOLEAN : StashesLarge(c, paged) /\ Ends(c, paged)
  BY DEF FindIsLate
<1>4. PICK o : o = remote[id]
  OBVIOUS
<1>5. /\ Waits(c, "find") /\ relay = "service" /\ remote[id] # None /\ map[id] # None
      /\ buckets' = UpdateStamp(buckets, o.stamp, id)
      /\ Sends(<<Message(id, o)>>)
      /\ UNCHANGED <<map, dirty, exposed, known, file, writes, relay, finding, now,
                     running, blobs, backup, unhooks, cut>>
  BY <1>2, <1>4 DEF FindIsLate
<1>6. /\ k \in Keys /\ CallFor(c, k) /\ CoreInv /\ CoreShape /\ running
      /\ id \in Ids /\ Owner[id] = k
      /\ call[c].op \in {"get", "set"} /\ call[c].val \in Vals
  BY <1>1, <1>2, <1>5, WaitsIs DEF StaticInv, CoreInv
<1>7. o \in Objects
  BY <1>4, <1>5, <1>6 DEF CoreShape, Maps
<1>8. CoreInv'
  BY <1>5, <1>6, <1>7, LateKeeps
<1>9. /\ PagesShape'
      /\ whoId' \in [Keys -> Ids \cup {None}] /\ whoHash' \in [Keys -> Ids \cup {None}]
      /\ \A q \in Keys \ {k} : whoId'[q] = whoId[q] /\ whoHash'[q] = whoHash[q]
      /\ \A q \in Ids \ {id} : pages'[q] = pages[q]
      /\ whoId'[k] = id /\ whoHash'[k] = IF paged THEN id ELSE None
      /\ paged => pages'[id] # None /\ pages'[id].hooked /\ pages'[id].obj = FoundVal(c)
  BY <1>1, <1>2, <1>3, <1>5, Stashes
<1>10. Backed(k)'
  BY <1>5, <1>9 DEF Backed
<1>11. call[c].op = "set" /\ paged => Visible(k)' = call[c].val
  <2>1. call[c].op = "set" => FoundVal(c) = call[c].val
    BY DEF FoundVal
  <2>2. paged => Visible(k)' = FoundVal(c)
    BY <1>6, <1>9, StaticAssumption DEF Visible, PageOf, Hooked
  <2> QED BY <2>1, <2>2
<1>12. \A q \in Ids : Owner[q] # k => map'[q] = map[q] /\ pages'[q] = pages[q]
  BY <1>5, <1>6, <1>9
<1>13. /\ UNCHANGED <<finding, running, relay, unhooks>> /\ Owner[whoId'[k]] = k
       /\ whoHash'[k] # None => whoHash'[k] = whoId'[k]
  BY <1>5, <1>6, <1>9
<1>14. /\ whoId' \in [Keys -> Ids \cup {None}] /\ whoHash' \in [Keys -> Ids \cup {None}]
       /\ \A q \in Keys \ {k} : whoId'[q] = whoId[q] /\ whoHash'[q] = whoHash[q]
       /\ PagesShape'
  BY <1>9
<1>15. Ends(c, paged) /\ CallFor(c, k) /\ k \in Keys
  BY <1>3, <1>6
<1> QED BY <1>8, <1>10, <1>11, <1>12, <1>13, <1>14, <1>15, EndKeeps

(* A call that was confirmed, or adopts what it found, stores its own.     *)
LEMMA Stores ==
  ASSUME StaticInv, NEW c \in Callers, NEW assigned \in BOOLEAN,
         NEW k \in Keys, k = call[c].key, NEW id \in Ids, id = call[c].id, Owner[id] = k,
         call[c].val \in Vals, running, StoresOwn(c, assigned),
         UNCHANGED <<file, writes, relay, now, running>>
  PROVE  /\ CoreInv'
         /\ map'[id] # None
         /\ \A q \in Ids : Owner[q] # k => map'[q] = map[q]
         /\ \/ map[id] # None /\ Ends(c, assigned)
            \/ map'[id].val = call[c].val /\ Ends(c, TRUE)
<1>0. CoreInv /\ CoreShape
  BY DEF StaticInv, CoreInv
<1>1. CASE map[id] # None
  <2>1. Ends(c, assigned) /\ UNCHANGED <<map, buckets, dirty, exposed, known, remote, pending>>
    BY <1>1 DEF StoresOwn
  <2> QED BY <1>0, <1>1, <2>1, SameKeeps DEF coreVars
<1>2. CASE map[id] = None
  <2>1. PICK v : v = call[c].val
    OBVIOUS
  <2>2. PICK o : o = [val |-> v, stamp |-> now]
    OBVIOUS
  <2>3. AddToStorageMap(id, v) /\ Sends(<<Message(id, o)>>) /\ Ends(c, TRUE)
    BY <1>2, <2>1, <2>2 DEF StoresOwn
  <2>4. o \in Objects /\ o # None /\ o.val = v
    <3>1. o \in Objects
      BY <1>0, <2>1, <2>2 DEF Objects, CoreShape
    <3> QED BY <2>2, <3>1, ObjectIsSomething
  <2>5. CoreInv'
    BY <1>0, <2>1, <2>3, <2>4, AddKeeps
  <2>6. map'[id] = o /\ \A q \in Ids \ {id} : map'[q] = map[q]
    BY <1>0, <2>2, <2>3 DEF AddToStorageMap, CoreShape, Maps
  <2> QED BY <2>1, <2>3, <2>4, <2>5, <2>6
<1> QED BY <1>1, <1>2

LEMMA ConfirmedKeeps ==
  ASSUME StaticInv, NEW c \in Callers, Confirmed(c)
  PROVE  StaticInv'
<1>1. PICK k : k = call[c].key
  OBVIOUS
<1>2. PICK id : id = call[c].id
  OBVIOUS
<1>3. /\ Waits(c, "confirm") /\ StoresOwn(c, TRUE)
      /\ pages' = IF pages[id] # None /\ c \in pages[id].callers
                  THEN [pages EXCEPT ![id].callers = @ \ {c},
                                     ![id].inMap = @ \/ map[id] = None]
                  ELSE pages
      /\ UNCHANGED <<file, writes, relay, finding, now, running, whoId, whoHash,
                     blobs, backup, unhooks, cut>>
  BY <1>2 DEF Confirmed
<1>4. /\ k \in Keys /\ CallFor(c, k) /\ running /\ id \in Ids /\ Owner[id] = k
      /\ call[c].val \in Vals /\ call[c].pc = "confirm" /\ call[c].alone \in BOOLEAN
      /\ KeyInv(k) /\ TablesShape /\ PagesShape
  BY <1>1, <1>2, <1>3, WaitsIs DEF StaticInv, StaticShape
<1>5. /\ CoreInv' /\ map'[id] # None /\ Ends(c, TRUE)
      /\ \A q \in Ids : Owner[q] # k => map'[q] = map[q]
  BY <1>1, <1>2, <1>3, <1>4, Stores
<1>6. /\ PagesShape' /\ \A q \in Ids \ {id} : pages'[q] = pages[q]
      /\ pages[id] = None => pages'[id] = None
      /\ pages[id] # None => /\ pages'[id] # None
                             /\ pages'[id].obj = pages[id].obj
                             /\ pages'[id].hooked = pages[id].hooked
  <2>1. CASE pages' = pages
    BY <1>3, <2>1, SamePages
  <2>2. CASE pages[id] # None /\ pages' # pages
    <3>1. PICK p : p = [pages[id] EXCEPT !.callers = @ \ {c}, !.inMap = @ \/ map[id] = None]
      OBVIOUS
    <3>2. pages[id] \in PageReps
      BY <1>4, <2>2 DEF PagesShape
    <3>3. /\ p \in PageReps /\ p.obj = pages[id].obj /\ p.hooked = pages[id].hooked
      BY <3>1, <3>2 DEF PageReps
    <3>4. pages' = [pages EXCEPT ![id] = p]
      BY <1>3, <1>4, <2>2, <3>1 DEF PagesShape
    <3>5. PagesShape'
      BY <1>3, <2>2, <3>3, <3>4, PutsPage
    <3>6. pages'[id] = p /\ \A q \in Ids \ {id} : pages'[q] = pages[q]
      BY <1>4, <3>4 DEF PagesShape
    <3> QED BY <2>2, <3>3, <3>5, <3>6, PageIsSomething
  <2> QED BY <1>3, <2>1, <2>2
<1>7. \A q \in Ids : map[q] # None => map'[q] # None
  <2>1. CASE map[id] # None
    BY <1>2, <1>3, <2>1 DEF StoresOwn
  <2>2. CASE map[id] = None
    <3>1. map' = [map EXCEPT ![id] = [val |-> call[c].val, stamp |-> now]]
      BY <1>2, <1>3, <2>2 DEF StoresOwn, AddToStorageMap
    <3>2. \A q \in Ids \ {id} : map'[q] = map[q]
      BY <1>4, <3>1 DEF StaticInv, CoreInv, CoreShape, Maps
    <3> QED BY <1>5, <3>2
  <2> QED BY <2>1, <2>2
<1>8. Backed(k)'
  BY <1>3, <1>4, <1>6, <1>7 DEF KeyInv, Backed, TablesShape
<1>9. ASSUME ~unhooks, call[c].alone PROVE Visible(k)' = call[c].val
  <2>1. PageOf(k) # None /\ PageOf(k).obj = call[c].val
    BY <1>4, <1>9 DEF KeyInv, Read
  <2>2. /\ whoHash[k] \in Ids /\ pages[whoHash[k]] # None /\ pages[whoHash[k]].hooked
        /\ PageOf(k) = pages[whoHash[k]]
    BY <1>4, <1>9, <2>1 DEF PageOf, TablesShape, PagesShape, Away
  <2>3. /\ pages'[whoHash[k]] # None /\ pages'[whoHash[k]].hooked
        /\ pages'[whoHash[k]].obj = call[c].val
    BY <1>6, <2>1, <2>2
  <2>4. PageOf(k)' # None /\ Hooked(whoHash[k])' = pages'[whoHash[k]]
    BY <1>3, <2>2, <2>3, StaticAssumption DEF PageOf, Hooked
  <2> QED BY <1>3, <2>3, <2>4 DEF Visible
<1>10. /\ whoId' \in [Keys -> Ids \cup {None}] /\ whoHash' \in [Keys -> Ids \cup {None}]
       /\ \A q \in Keys \ {k} : whoId'[q] = whoId[q] /\ whoHash'[q] = whoHash[q]
       /\ whoId'[k] # None => Owner[whoId'[k]] = k
       /\ whoHash'[k] # None => whoHash'[k] = whoId'[k]
       /\ UNCHANGED <<finding, running, relay, unhooks>>
  BY <1>3, <1>4 DEF TablesShape, KeyInv, Named
<1>11. \A q \in Ids : Owner[q] # k => map'[q] = map[q] /\ pages'[q] = pages[q]
  BY <1>4, <1>5, <1>6
<1> QED BY <1>4, <1>5, <1>6, <1>8, <1>9, <1>10, <1>11, EndKeeps

LEMMA AdoptedKeeps ==
  ASSUME StaticInv, NEW c \in Callers, Adopted(c)
  PROVE  StaticInv'
<1>1. PICK k : k = call[c].key
  OBVIOUS
<1>2. PICK id : id = call[c].id
  OBVIOUS
<1>3. /\ Waits(c, "adopt") /\ StoresOwn(c, FALSE)
      /\ whoId' = [whoId EXCEPT ![k] = id]
      /\ whoHash' = [whoHash EXCEPT ![k] = None]
      /\ UNCHANGED <<file, writes, relay, finding, now, running, pages, blobs, backup,
                     unhooks, cut>>
  BY <1>1, <1>2 DEF Adopted
<1>4. /\ k \in Keys /\ CallFor(c, k) /\ running /\ id \in Ids /\ Owner[id] = k
      /\ call[c].val \in Vals /\ TablesShape
  BY <1>1, <1>2, <1>3, WaitsIs DEF StaticInv, StaticShape
<1>5. /\ CoreInv' /\ map'[id] # None
      /\ \A q \in Ids : Owner[q] # k => map'[q] = map[q]
  BY <1>1, <1>2, <1>3, <1>4, Stores
<1>6. PICK stored \in BOOLEAN : Ends(c, stored) /\ (stored => map'[id].val = call[c].val)
  BY <1>1, <1>2, <1>3, <1>4, Stores
<1>7. PagesShape'
  BY <1>3, SamePages
<1>8. whoId'[k] = id /\ whoHash'[k] = None
  BY <1>3, <1>4 DEF TablesShape
<1>9. Backed(k)'
  BY <1>5, <1>8 DEF Backed
<1>10. stored => Visible(k)' = call[c].val
  BY <1>4, <1>5, <1>6, <1>8, StaticAssumption DEF Visible, PageOf
<1>11. /\ whoId' \in [Keys -> Ids \cup {None}] /\ whoHash' \in [Keys -> Ids \cup {None}]
       /\ \A q \in Keys \ {k} : whoId'[q] = whoId[q] /\ whoHash'[q] = whoHash[q]
       /\ Owner[whoId'[k]] = k
       /\ UNCHANGED <<finding, running, relay, unhooks>>
       /\ \A q \in Ids : Owner[q] # k => map'[q] = map[q] /\ pages'[q] = pages[q]
  BY <1>3, <1>4, <1>5, <1>8 DEF TablesShape
<1> QED BY <1>4, <1>5, <1>6, <1>7, <1>8, <1>9, <1>10, <1>11, EndKeeps


(* Timers and messages leave the keys and the values alone; objects leave  *)
(* pages only where that is allowed.                                       *)
LEMMA TablesStay ==
  ASSUME StaticInv, CoreInv', PagesShape', map' = map,
         UNCHANGED <<finding, running, relay, whoId, whoHash, unhooks, call, last>>,
         \A id \in Ids : pages[id] # None => pages'[id] # None,
         ~unhooks => \A id \in Ids :
            IF pages[id] = None THEN pages'[id] = None
            ELSE pages'[id].obj = pages[id].obj
  PROVE  StaticInv'
<1>0. TablesShape /\ CallsShape
  BY DEF StaticInv, StaticShape
<1>1. TablesShape' /\ CallsShape' /\ FindingShape'
  BY <1>0, SameFinding DEF TablesShape, CallsShape
<1>2. ASSUME NEW k \in Keys PROVE KeyInv(k)'
  <2>1. KeyInv(k)
    BY DEF StaticInv
  <2>2. Named(k)'
    BY <2>1 DEF KeyInv, Named, CallFor
  <2>3. Backed(k)'
    BY <1>0, <2>1 DEF KeyInv, Backed, TablesShape
  <2>4. ASSUME ~unhooks PROVE Read(k)'
    <3>1. PICK h : h = whoHash[k]
      OBVIOUS
    <3>2. h \in Ids \cup {None} /\ whoHash'[k] = h
      BY <1>0, <3>1 DEF TablesShape
    <3>3. CASE PageOf(k) = None
      <4>1. PageOf(k)' = None
        BY <2>4, <3>1, <3>2, <3>3 DEF PageOf
      <4>2. Visible(k)' = Visible(k)
        BY <3>3, <4>1 DEF Visible
      <4> QED BY <2>1, <2>4, <3>3, <4>1, <4>2 DEF KeyInv, Read, CallFor, Busy
    <3>4. CASE PageOf(k) # None
      <4>1. /\ h \in Ids /\ pages[h] # None /\ pages'[h] # None
            /\ pages'[h].obj = pages[h].obj /\ PageOf(k) = pages[h] /\ PageOf(k)' = pages'[h]
        BY <2>4, <3>1, <3>2, <3>4 DEF PageOf
      <4>2. pages[h].hooked /\ pages'[h].hooked
        BY <2>4, <4>1 DEF StaticInv, StaticShape, PagesShape, Away
      <4>3. Hooked(h) = pages[h] /\ Hooked(h)' = pages'[h]
        BY <3>1, <3>2, <4>2 DEF Hooked
      <4>4. Visible(k) = pages[h].obj
        BY <3>1, <3>4, <4>3 DEF Visible
      <4>5. Visible(k)' = pages'[h].obj
        BY <3>2, <4>1, <4>3 DEF Visible
      <4>6. PageOf(k)'.obj = PageOf(k).obj /\ PageOf(k)' # None
        BY <4>1
      <4> QED BY <2>1, <2>4, <3>4, <4>1, <4>4, <4>5, <4>6 DEF KeyInv, Read, CallFor, Busy
    <3> QED BY <3>3, <3>4
  <2> QED BY <2>2, <2>3, <2>4 DEF KeyInv
<1> QED BY <1>1, <1>2 DEF StaticInv, StaticShape

LEMMA BacksUpKeeps ==
  ASSUME StaticInv, NEW id \in Ids, BacksUp(id)
  PROVE  StaticInv'
<1>0. CoreInv /\ PagesShape
  BY DEF StaticInv, StaticShape
<1>1. PICK p : p = [pages[id] EXCEPT !.writing = TRUE]
  OBVIOUS
<1>2. /\ pages[id] # None /\ pages[id].flat # None
      /\ backup' = [id |-> id, flat |-> pages[id].flat]
      /\ pages' = [pages EXCEPT ![id].writing = TRUE]
      /\ blobs' = [blobs EXCEPT ![id] = None]
      /\ UNCHANGED <<map, buckets, dirty, file, writes, relay, remote, pending, finding,
                     exposed, known, now, running, whoId, whoHash, unhooks, cut, call, last>>
  BY DEF BacksUp, relayVars
<1>3. pages[id] \in PageReps /\ backup = None
  BY <1>0, <1>2 DEF PagesShape, BacksUp
<1>4. /\ p \in PageReps /\ p.obj = pages[id].obj /\ p.hooked = pages[id].hooked
      /\ pages[id].flat \in Vals
  BY <1>1, <1>2, <1>3 DEF PageReps
<1>5. pages' = [pages EXCEPT ![id] = p]
  BY <1>0, <1>1, <1>2 DEF PagesShape
<1>6. /\ pages'[id] = p /\ p # None /\ \A q \in Ids \ {id} : pages'[q] = pages[q]
      /\ pages' \in [Ids -> PageReps \cup {None}]
  BY <1>0, <1>4, <1>5, PageIsSomething DEF PagesShape
<1>7. \A q \in Ids : Away(q)' <=> Away(q)
  BY <1>2, <1>4, <1>6 DEF Away
<1>8. /\ blobs' \in [Ids -> Vals \cup {None}] /\ blobs'[id] = None
      /\ \A q \in Ids \ {id} : blobs'[q] = blobs[q]
  BY <1>0, <1>2 DEF PagesShape
<1>9. backup' \in [id : Ids, flat : Vals] /\ Rewritten(id)' /\ \A q \in Ids : ~Rewritten(q)
  <2>1. PICK b : b = [id |-> id, flat |-> pages[id].flat]
    OBVIOUS
  <2>2. b \in [id : Ids, flat : Vals] /\ b.id = id
    BY <1>4, <2>1
  <2>3. b # None
    BY <2>2, BackupIsSomething
  <2> QED BY <1>2, <1>3, <2>1, <2>2, <2>3 DEF Rewritten
<1>10. PagesShape'
  <2>1. \A q \in Ids : Away(q)' =>
           unhooks' /\ (blobs'[q] # None \/ Rewritten(q)' \/ q \in cut')
    BY <1>0, <1>2, <1>7, <1>8, <1>9 DEF PagesShape
  <2> QED BY <1>0, <1>2, <1>6, <1>8, <1>9, <2>1 DEF PagesShape
<1>11. CoreInv'
  BY <1>0, <1>2, SameKeeps DEF coreVars
<1>12. \A q \in Ids : /\ pages[q] # None <=> pages'[q] # None
                      /\ pages[q] # None => pages'[q].obj = pages[q].obj
  BY <1>2, <1>4, <1>6
<1> QED BY <1>2, <1>10, <1>11, <1>12, TablesStay

LEMMA BackedUpKeeps ==
  ASSUME StaticInv, BackedUp
  PROVE  StaticInv'
<1>0. CoreInv /\ PagesShape
  BY DEF StaticInv, StaticShape
<1>1. PICK id : id = backup.id
  OBVIOUS
<1>2. PICK ok \in BOOLEAN :
         /\ blobs' = IF ok THEN [blobs EXCEPT ![id] = backup.flat] ELSE blobs
         /\ pages' =
               IF pages[id] = None THEN pages
               ELSE IF unhooks /\ pages[id].writing /\ ok
               THEN [pages EXCEPT ![id] = [Page(None) EXCEPT !.flat = pages[id].flat,
                                                             !.hooked = FALSE]]
               ELSE [pages EXCEPT ![id].writing = FALSE]
         /\ cut' = IF ok THEN cut \ {id}
                   ELSE IF pages[id] # None /\ ~pages[id].hooked THEN cut \cup {id}
                   ELSE cut
  BY <1>1 DEF BackedUp, GivesUp
<1>3. /\ backup # None /\ backup' = None
      /\ UNCHANGED <<map, buckets, dirty, file, writes, relay, remote, pending, finding,
                     exposed, known, now, running, whoId, whoHash, unhooks, call, last>>
  BY DEF BackedUp, relayVars
<1>4. id \in Ids /\ backup.flat \in Vals /\ backup.flat # None
  BY <1>0, <1>1, <1>3, RelayAssumption DEF PagesShape
<1>5. PICK p : p = IF unhooks /\ pages[id].writing /\ ok
                   THEN [Page(None) EXCEPT !.flat = pages[id].flat, !.hooked = FALSE]
                   ELSE [pages[id] EXCEPT !.writing = FALSE]
  OBVIOUS
<1>6. ASSUME pages[id] # None
      PROVE  /\ p \in PageReps /\ p # None
             /\ ~unhooks => p.obj = pages[id].obj
             /\ ~p.hooked => unhooks /\ (ok \/ ~pages[id].hooked)
             /\ pages' = [pages EXCEPT ![id] = p]
  <2>1. pages[id] \in PageReps
    BY <1>0, <1>4, <1>6 DEF PagesShape
  <2>2. ~pages[id].hooked => unhooks
    BY <1>0, <1>4, <1>6 DEF PagesShape, Away
  <2>3. CASE unhooks /\ pages[id].writing /\ ok
    <3>1. p = [Page(None) EXCEPT !.flat = pages[id].flat, !.hooked = FALSE]
      BY <1>5, <2>3
    <3>2. p \in PageReps
      BY <2>1, <3>1 DEF PageReps, Page
    <3>3. pages' = [pages EXCEPT ![id] = p]
      BY <1>2, <1>6, <2>3, <3>1
    <3> QED BY <2>3, <3>2, <3>3, PageIsSomething
  <2>4. CASE ~(unhooks /\ pages[id].writing /\ ok)
    <3>1. p = [pages[id] EXCEPT !.writing = FALSE]
      BY <1>5, <2>4
    <3>2. p \in PageReps /\ p.hooked = pages[id].hooked /\ p.obj = pages[id].obj
      BY <2>1, <3>1 DEF PageReps
    <3>3. pages' = [pages EXCEPT ![id] = p]
      BY <1>0, <1>2, <1>6, <2>4, <3>1 DEF PagesShape
    <3> QED BY <2>2, <3>2, <3>3, PageIsSomething
  <2> QED BY <2>3, <2>4
<1>7. /\ pages' \in [Ids -> PageReps \cup {None}]
      /\ \A q \in Ids \ {id} : pages'[q] = pages[q]
      /\ IF pages[id] = None THEN pages'[id] = None ELSE pages'[id] = p
  BY <1>0, <1>2, <1>4, <1>6 DEF PagesShape
<1>8. /\ blobs' \in [Ids -> Vals \cup {None}]
      /\ \A q \in Ids \ {id} : blobs'[q] = blobs[q]
      /\ ok => blobs'[id] # None
  BY <1>0, <1>2, <1>4 DEF PagesShape
<1>9. ASSUME NEW q \in Ids, Away(q)'
      PROVE  unhooks' /\ (blobs'[q] # None \/ Rewritten(q)' \/ q \in cut')
  <2>1. CASE q = id
    <3>1. pages[id] # None /\ ~p.hooked
      BY <1>7, <1>9, <2>1 DEF Away
    <3>2. CASE ok
      BY <1>3, <1>6, <1>8, <2>1, <3>1, <3>2
    <3>3. CASE ~ok
      <4>1. ~pages[id].hooked /\ unhooks
        BY <1>6, <3>1, <3>3
      <4> QED BY <1>2, <1>3, <2>1, <3>1, <3>3, <4>1
    <3> QED BY <3>2, <3>3
  <2>2. CASE q # id
    <3>1. Away(q) /\ ~Rewritten(q)
      BY <1>1, <1>7, <1>9, <2>2 DEF Away, Rewritten
    <3>2. unhooks /\ (blobs[q] # None \/ q \in cut)
      BY <1>0, <3>1 DEF PagesShape
    <3>3. q \in cut => q \in cut'
      BY <1>2, <2>2
    <3> QED BY <1>3, <1>8, <2>2, <3>2, <3>3
  <2> QED BY <2>1, <2>2
<1>10. PagesShape'
  <2>1. cut' \subseteq Ids
    BY <1>0, <1>2, <1>4 DEF PagesShape
  <2> QED BY <1>3, <1>7, <1>8, <1>9, <2>1 DEF PagesShape
<1>11. CoreInv'
  BY <1>0, <1>3, SameKeeps DEF coreVars
<1>12. \A q \in Ids : /\ pages[q] # None <=> pages'[q] # None
                      /\ ~unhooks /\ pages[q] # None => pages'[q].obj = pages[q].obj
  BY <1>4, <1>6, <1>7
<1> QED BY <1>3, <1>10, <1>11, <1>12, TablesStay

LEMMA TimersKeep ==
  ASSUME StaticInv, StaticStash \/ StaticMessages \/ StaticTick
  PROVE  StaticInv'
<1>0. CoreInv /\ CoreShape
  BY DEF StaticInv, CoreInv
<1>1. UNCHANGED <<whoId, whoHash, pages, blobs, backup, unhooks, cut, call, last>>
  BY DEF StaticStash, StaticMessages, StaticTick
<1>2. CoreInv'
  BY <1>0, StashKeeps, DeliveredKeeps, WrittenKeeps, TickKeeps
     DEF StaticStash, StaticMessages, StaticTick
<1>3. map' = map
  <2>1. CASE StaticStash
    <3>1. map' = [id \in Ids |-> IF id \in {} THEN None ELSE map[id]]
      BY <2>1 DEF StaticStash, Stash
    <3> QED BY <1>0, <3>1 DEF CoreShape, Maps
  <2>2. CASE StaticMessages \/ StaticTick
    BY <2>2 DEF StaticMessages, StaticTick, Delivered, Written, Tick
  <2> QED BY <2>1, <2>2
<1>4. UNCHANGED <<finding, running, relay>>
  BY DEF StaticStash, StaticMessages, StaticTick, Stash, Delivered, Written, Tick
<1>5. PagesShape'
  BY <1>1, SamePages
<1> QED BY <1>1, <1>2, <1>3, <1>4, <1>5, TablesStay


(* What was set is forgotten with the process. *)
NothingSet == running \/ \A k \in Keys : last[k] = None

(* A start finds pages, and keys for them, in the files. *)
LEMMA StaticStopsKeep ==
  ASSUME StaticInv, StaticStops
  PROVE  StaticInv'
<1>0. CoreInv /\ TablesShape /\ PagesShape
  BY DEF StaticInv, StaticShape
<1>1. /\ whoId' = NoKeys /\ whoHash' = NoKeys /\ pages' = Empty /\ backup' = None
      /\ call' = [c \in Callers |-> None] /\ last' = NoKeys
      /\ UNCHANGED <<blobs, unhooks>> /\ cut' = {}
      /\ finding' = [c \in Callers |-> None]
  BY DEF StaticStops, Stops, StopsWith
<1>2. CoreInv'
  BY <1>0, StopsKeep DEF StaticStops
<1>3. FindingShape' /\ CallsShape'
  BY <1>1 DEF FindingShape, CallsShape
<1>4. TablesShape'
  BY <1>0, <1>1 DEF TablesShape, NoKeys
<1>5. PagesShape'
  BY <1>0, <1>1 DEF PagesShape, Empty, Away
<1>6. ASSUME NEW k \in Keys PROVE KeyInv(k)'
  <2>1. whoId'[k] = None /\ whoHash'[k] = None /\ last'[k] = None
    BY <1>1 DEF NoKeys
  <2>2. \A c \in Callers : ~CallFor(c, k)'
    BY <1>1 DEF CallFor
  <2> QED BY <2>1, <2>2 DEF KeyInv, Named, Backed, Read
<1> QED BY <1>2, <1>3, <1>4, <1>5, <1>6 DEF StaticInv, StaticShape

LEMMA StaticStartsKeep ==
  ASSUME StaticInv, NothingSet, StaticStarts
  PROVE  StaticInv'
<1>0. CoreInv /\ TablesShape /\ PagesShape /\ CallsShape /\ FindingShape
  BY DEF StaticInv, StaticShape
<1>1. /\ ~running /\ running' = TRUE /\ pages' = LoadedPages(blobs)
      /\ UNCHANGED <<blobs, backup, unhooks, cut, call, last, finding>>
  BY DEF StaticStarts, Starts
<1>2. PICK loaded \in [Keys -> Ids \cup {None}] :
         /\ \A k \in Keys :
               LET mine == {id \in Ids : Owner[id] = k /\ blobs[id] # None}
               IN IF mine = {} THEN loaded[k] = None ELSE loaded[k] \in mine
         /\ whoId' = loaded /\ whoHash' = loaded
  BY DEF StaticStarts
<1>3. CoreInv'
  BY <1>0, StartsKeep DEF StaticStarts
<1>4. FindingShape' /\ CallsShape' /\ TablesShape'
  BY <1>0, <1>1, <1>2 DEF FindingShape, CallsShape, TablesShape
<1>5. ASSUME NEW id \in Ids
      PROVE  /\ pages'[id] \in PageReps \cup {None}
             /\ pages'[id] # None => pages'[id].hooked
             /\ blobs[id] # None => pages'[id] # None
  <2>1. CASE blobs[id] = None
    BY <1>1, <2>1 DEF LoadedPages
  <2>2. CASE blobs[id] # None
    <3>1. PICK p : p = Page(blobs[id])
      OBVIOUS
    <3>2. blobs[id] \in Vals
      BY <1>0, <2>2 DEF PagesShape
    <3>3. p \in PageReps /\ p.hooked
      BY <3>1, <3>2 DEF Page, PageReps
    <3>4. pages'[id] = p
      BY <1>1, <2>2, <3>1 DEF LoadedPages
    <3> QED BY <3>3, <3>4, PageIsSomething
  <2> QED BY <2>1, <2>2
<1>6. PagesShape'
  <2>1. pages' \in [Ids -> PageReps \cup {None}]
    BY <1>1, <1>5 DEF LoadedPages
  <2> QED BY <1>0, <1>1, <1>5, <2>1 DEF PagesShape, Away
<1>7. ASSUME NEW k \in Keys PROVE KeyInv(k)'
  <2>1. /\ whoId'[k] = whoHash'[k]
        /\ whoId'[k] # None => /\ whoId'[k] \in Ids /\ Owner[whoId'[k]] = k
                               /\ blobs[whoId'[k]] # None
    BY <1>2
  <2>2. \A c \in Callers : ~CallFor(c, k) /\ ~CallFor(c, k)'
    BY <1>0, <1>1 DEF CallFor, CallsShape
  <2>3. Named(k)' /\ Backed(k)'
    BY <1>5, <2>1, <2>2 DEF Named, Backed
  <2>4. last'[k] = None
    BY <1>1 DEF NothingSet
  <2> QED BY <2>1, <2>2, <2>3, <2>4 DEF KeyInv, Read
<1> QED BY <1>3, <1>4, <1>6, <1>7 DEF StaticInv, StaticShape


LEMMA NothingSetKeeps ==
  ASSUME StaticInv, NothingSet, StaticNext
  PROVE  NothingSet'
<1>1. ASSUME NEW k \in Keys, NEW op \in {"get", "set"}, NEW v \in Vals,
             \/ SetAtPage(k, v) \/ InMap(k, op, v)
             \/ \E c \in Callers : Asks(c, k, op, v)
      PROVE  NothingSet'
  <2>1. running /\ running' = running
    BY <1>1 DEF SetAtPage, InMap, Asks, Called
  <2> QED BY <2>1 DEF NothingSet
<1>2. ASSUME NEW c \in Callers,
             \/ SearchFails(c) \/ SearchFinds(c) \/ FindCreates(c) \/ FindIsLate(c)
             \/ FindNothing(c) \/ Confirmed(c) \/ Adopted(c)
      PROVE  NothingSet'
  <2>1. Waits(c, "search") \/ Waits(c, "find") \/ Waits(c, "confirm") \/ Waits(c, "adopt")
    BY <1>2 DEF SearchFails, SearchFinds, FindCreates, FindIsLate, FindNothing, Confirmed,
                Adopted
  <2>2. running
    BY <2>1, WaitsIs
  <2>3. running' = running
    BY <1>2 DEF SearchFails, SearchFinds, FindCreates, FindIsLate, FindNothing, Confirmed,
                Adopted, relayVars
  <2> QED BY <2>2, <2>3 DEF NothingSet
<1>3. ASSUME NEW k \in Keys, GetAtPage(k) \/ SetAtNoPage(k) \/ DelKeyValue(k)
      PROVE  NothingSet'
  BY <1>3 DEF GetAtPage, SetAtNoPage, DelKeyValue, Called, NothingSet
<1>4. CASE \/ BackedUp \/ StaticStash \/ StaticMessages \/ StaticTick
           \/ \E id \in Ids : BacksUp(id)
  <2>1. last' = last /\ running' = running
    BY <1>4 DEF BackedUp, StaticStash, StaticMessages, StaticTick, BacksUp, relayVars,
                Stash, Delivered, Written, Tick
  <2> QED BY <2>1 DEF NothingSet
<1>5. CASE StaticStops
  BY <1>5 DEF StaticStops, NoKeys, NothingSet
<1>6. CASE StaticStarts
  BY <1>6 DEF StaticStarts, Starts, NothingSet
<1> QED BY <1>1, <1>2, <1>3, <1>4, <1>5, <1>6 DEF StaticNext

StaticIInv == StaticInv /\ NothingSet

LEMMA InitStatic == StaticInit => StaticIInv
<1> SUFFICES ASSUME StaticInit PROVE StaticIInv
  OBVIOUS
<1>1. CoreInv /\ FindingShape
  BY InitCore DEF StaticInit, RelayInv
<1>2. /\ whoId = NoKeys /\ whoHash = NoKeys /\ last = NoKeys
      /\ pages = Empty /\ blobs = Empty /\ backup = None /\ cut = {}
      /\ unhooks \in BOOLEAN
      /\ call = [c \in Callers |-> None]
      /\ running = TRUE
  BY DEF StaticInit, RelayInit
<1>3. TablesShape
  BY <1>2 DEF TablesShape, NoKeys
<1>4. PagesShape
  BY <1>2 DEF PagesShape, Empty, Away
<1>5. CallsShape
  BY <1>2 DEF CallsShape
<1>6. ASSUME NEW k \in Keys PROVE KeyInv(k)
  <2>1. /\ whoId[k] = None /\ whoHash[k] = None /\ last[k] = None
        /\ \A c \in Callers : ~CallFor(c, k)
    BY <1>2 DEF NoKeys, CallFor
  <2> QED BY <2>1 DEF KeyInv, Named, Backed, Read
<1> QED BY <1>1, <1>2, <1>3, <1>4, <1>5, <1>6 DEF StaticIInv, StaticInv, StaticShape, NothingSet

LEMMA StaticKeeps ==
  ASSUME StaticIInv, StaticNext \/ UNCHANGED staticVars
  PROVE  StaticIInv'
<1>0. StaticInv /\ NothingSet
  BY DEF StaticIInv
<1>1. CASE StaticNext
  <2>1. StaticInv'
    BY <1>0, <1>1, GetAtPageKeeps, SetAtPageKeeps, SetAtNoPageKeeps,
       InMapKeeps, AsksKeeps, SearchFailsKeeps, SearchFindsKeeps,
       FindCreatesKeeps, FindIsLateKeeps, FindNothingKeeps, ConfirmedKeeps, AdoptedKeeps,
       DelKeeps, BacksUpKeeps, BackedUpKeeps, TimersKeep, StaticStopsKeep, StaticStartsKeep
       DEF StaticNext
  <2> QED BY <1>0, <1>1, <2>1, NothingSetKeeps DEF StaticIInv
<1>2. CASE UNCHANGED staticVars
  <2>1. UNCHANGED relayVars
    BY <1>2 DEF staticVars
  <2>2. UNCHANGED <<whoId, whoHash, pages, blobs, backup, unhooks, cut, call, last>>
    BY <1>2 DEF staticVars
  <2>3. UNCHANGED coreVars /\ UNCHANGED <<map, finding, running, relay>>
    BY <2>1 DEF relayVars, coreVars
  <2>4. StaticInv'
    BY <1>0, <2>2, <2>3, SameKeeps, SamePages, TablesStay DEF StaticInv
  <2> QED BY <1>0, <2>2, <2>3, <2>4 DEF StaticIInv, NothingSet
<1> QED BY <1>1, <1>2


-----------------------------------------------------------------------------
(* The stores side by side. *)

StoresInv ==
    /\ part = "session" => SessionInv
    /\ part = "mapper" => MapperInv
    /\ part = "relay" => RelayInv
    /\ part = "static" => StaticIInv

LEMMA InitStores == Init => StoresInv
<1> SUFFICES ASSUME Init PROVE StoresInv
  OBVIOUS
<1>1. \/ part = "session" /\ ST!Init
      \/ part = "mapper" /\ FM!Init
      \/ part = "relay" /\ RelayInit
      \/ part = "static" /\ StaticInit
  BY DEF Init
<1> QED BY <1>1, InitSession, InitMapper, InitCore, InitStatic DEF StoresInv

(* A step is a step of the part that runs, and no other part runs then.    *)
LEMMA StoresKeep == StoresInv /\ [Next]_vars => StoresInv'
<1> SUFFICES ASSUME StoresInv, [Next]_vars PROVE StoresInv'
  OBVIOUS
<1>1. part' = part
  BY DEF Next, vars
<1>2. CASE Next
  <2>1. \/ part = "session" /\ ST!Next
        \/ part = "mapper" /\ FM!Next
        \/ part = "relay" /\ RelayNext
        \/ part = "static" /\ StaticNext
    BY <1>2 DEF Next
  <2> QED BY <1>1, <2>1, SessionKeeps, MapperKeeps, RelayKeeps, StaticKeeps DEF StoresInv
<1>3. CASE UNCHANGED vars
  <2>1. UNCHANGED staticVars /\ table' = table /\ lru' = lru /\ timer' = timer
    BY <1>3 DEF vars
  <2>2. UNCHANGED relayVars
    BY <2>1 DEF staticVars
  <2>3. UNCHANGED <<sessionVars, now>> /\ UNCHANGED mapperVars
    BY <2>1, <2>2 DEF relayVars, sessionVars, mapperVars
  <2> QED BY <1>1, <2>1, <2>2, <2>3, SessionKeeps, MapperKeeps, RelayKeeps, StaticKeeps
          DEF StoresInv
<1> QED BY <1>2, <1>3

LEMMA StoresInvariant == Spec => []StoresInv
BY InitStores, StoresKeep, PTL DEF Spec

(* What the relay store's invariant promises, of it and of the static one. *)
LEMMA CorePromises ==
  ASSUME CoreInv
  PROVE  RelayCleanIsOnDisk /\ EverythingAges /\ PrunedIsRelayed
<1>1. ASSUME NEW id \in Ids, Relayed(id) PROVE remote[id] # None \/ InPending(id)
  BY <1>1 DEF Relayed
<1>2. known \subseteq Ids
  BY DEF CoreInv, CoreShape
<1> QED BY <1>1, <1>2 DEF CoreInv, Agreed, KnownIsRelayed, PrunedIsRelayed

LEMMA CoreTyped ==
  ASSUME CoreInv, FindingShape
  PROVE  RelayTypeOK
<1>1. \A c \in Callers : finding[c] = None \/ finding[c].id \in Ids
  BY DEF FindingShape, Findings
<1> QED BY <1>1 DEF CoreInv, CoreShape, RelayTypeOK, Maps, Mails

(* Every variable of every store has its type, whatever the bounds.        *)
THEOREM TypeCorrect == Spec => []TypeOK
<1>1. StoresInv => TypeOK
  <2> SUFFICES ASSUME StoresInv PROVE TypeOK
    OBVIOUS
  <2>1. part = "session" => ST!TypeOK
    BY DEF StoresInv, SessionInv
  <2>2. part = "mapper" => FM!TypeOK
    BY DEF StoresInv, MapperInv
  <2>3. part = "relay" => RelayTypeOK
    BY CoreTyped DEF StoresInv, RelayInv
  <2>4. ASSUME part = "static" PROVE StaticTypeOK
    <3>1. StaticInv
      BY <2>4 DEF StoresInv, StaticIInv
    <3>2. RelayTypeOK
      BY <3>1, CoreTyped DEF StaticInv
    <3>3. /\ \A k \in Keys : {whoId[k], whoHash[k], last[k]} \subseteq Ids \cup Vals \cup {None}
          /\ unhooks \in BOOLEAN
      BY <3>1 DEF StaticInv, StaticShape, TablesShape
    <3>4. /\ blobs \in [Ids -> Vals \cup {None}]
          /\ \A id \in Ids : pages[id] = None \/ {pages[id].hooked, pages[id].inMap} \subseteq BOOLEAN
          /\ cut \subseteq Ids
      BY <3>1 DEF StaticInv, StaticShape, PagesShape, PageReps
    <3>5. \A c \in Callers : call[c] = None \/ call[c].pc \in Pcs
      BY <3>1 DEF StaticInv, StaticShape, CallsShape, CallReps
    <3> QED BY <3>2, <3>3, <3>4, <3>5 DEF StaticTypeOK, Pcs
  <2> QED BY <2>1, <2>2, <2>3, <2>4 DEF TypeOK, In
<1> QED BY <1>1, StoresInvariant, PTL

(* session_table_no_sharing.js: however sets, deletions and culls follow   *)
(* on each other, every live session is listed, in the order of the last   *)
(* sets.                                                                   *)
THEOREM ListIsComplete == Spec => []ListFollowsTable
<1>1. StoresInv => ListFollowsTable
  BY DEF StoresInv, SessionInv, ListFollowsTable, In
<1> QED BY <1>1, StoresInvariant, PTL

(* With the flag down and no write under way, the file has the values of   *)
(* the map, in the default persistent store, the relay store and the       *)
(* static store, but for the objects no write has taken since they were    *)
(* created or set in place (which leave the flag down), were changed       *)
(* during a write, or were hit by a write that failed.                     *)
THEOREM CleanFilesAreCurrent == Spec => []CleanIsOnDisk
<1>1. StoresInv => CleanIsOnDisk
  BY CorePromises
     DEF StoresInv, MapperInv, RelayInv, StaticIInv, StaticInv, CleanIsOnDisk, In
<1> QED BY <1>1, StoresInvariant, PTL

(* files_and_relays.js: every object is in a bucket that is not older than *)
(* its last use, and what was pruned is at the remote store or on its way, *)
(* if there is a messenger.                                                *)
THEOREM PruningLosesNothing == Spec => []AgeingLosesNothing
<1>1. StoresInv => AgeingLosesNothing
  BY CorePromises DEF StoresInv, RelayInv, StaticIInv, StaticInv, AgeingLosesNothing, In
<1> QED BY <1>1, StoresInvariant, PTL

(* static_db.js, in a deployment whose pages keep their objects: until the *)
(* process stops, what a set that nothing overlapped stored is what the    *)
(* next get answers.                                                       *)
THEOREM SetIsRead == Spec => []ReadsLastSet
<1>1. StoresInv => ReadsLastSet
  BY DEF StoresInv, StaticIInv, StaticInv, KeyInv, Read, LastSetIsRead, ReadsLastSet, In
<1> QED BY <1>1, StoresInvariant, PTL

(* static_db.js: without another store a key that is known leads to an     *)
(* object of the map or to a page; and a page whose object was given up    *)
(* has a file, but while the file is rewritten and after a write that      *)
(* failed.                                                                 *)
THEOREM KeysLeadSomewhere == Spec => []NothingLeadsNowhere
<1>1. StoresInv => NothingLeadsNowhere
  <2> SUFFICES ASSUME StoresInv, part = "static" PROVE KeysAreBacked /\ UnhookedIsOnDisk
    BY DEF NothingLeadsNowhere, In
  <2>1. StaticInv
    BY DEF StoresInv, StaticIInv
  <2>2. KeysAreBacked
    BY <2>1 DEF StaticInv, KeyInv, Backed, KeysAreBacked
  <2>3. UnhookedIsOnDisk
    BY <2>1 DEF StaticInv, StaticShape, PagesShape, UnhookedIsOnDisk
  <2> QED BY <2>2, <2>3
<1> QED BY <1>1, StoresInvariant, PTL
=============================================================================
