--------------------------- MODULE KeyValueDBProofs ---------------------------
(***************************************************************************)
(* Proofs about KeyValueDB for any finite set of keys, any files and any   *)
(* configuration.                                                          *)
(*                                                                         *)
(* The table never holds anything but the last value set, so no answer of  *)
(* get is stale, whatever the timers do.  And a value that leaves the      *)
(* table is kept, unless it is one of those that the history unsure names. *)
(***************************************************************************)
EXTENDS KeyValueDB, TLAPS, FiniteSetTheorems

Passes == Cullers \cup {Stopper}
Ended == run \in {"exited", "crashed"}

(* A process that ended has nothing in memory. *)
Stopped ==
    Ended =>
        /\ table = Empty /\ toRemove = <<>>
        /\ \A c \in Passes : cull[c] = NoCull
        /\ \A r \in Removers \cup {Stopper} : rem[r] = NoRem
        /\ \A g \in Getters : getter[g] = NoGet
        /\ restarts < MaxRestarts

(* The table holds the last value set. *)
TableIsLatest == \A k \in Keys : table[k] # None => table[k] = latest[k]

(* Activation s has only writing to do. *)
WriteOnly(s) == s.ks = {} /\ s.left = 0 /\ s.key = None /\ s.val = None

(* Activations have the key they work on. *)
Keyed ==
    /\ \A c \in Passes :
          /\ cull[c].pc = "idle" => cull[c] = NoCull
          /\ cull[c].pc \in {"load", "create"} => cull[c].key \in Keys
          /\ cull[c].pc = "write" => WriteOnly(cull[c])
    /\ \A r \in Removers \cup {Stopper} : rem[r].pc # "idle" => rem[r].key \in Keys
    /\ \A g \in Getters : getter[g].pc \in {"load", "create"} => getter[g].key \in Keys

BaseInv == TypeOK /\ Stopped /\ TableIsLatest /\ Keyed

Rs == Removers \cup {Stopper}

(* A value that nobody has put in doubt. *)
Sure(k) == latest[k] # None /\ k \notin unsure

(* No removal is to come for k. *)
Spared(k) == ~Planned(k) /\ \A r \in Rs : rem[r].key # k

(* A cull will write the value of k. *)
InHand(k) ==
    \E c \in Passes :
        Carries(c, k) /\ Carried(c, k) = latest[k] /\ k \notin cull[c].ks

(* The file has the value of k, and nobody is about to replace it by less. *)
InFile(k) ==
    /\ OnDisk(k) = latest[k]
    /\ \A c \in Passes : ~CullHolds(c, k)
    /\ \A r \in Rs : RemHolds(r, k) => rem[r].map[k] = latest[k]
    /\ \A g \in Getters : ~GetHolds(g, k)

(* The key in hand has left the snapshot, and its file is not loaded yet.  *)
Working(c) ==
    cull[c].pc \in {"load", "create"} =>
        /\ cull[c].key \notin cull[c].ks
        /\ cull[c].stores[FileOf[cull[c].key]] = NoFile

KeptInv ==
    /\ \A k \in Keys : Sure(k) => Spared(k)
    /\ ~Ended => \A k \in Keys : Sure(k) /\ table[k] = None => InHand(k) \/ InFile(k)
    /\ \A c \in Passes : Working(c)
    /\ cull[Stopper].pc # "idle" => run = "storing"

-----------------------------------------------------------------------------
(* The activations, and the loop of the cull. *)

Stores == [Files -> Map \cup {NoFile}]
CullRecs ==
    [pc : {"idle", "load", "create", "write"}, ks : SUBSET Keys, left : Nat,
     key : Keys \cup {None}, val : Vals \cup {None}, stores : Stores]
RemRecs == [pc : {"idle", "load", "write"}, key : Keys \cup {None}, map : Map]
GetRecs ==
    [pc : {"idle", "load", "create", "answered"}, key : Keys \cup {None},
     answer : Vals \cup {None}]

(* Activations that do nothing are activations. *)
LEMMA IdleTypes ==
  /\ NoCull \in CullRecs /\ NoRem \in RemRecs /\ NoGet \in GetRecs
  /\ Empty \in Map /\ NoStores \in Stores
  /\ NoCull.pc = "idle" /\ NoRem.pc = "idle" /\ NoGet.pc = "idle"
  /\ NoCull.stores = NoStores /\ \A f \in Files : NoStores[f] = NoFile
<1>1. Empty \in Map
  BY DEF Empty, Map
<1>2. NoStores \in Stores /\ \A f \in Files : NoStores[f] = NoFile
  BY DEF NoStores, Stores
<1>3. NoCull \in CullRecs /\ NoCull.pc = "idle" /\ NoCull.stores = NoStores
  BY <1>2 DEF NoCull, CullRecs
<1>4. NoRem \in RemRecs /\ NoRem.pc = "idle"
  BY <1>1 DEF NoRem, RemRecs
<1>5. NoGet \in GetRecs /\ NoGet.pc = "idle"
  BY DEF NoGet, GetRecs
<1> QED BY <1>1, <1>2, <1>3, <1>4, <1>5

(* Sets of keys are finite. *)
LEMMA KeysAreFinite ==
  ASSUME NEW S \in SUBSET Keys
  PROVE  IsFiniteSet(S) /\ Cardinality(S) \in Nat
BY FS_Subset, FS_CardinalityType, KeyValueAssumption

(* The fields of an activation that is through with its loop. *)
LEMMA CullEnds ==
  ASSUME NEW pc, NEW e
  PROVE  [NoCull EXCEPT !.pc = pc, !.stores = e] =
           [pc |-> pc, ks |-> {}, left |-> 0, key |-> None, val |-> None, stores |-> e]
<1> DEFINE R == [pc : {NoCull.pc, pc}, ks : {{}}, left : {0}, key : {None}, val : {None},
                 stores : {NoStores, e}]
<1>1. NoCull \in R
  BY DEF NoCull
<1>2. [NoCull EXCEPT !.pc = pc, !.stores = e] \in R
  BY <1>1
<1>3. [pc |-> pc, ks |-> {}, left |-> 0, key |-> None, val |-> None, stores |-> e] \in R
  OBVIOUS
<1> QED BY <1>1, <1>2, <1>3 DEF NoCull

(* What the loop leaves in activation s when it has moved the given keys.  *)
Outcome(stores, ks, moved, s) ==
    /\ \A k \in moved : stores[FileOf[k]] # NoFile
    /\ \A f \in Files : s.stores[f] = NoFile <=> stores[f] = NoFile
    /\ \A k \in Keys : stores[FileOf[k]] # NoFile =>
         s.stores[FileOf[k]][k] = IF k \in moved THEN table[k]
                                  ELSE stores[FileOf[k]][k]
    /\ \/ /\ s.pc = "write" \/ s = NoCull
          /\ s.pc \in {"idle", "write"}
          /\ WriteOnly(s)
          /\ table' = [k \in Keys |-> IF k \in moved THEN None ELSE table[k]]
       \/ /\ s.pc = "load" /\ s.key \in ks \ moved /\ s.val = table[s.key]
          /\ stores[FileOf[s.key]] = NoFile
          /\ s.ks = ks \ (moved \cup {s.key})
          /\ table' = [k \in Keys |-> IF k \in moved \cup {s.key} THEN None
                                      ELSE table[k]]

(* From one await to the next the loop moves keys from the table to the    *)
(* loaded maps and then ends, or stops at a key whose file is not loaded.  *)
LEMMA CullLoopIs ==
  ASSUME NEW c \in Passes, NEW stores \in Stores, NEW ks \in SUBSET Keys,
         NEW left \in Nat, table \in Map, CullLoop(c, stores, ks, left)
  PROVE  \E moved \in SUBSET ks, s \in CullRecs :
           cull' = [cull EXCEPT ![c] = s] /\ Outcome(stores, ks, moved, s)
<1> DEFINE n(m) == Cardinality(m)
           filled(m) == [f \in Files |->
                         IF stores[f] = NoFile THEN NoFile
                         ELSE [k \in Keys |-> IF k \in m /\ FileOf[k] = f
                                              THEN table[k] ELSE stores[f][k]]]
           gone(m, more) == [k \in Keys |-> IF k \in m \cup more THEN None
                                            ELSE table[k]]
           ends(m) == [NoCull EXCEPT
                              !.pc = IF filled(m) = NoStores THEN "idle" ELSE "write",
                              !.stores = filled(m)]
           loads(m, k) == [pc |-> "load", ks |-> ks \ (m \cup {k}),
                           left |-> left - n(m) - 1, key |-> k,
                           val |-> table[k], stores |-> filled(m)]
<1>1. PICK moved \in SUBSET {k \in ks : stores[FileOf[k]] # NoFile} :
        \/ /\ table' = gone(moved, {})
           /\ cull' = [cull EXCEPT ![c] = ends(moved)]
        \/ /\ n(moved) < left
           /\ \E k \in ks \ moved :
                 /\ stores[FileOf[k]] = NoFile
                 /\ table' = gone(moved, {k})
                 /\ cull' = [cull EXCEPT ![c] = loads(moved, k)]
  BY DEF CullLoop
<1>2. moved \in SUBSET ks /\ moved \in SUBSET Keys /\ n(moved) \in Nat
      /\ \A k \in moved : stores[FileOf[k]] # NoFile
  BY <1>1, KeysAreFinite
<1>3. \A f \in Files : stores[f] # NoFile =>
        [k \in Keys |-> IF k \in moved /\ FileOf[k] = f THEN table[k]
                        ELSE stores[f][k]] \in Map
  BY DEF Stores, Map
<1>4. /\ filled(moved) \in Stores
      /\ \A f \in Files : filled(moved)[f] = NoFile <=> stores[f] = NoFile
  BY <1>3, KeyValueAssumption DEF Stores, Map
<1>5. \A k \in Keys : stores[FileOf[k]] # NoFile =>
        filled(moved)[FileOf[k]][k] = IF k \in moved THEN table[k]
                                      ELSE stores[FileOf[k]][k]
  BY KeyValueAssumption
<1>6. CASE /\ table' = gone(moved, {})
           /\ cull' = [cull EXCEPT ![c] = ends(moved)]
  <2> DEFINE s == ends(moved)
             e == filled(moved)
  <2>1. s \in CullRecs /\ s.stores = e /\ WriteOnly(s)
        /\ s.pc = IF e = NoStores THEN "idle" ELSE "write"
    <3> DEFINE pc == IF e = NoStores THEN "idle" ELSE "write"
    <3>1. e \in Stores /\ pc \in {"idle", "write"}
      BY <1>4
    <3>2. s = [pc |-> pc, ks |-> {}, left |-> 0, key |-> None, val |-> None,
               stores |-> e]
      BY CullEnds
    <3>3. pc = IF e = NoStores THEN "idle" ELSE "write"
      OBVIOUS
    <3> HIDE DEF e, s, pc
    <3> QED BY <3>1, <3>2, <3>3 DEF CullRecs, WriteOnly
  <2>2. s.pc = "write" \/ s = NoCull
    <3>1. ASSUME e = NoStores PROVE s = NoCull
      <4>1. s = [pc |-> "idle", ks |-> {}, left |-> 0, key |-> None, val |-> None,
                 stores |-> NoStores]
        BY <3>1, CullEnds
      <4> QED BY <4>1 DEF NoCull
    <3> QED BY <2>1, <3>1
  <2>3. table' = [k \in Keys |-> IF k \in moved THEN None ELSE table[k]]
    BY <1>6
  <2>4. cull' = [cull EXCEPT ![c] = s]
    BY <1>6
  <2>5. s.pc \in {"idle", "write"}
    BY <2>1
  <2>6. /\ \A f \in Files : s.stores[f] = NoFile <=> stores[f] = NoFile
        /\ \A k \in Keys : stores[FileOf[k]] # NoFile =>
             s.stores[FileOf[k]][k] = IF k \in moved THEN table[k]
                                      ELSE stores[FileOf[k]][k]
    BY <1>4, <1>5, <2>1
  <2> HIDE DEF s, e
  <2> QED BY <1>2, <2>1, <2>2, <2>3, <2>4, <2>5, <2>6 DEF Outcome
<1>7. ASSUME n(moved) < left, NEW k \in ks \ moved, stores[FileOf[k]] = NoFile,
             table' = gone(moved, {k}), cull' = [cull EXCEPT ![c] = loads(moved, k)]
      PROVE  \E s \in CullRecs :
                /\ cull' = [cull EXCEPT ![c] = s]
                /\ s.stores = filled(moved)
                /\ s.pc = "load" /\ s.key = k /\ s.val = table[k]
                /\ s.ks = ks \ (moved \cup {k})
  <2> DEFINE s == loads(moved, k)
             e == filled(moved)
             l == left - n(moved) - 1
  <2>1. l \in Nat
    BY <1>2, <1>7
  <2>2. e \in Stores
    BY <1>4
  <2>3. table[k] \in Vals \cup {None}
    BY <1>7 DEF Map
  <2> HIDE DEF e, l
  <2>4. s \in CullRecs
    <3>1. s = [pc |-> "load", ks |-> ks \ (moved \cup {k}), left |-> l, key |-> k,
               val |-> table[k], stores |-> e]
      BY DEF e, l
    <3> QED BY <1>7, <2>1, <2>2, <2>3, <3>1 DEF CullRecs
  <2>5. s.stores = filled(moved) /\ s.pc = "load" /\ s.key = k /\ s.val = table[k]
        /\ s.ks = ks \ (moved \cup {k})
    OBVIOUS
  <2>6. cull' = [cull EXCEPT ![c] = s]
    BY <1>7
  <2> HIDE DEF s
  <2> QED BY <2>4, <2>5, <2>6
<1>8. ASSUME n(moved) < left, NEW k \in ks \ moved, stores[FileOf[k]] = NoFile,
             table' = gone(moved, {k}), cull' = [cull EXCEPT ![c] = loads(moved, k)]
      PROVE  \E s \in CullRecs :
                cull' = [cull EXCEPT ![c] = s] /\ Outcome(stores, ks, moved, s)
  <2>1. PICK s \in CullRecs :
                /\ cull' = [cull EXCEPT ![c] = s]
                /\ s.stores = filled(moved)
                /\ s.pc = "load" /\ s.key = k /\ s.val = table[k]
                /\ s.ks = ks \ (moved \cup {k})
    BY <1>7, <1>8
  <2>2. /\ \A f \in Files : s.stores[f] = NoFile <=> stores[f] = NoFile
        /\ \A q \in Keys : stores[FileOf[q]] # NoFile =>
             s.stores[FileOf[q]][q] = IF q \in moved THEN table[q]
                                      ELSE stores[FileOf[q]][q]
    BY <1>4, <1>5, <2>1
  <2>3. table' = [q \in Keys |-> IF q \in moved \cup {s.key} THEN None ELSE table[q]]
    BY <1>8, <2>1
  <2> HIDE DEF filled, gone, loads
  <2> QED BY <1>2, <1>8, <2>1, <2>2, <2>3 DEF Outcome
<1> HIDE DEF filled, gone, loads, ends, n
<1>9. CASE \E k \in ks \ moved :
             /\ n(moved) < left
             /\ stores[FileOf[k]] = NoFile
             /\ table' = gone(moved, {k})
             /\ cull' = [cull EXCEPT ![c] = loads(moved, k)]
  BY <1>2, <1>8, <1>9
<1> QED BY <1>1, <1>6, <1>9

-----------------------------------------------------------------------------
(* Types, and that the table holds the last values. *)

(* The types, with names for the activations. *)
LEMMA Types ==
  TypeOK <=> /\ setup \in Setups
             /\ table \in Map /\ latest \in Map
             /\ disk \in Stores
             /\ toRemove \in Seq(Keys)
             /\ cull \in [Passes -> CullRecs]
             /\ rem \in [Removers \cup {Stopper} -> RemRecs]
             /\ getter \in [Getters -> GetRecs]
             /\ run \in {"up", "stopping", "storing", "exited", "crashed"}
             /\ unsure \subseteq Keys
             /\ opsDone \in 0..MaxOps /\ restarts \in 0..MaxRestarts
BY DEF TypeOK, Stores, CullRecs, RemRecs, GetRecs, Passes

(* The deployment starts with files and an empty table. *)
LEMMA InitBase == Init => BaseInv
<1> SUFFICES ASSUME Init PROVE BaseInv
  OBVIOUS
<1>1. PICK was \in Map :
        /\ disk = [f \in Files |->
                     IF f \notin Present THEN NoFile
                     ELSE [k \in Keys |-> IF FileOf[k] = f THEN was[k] ELSE None]]
        /\ latest = was
  BY DEF Init
<1>2. disk \in Stores
  <2>1. \A f \in Files :
          [k \in Keys |-> IF FileOf[k] = f THEN was[k] ELSE None] \in Map
    BY DEF Map
  <2> QED BY <1>1, <2>1 DEF Stores
<1>3. /\ cull \in [Passes -> CullRecs] /\ \A c \in Passes : cull[c] = NoCull
      /\ rem \in [Removers \cup {Stopper} -> RemRecs]
      /\ \A r \in Removers \cup {Stopper} : rem[r] = NoRem
      /\ getter \in [Getters -> GetRecs] /\ \A g \in Getters : getter[g] = NoGet
  BY IdleTypes DEF Init, Passes
<1>4. /\ setup \in Setups /\ table = Empty /\ toRemove = <<>> /\ run = "up"
      /\ unsure = {} /\ opsDone = 0 /\ restarts = 0
  BY DEF Init
<1>5. toRemove \in Seq(Keys) /\ opsDone \in 0..MaxOps /\ restarts \in 0..MaxRestarts
  BY <1>4, KeyValueAssumption
<1>6. TypeOK
  BY <1>1, <1>2, <1>3, <1>4, <1>5, IdleTypes, Types
<1>7. Stopped /\ TableIsLatest
  BY <1>4 DEF Stopped, Ended, TableIsLatest, Empty
<1>8. Keyed
  BY <1>3, IdleTypes DEF Keyed
<1> QED BY <1>6, <1>7, <1>8 DEF BaseInv

(* The loop of the cull takes values out of the table and changes none.    *)
LEMMA LoopBase ==
  ASSUME BaseInv, NEW c \in Passes, NEW stores \in Stores, NEW ks \in SUBSET Keys,
         NEW left \in Nat, CullLoop(c, stores, ks, left)
  PROVE  /\ table' \in Map /\ cull' \in [Passes -> CullRecs]
         /\ \A k \in Keys : table'[k] # None => table'[k] = table[k]
         /\ \A d \in Passes \ {c} : cull'[d] = cull[d]
         /\ cull'[c].pc = "idle" => cull'[c] = NoCull
         /\ cull'[c].pc = "load" => cull'[c].key \in Keys
         /\ cull'[c].pc # "create"
         /\ cull'[c].pc = "write" => WriteOnly(cull'[c])
<1>1. table \in Map /\ cull \in [Passes -> CullRecs]
  BY Types DEF BaseInv
<1>2. PICK moved \in SUBSET ks, s \in CullRecs :
        cull' = [cull EXCEPT ![c] = s] /\ Outcome(stores, ks, moved, s)
  BY <1>1, CullLoopIs
<1>3. cull'[c] = s /\ cull' \in [Passes -> CullRecs]
      /\ \A d \in Passes \ {c} : cull'[d] = cull[d]
  BY <1>1, <1>2
<1>4. /\ table' \in Map
      /\ \A k \in Keys : table'[k] # None => table'[k] = table[k]
  <2>1. PICK out \in SUBSET Keys :
          table' = [k \in Keys |-> IF k \in out THEN None ELSE table[k]]
    <3>1. CASE table' = [k \in Keys |-> IF k \in moved THEN None ELSE table[k]]
      BY <3>1
    <3>2. CASE /\ s.key \in ks
               /\ table' = [k \in Keys |-> IF k \in moved \cup {s.key} THEN None
                                           ELSE table[k]]
      <4>1. moved \cup {s.key} \in SUBSET Keys
        BY <3>2
      <4> QED BY <3>2, <4>1
    <3> QED BY <1>2, <3>1, <3>2 DEF Outcome
  <2> QED BY <1>1, <2>1 DEF Map
<1>5. /\ s.pc = "idle" => s = NoCull
      /\ s.pc = "load" => s.key \in Keys
      /\ s.pc # "create"
      /\ s.pc = "write" => WriteOnly(s)
  BY <1>2, IdleTypes DEF Outcome
<1> QED BY <1>3, <1>4, <1>5

(* The loop goes on with the file it waited for. *)
LEMMA CullHasIs ==
  ASSUME BaseInv, NEW c \in Passes, cull[c].pc \in {"load", "create"},
         NEW map \in Map, CullHas(c, map)
  PROVE  LET s == cull[c]
             stores == [s.stores EXCEPT ![FileOf[s.key]] = [map EXCEPT ![s.key] = s.val]]
         IN /\ stores \in Stores /\ s.ks \in SUBSET Keys /\ s.left \in Nat
            /\ CullLoop(c, stores, s.ks, s.left)
<1>1. cull[c] \in CullRecs /\ cull[c].key \in Keys
  BY Types DEF BaseInv, Keyed
<1>2. [map EXCEPT ![cull[c].key] = cull[c].val] \in Map
  BY <1>1 DEF Map, CullRecs
<1>3. FileOf[cull[c].key] \in Files
  BY <1>1, KeyValueAssumption
<1>4. [cull[c].stores EXCEPT ![FileOf[cull[c].key]] =
                 [map EXCEPT ![cull[c].key] = cull[c].val]] \in Stores
  BY <1>1, <1>2, <1>3 DEF CullRecs, Stores
<1> QED BY <1>1, <1>4 DEF CullHas, CullRecs

(* After the last file the activation is idle. *)
LEMMA CullWritesIs ==
  ASSUME BaseInv, NEW c \in Passes, NEW f \in Files, cull[c].pc = "write",
         LET rest == [cull[c].stores EXCEPT ![f] = NoFile]
         IN cull' = [cull EXCEPT ![c].stores = rest,
                                 ![c].pc = IF rest = NoStores THEN "idle" ELSE "write"]
  PROVE  /\ cull' \in [Passes -> CullRecs]
         /\ \A d \in Passes \ {c} : cull'[d] = cull[d]
         /\ cull'[c].pc \in {"idle", "write"}
         /\ cull'[c].stores = [cull[c].stores EXCEPT ![f] = NoFile]
         /\ cull'[c].pc = "write" => WriteOnly(cull'[c])
         /\ cull'[c].pc = "idle" => cull'[c] = NoCull
<1> DEFINE e == [cull[c].stores EXCEPT ![f] = NoFile]
           pc == IF e = NoStores THEN "idle" ELSE "write"
           s == [cull[c] EXCEPT !.stores = e, !.pc = pc]
<1>1. cull[c] \in CullRecs /\ cull \in [Passes -> CullRecs] /\ WriteOnly(cull[c])
  BY Types DEF BaseInv, Keyed
<1>2. e \in Stores
  BY <1>1 DEF CullRecs, Stores
<1>3. cull' = [cull EXCEPT ![c] = s]
  BY <1>1
<1>4. pc \in {"idle", "write"} /\ (pc = "idle" => e = NoStores)
  OBVIOUS
<1> HIDE DEF pc, e
<1>5. s = [pc |-> pc, ks |-> {}, left |-> 0, key |-> None, val |-> None, stores |-> e]
  <2>1. cull[c] = [pc |-> "write", ks |-> {}, left |-> 0, key |-> None, val |-> None,
                   stores |-> cull[c].stores]
    BY <1>1 DEF CullRecs, WriteOnly
  <2> DEFINE w == cull[c].stores
  <2> HIDE DEF w
  <2>2. s = [[pc |-> "write", ks |-> {}, left |-> 0, key |-> None, val |-> None,
              stores |-> w] EXCEPT !.stores = e, !.pc = pc]
    BY <2>1 DEF w
  <2> DEFINE R == [pc : {"write", pc}, ks : {{}}, left : {0}, key : {None},
                   val : {None}, stores : {w, e}]
  <2>3. [pc |-> "write", ks |-> {}, left |-> 0, key |-> None, val |-> None,
         stores |-> w] \in R
    OBVIOUS
  <2>4. s \in R
    BY <2>2, <2>3
  <2>5. s.pc = pc /\ s.stores = e
    BY <1>1 DEF CullRecs
  <2> HIDE DEF s
  <2> QED BY <2>4, <2>5
<1> HIDE DEF s
<1>6. s \in CullRecs /\ s.stores = e /\ s.pc = pc /\ WriteOnly(s)
  BY <1>2, <1>4, <1>5 DEF CullRecs, WriteOnly
<1>7. pc = "idle" => s = NoCull
  BY <1>4, <1>5 DEF NoCull
<1>8. cull'[c] = s /\ cull' \in [Passes -> CullRecs]
      /\ \A d \in Passes \ {c} : cull'[d] = cull[d]
  BY <1>1, <1>3, <1>6
<1> QED BY <1>4, <1>6, <1>7, <1>8 DEF e

(* Every step of an activation of the cull. *)
LEMMA CullBase ==
  ASSUME BaseInv, NEW c \in Passes,
         MemCheck(c) \/ Culling(c) \/ (ShutdownStores /\ c = Stopper)
  PROVE  BaseInv'
<1> DEFINE Loops == \E stores \in Stores, ks \in SUBSET Keys, left \in Nat :
                       CullLoop(c, stores, ks, left)
<1>0. /\ TypeOK /\ Stopped /\ TableIsLatest /\ Keyed
      /\ cull \in [Passes -> CullRecs] /\ disk \in Stores /\ table \in Map
  BY Types DEF BaseInv
<1>1. /\ ~Ended /\ run' \in {"up", "stopping", "storing"}
      /\ UNCHANGED <<setup, latest, toRemove, rem, getter, opsDone, restarts>>
  <2>1. CASE MemCheck(c)
    BY <2>1 DEF MemCheck, Ended
  <2>2. CASE Culling(c)
    <3>1. cull[c] # NoCull /\ run' = run
      BY <2>2, IdleTypes DEF Culling, CullLoads, CullCreates, CullWrites
    <3> QED BY <1>0, <2>2, <3>1
            DEF Culling, CullLoads, CullCreates, CullWrites, Stopped, Ended, TypeOK
  <2>3. CASE ShutdownStores
    BY <2>3 DEF ShutdownStores, Ended
  <2> QED BY <2>1, <2>2, <2>3
<1>u. unsure' \subseteq Keys
  BY <1>0 DEF TypeOK, MemCheck, Culling, CullLoads, CullCreates, CullWrites,
              ShutdownStores, Disputed
<1>2. ASSUME Loops, disk' \in Stores PROVE BaseInv'
  <2>1. /\ table' \in Map /\ cull' \in [Passes -> CullRecs]
        /\ \A k \in Keys : table'[k] # None => table'[k] = table[k]
        /\ \A d \in Passes \ {c} : cull'[d] = cull[d]
        /\ cull'[c].pc = "idle" => cull'[c] = NoCull
        /\ cull'[c].pc = "load" => cull'[c].key \in Keys
        /\ cull'[c].pc # "create"
        /\ cull'[c].pc = "write" => WriteOnly(cull'[c])
    BY <1>2, LoopBase
  <2>2. TypeOK'
    BY <1>0, <1>1, <1>u, <1>2, <2>1 DEF TypeOK, Stores, CullRecs, Passes
  <2>3. Stopped' /\ TableIsLatest'
    BY <1>0, <1>1, <2>1 DEF Stopped, Ended, TableIsLatest
  <2>4. Keyed'
    BY <1>0, <1>1, <2>1 DEF Keyed
  <2> QED BY <2>2, <2>3, <2>4 DEF BaseInv
<1>3. CASE MemCheck(c)
  <2>1. InTable \in SUBSET Keys /\ ReleaseSize \in Nat /\ disk' = disk
    BY <1>3, KeyValueAssumption DEF MemCheck, InTable
  <2> QED BY <1>0, <1>2, <1>3, <2>1, IdleTypes DEF MemCheck
<1>4. CASE ShutdownStores /\ c = Stopper
  <2>1. InTable \in SUBSET Keys /\ disk' = disk
    BY <1>4 DEF ShutdownStores, InTable
  <2>2. Cardinality(InTable) \in Nat
    BY <2>1, KeysAreFinite
  <2> QED BY <1>0, <1>2, <1>4, <2>1, <2>2, IdleTypes DEF ShutdownStores
<1>5. CASE CullLoads(c)
  <2> DEFINE map == disk[FileOf[cull[c].key]]
  <2>0. /\ cull[c].pc = "load" /\ disk' = disk /\ cull[c].key \in Keys
        /\ map \in Map \cup {NoFile}
    BY <1>0, <1>5, KeyValueAssumption DEF CullLoads, Keyed, Stores
  <2>1. CASE map = NoFile
    <3>1. cull' = [cull EXCEPT ![c].pc = "create"] /\ table' = table
      BY <1>5, <2>1 DEF CullLoads
    <3>2. /\ cull' \in [Passes -> CullRecs]
          /\ cull'[c].pc = "create" /\ cull'[c].key = cull[c].key
          /\ \A d \in Passes \ {c} : cull'[d] = cull[d]
      BY <1>0, <3>1 DEF CullRecs
    <3>3. TypeOK'
      BY <1>0, <1>1, <1>u, <2>0, <3>1, <3>2 DEF TypeOK, Stores, CullRecs, Passes
    <3>4. Stopped' /\ TableIsLatest'
      BY <1>0, <1>1, <3>1 DEF Stopped, Ended, TableIsLatest
    <3>5. Keyed'
      BY <1>0, <1>1, <2>0, <3>2 DEF Keyed
    <3> QED BY <3>3, <3>4, <3>5 DEF BaseInv
  <2>2. CASE map # NoFile
    <3>1. CullHas(c, map) /\ map \in Map
      BY <1>5, <2>0, <2>2 DEF CullLoads
    <3>2. Loops
      BY <2>0, <3>1, CullHasIs
    <3> QED BY <1>0, <1>2, <2>0, <3>2
  <2> QED BY <2>1, <2>2
<1>6. CASE CullCreates(c)
  <2>1. /\ cull[c].pc = "create" /\ CullHas(c, Empty) /\ cull[c].key \in Keys
        /\ disk' = [disk EXCEPT ![FileOf[cull[c].key]] = Empty]
    BY <1>0, <1>6 DEF CullCreates, Keyed
  <2>2. disk' \in Stores
    BY <1>0, <2>1, IdleTypes DEF Stores
  <2>3. Loops
    BY <2>1, IdleTypes, CullHasIs
  <2> QED BY <1>2, <2>2, <2>3
<1>7. CASE CullWrites(c)
  <2>1. PICK f \in Files :
          /\ cull[c].pc = "write" /\ table' = table
          /\ cull[c].stores[f] # NoFile
          /\ disk' = [disk EXCEPT ![f] = cull[c].stores[f]]
          /\ cull' = [cull EXCEPT ![c].stores = [cull[c].stores EXCEPT ![f] = NoFile],
                                  ![c].pc = IF [cull[c].stores EXCEPT ![f] = NoFile]
                                                 = NoStores THEN "idle" ELSE "write"]
    BY <1>7 DEF CullWrites
  <2>2. cull[c] \in CullRecs
    BY <1>0
  <2>3. disk' \in Stores
    BY <1>0, <2>1, <2>2 DEF Stores, CullRecs
  <2>4. /\ cull' \in [Passes -> CullRecs]
        /\ \A d \in Passes \ {c} : cull'[d] = cull[d]
        /\ cull'[c].pc \in {"idle", "write"}
        /\ cull'[c].pc = "write" => WriteOnly(cull'[c])
        /\ cull'[c].pc = "idle" => cull'[c] = NoCull
    BY <1>0, <2>1, CullWritesIs
  <2>5. TypeOK'
    BY <1>0, <1>1, <1>u, <2>1, <2>3, <2>4 DEF TypeOK, Stores, CullRecs, Passes
  <2>6. Stopped' /\ TableIsLatest'
    BY <1>0, <1>1, <2>1 DEF Stopped, Ended, TableIsLatest
  <2>7. Keyed'
    BY <1>0, <1>1, <2>4 DEF Keyed
  <2> QED BY <2>5, <2>6, <2>7 DEF BaseInv
<1> QED BY <1>3, <1>4, <1>5, <1>6, <1>7 DEF Culling

(* The loop of the removals takes a planned key, or ends. *)
LEMMA NextRemovalIs ==
  ASSUME BaseInv, NEW r \in Removers \cup {Stopper}, NextRemoval(r)
  PROVE  /\ rem' \in [Removers \cup {Stopper} -> RemRecs]
         /\ toRemove' \in Seq(Keys)
         /\ \A q \in (Removers \cup {Stopper}) \ {r} : rem'[q] = rem[q]
         /\ \A k \in Keys : Planned(k)' => Planned(k)
         /\ \/ rem'[r].pc = "idle" /\ rem'[r] = NoRem
            \/ rem'[r].pc = "load" /\ rem'[r].key \in Keys /\ Planned(rem'[r].key)
<1>1. rem \in [Removers \cup {Stopper} -> RemRecs] /\ toRemove \in Seq(Keys)
  BY Types DEF BaseInv
<1>2. CASE toRemove = <<>>
  <2>1. rem' = [rem EXCEPT ![r] = NoRem] /\ toRemove' = toRemove
    BY <1>2 DEF NextRemoval
  <2> QED BY <1>1, <2>1, IdleTypes DEF Planned
<1>3. CASE toRemove # <<>>
  <2> DEFINE k == Head(toRemove)
             s == [NoRem EXCEPT !.pc = "load", !.key = k]
  <2>1. rem' = [rem EXCEPT ![r] = s] /\ toRemove' = Tail(toRemove)
    BY <1>3 DEF NextRemoval
  <2>2. /\ k \in Keys /\ toRemove' \in Seq(Keys)
        /\ Len(toRemove) >= 1 /\ k = toRemove[1]
        /\ Len(toRemove') = Len(toRemove) - 1
        /\ \A i \in 1..Len(toRemove') : toRemove'[i] = toRemove[i + 1]
    BY <1>1, <1>3, <2>1
  <2>3. s \in RemRecs /\ s.pc = "load" /\ s.key = k
    BY <2>2, IdleTypes DEF NoRem, RemRecs
  <2>4. /\ DOMAIN toRemove = 1..Len(toRemove)
        /\ DOMAIN toRemove' = 1..Len(toRemove')
        /\ Len(toRemove) \in Nat /\ Len(toRemove') \in Nat
    BY <1>1, <2>2
  <2>5. Planned(k) /\ \A q \in Keys : Planned(q)' => Planned(q)
    BY <2>2, <2>4 DEF Planned
  <2> HIDE DEF s, k
  <2> QED BY <1>1, <2>1, <2>2, <2>3, <2>5
<1> QED BY <1>2, <1>3

(* Every step of a removal. *)
LEMMA RemovalBase ==
  ASSUME BaseInv, NEW r \in Removers \cup {Stopper},
         RemovalTimer(r) \/ Removing(r) \/ (Shutdown /\ r = Stopper)
  PROVE  BaseInv'
<1>0. /\ TypeOK /\ Stopped /\ TableIsLatest /\ Keyed
      /\ rem \in [Removers \cup {Stopper} -> RemRecs] /\ disk \in Stores
  BY Types DEF BaseInv
<1>1. /\ ~Ended /\ ~Ended' /\ run' \in {"up", "stopping", "storing"}
      /\ UNCHANGED <<setup, latest, table, cull, getter, restarts>>
      /\ opsDone' \in 0..MaxOps
  <2>1. CASE RemovalTimer(r)
    BY <1>0, <2>1 DEF RemovalTimer, Ended, TypeOK
  <2>2. CASE Removing(r)
    <3>1. rem[r] # NoRem
      BY <2>2, IdleTypes DEF Removing, RemovalLoads, RemovalWrites
    <3>2. ~Ended
      BY <1>0, <3>1 DEF Stopped
    <3>3. /\ run' = run /\ opsDone' = opsDone
          /\ UNCHANGED <<setup, latest, table, cull, getter, restarts>>
      BY <2>2 DEF Removing, RemovalLoads, RemovalWrites
    <3> QED BY <1>0, <3>2, <3>3 DEF Ended, TypeOK
  <2>3. CASE Shutdown
    BY <1>0, <2>3, KeyValueAssumption DEF Shutdown, Calls, Counted, Ended, TypeOK
  <2> QED BY <2>1, <2>2, <2>3
<1>u. unsure' \subseteq Keys
  BY <1>0 DEF TypeOK, RemovalTimer, Removing, RemovalLoads, RemovalWrites, Shutdown
<1>2. ASSUME /\ rem' \in [Removers \cup {Stopper} -> RemRecs]
             /\ toRemove' \in Seq(Keys) /\ disk' \in Stores
             /\ \A q \in (Removers \cup {Stopper}) \ {r} : rem'[q] = rem[q]
             /\ rem'[r].pc # "idle" => rem'[r].key \in Keys
      PROVE  BaseInv'
  <2>1. TypeOK'
    BY <1>0, <1>1, <1>u, <1>2 DEF TypeOK, Stores, RemRecs
  <2>2. Stopped' /\ TableIsLatest'
    BY <1>0, <1>1 DEF Stopped, TableIsLatest
  <2>3. Keyed'
    BY <1>0, <1>1, <1>2 DEF Keyed
  <2> QED BY <2>1, <2>2, <2>3 DEF BaseInv
<1>3. ASSUME NextRemoval(r), disk' \in Stores PROVE BaseInv'
  BY <1>2, <1>3, NextRemovalIs
<1>4. CASE RemovalTimer(r)
  BY <1>0, <1>3, <1>4 DEF RemovalTimer
<1>5. CASE Shutdown /\ r = Stopper
  <2>1. NextRemoval(r) \/ (rem' = rem /\ toRemove' = toRemove)
    BY <1>5 DEF Shutdown
  <2>2. disk' = disk
    BY <1>5 DEF Shutdown
  <2>3. CASE rem' = rem /\ toRemove' = toRemove
    <3>1. toRemove' \in Seq(Keys) /\ (rem[r].pc # "idle" => rem[r].key \in Keys)
      BY <1>0, <2>3 DEF TypeOK, Keyed
    <3> QED BY <1>0, <1>2, <2>2, <2>3, <3>1
  <2> QED BY <1>0, <1>3, <2>1, <2>2, <2>3
<1>6. CASE RemovalLoads(r)
  <2> DEFINE k == rem[r].key
             map == disk[FileOf[k]]
  <2>1. k \in Keys /\ disk' = disk
    BY <1>0, <1>6 DEF RemovalLoads, Keyed
  <2>2. CASE /\ map # NoFile
             /\ rem' = [rem EXCEPT ![r].pc = "write", ![r].map = [map EXCEPT ![k] = None]]
             /\ toRemove' = toRemove
    <3>1. map \in Map
      BY <1>0, <2>1, <2>2, KeyValueAssumption DEF Stores
    <3>2. [map EXCEPT ![k] = None] \in Map
      BY <3>1 DEF Map
    <3> DEFINE new == [map EXCEPT ![k] = None]
    <3> HIDE DEF new
    <3>3. rem' = [rem EXCEPT ![r].pc = "write", ![r].map = new]
      BY <2>2 DEF new
    <3>4. new \in Map
      BY <3>2 DEF new
    <3>5. /\ rem' \in [Removers \cup {Stopper} -> RemRecs]
          /\ \A q \in (Removers \cup {Stopper}) \ {r} : rem'[q] = rem[q]
          /\ rem'[r].key = k
      BY <1>0, <3>3, <3>4 DEF RemRecs
    <3> QED BY <1>0, <1>2, <2>1, <2>2, <3>5 DEF TypeOK
  <2>3. CASE NextRemoval(r)
    BY <1>0, <1>3, <2>1, <2>3
  <2> QED BY <1>6, <2>2, <2>3 DEF RemovalLoads
<1>7. CASE RemovalWrites(r)
  <2>1. disk' = [disk EXCEPT ![FileOf[rem[r].key]] = rem[r].map] /\ NextRemoval(r)
    BY <1>7 DEF RemovalWrites
  <2>2. disk' \in Stores
    BY <1>0, <2>1 DEF Stores, RemRecs
  <2> QED BY <1>3, <2>1, <2>2
<1> QED BY <1>4, <1>5, <1>6, <1>7 DEF Removing

(* What an answer leaves in the activations of get. *)
LEMMA GetToIs ==
  ASSUME BaseInv, NEW g \in Getters, NEW k \in Keys,
         NEW pc \in {"load", "create", "answered"}, NEW a \in Vals \cup {None},
         GetTo(g, k, pc, a)
  PROVE  /\ getter' \in [Getters -> GetRecs]
         /\ getter'[g] = [pc |-> pc, key |-> k, answer |-> a]
         /\ \A h \in Getters \ {g} : getter'[h] = getter[h]
<1>1. getter \in [Getters -> GetRecs]
  BY Types DEF BaseInv
<1>2. [pc |-> pc, key |-> k, answer |-> a] \in GetRecs
  BY DEF GetRecs
<1> QED BY <1>1, <1>2 DEF GetTo

(* Every step of get. *)
LEMMA GetIs ==
  ASSUME BaseInv, NEW g \in Getters, (\E k \in Keys : Get(g, k)) \/ Getting(g)
  PROVE  /\ \/ \E k \in Keys, pc \in {"load", "create", "answered"},
                  a \in Vals \cup {None} :
                 /\ GetTo(g, k, pc, a)
                 /\ a \in {None, latest[k]}
                 /\ pc = "create" =>
                      getter[g].pc = "load" /\ getter[g].key = k /\ disk[FileOf[k]] = NoFile
         /\ \/ disk' = disk
            \/ /\ getter[g].pc = "create"
               /\ disk' = [disk EXCEPT ![FileOf[getter[g].key]] = Empty]
         /\ UNCHANGED <<setup, table, latest, toRemove, cull, rem, run, restarts>>
         /\ opsDone' \in 0..MaxOps /\ ~Ended
         /\ getter[g].pc \in {"load", "create"} \/ "get" \in setup
<1>0. /\ TypeOK /\ Stopped /\ TableIsLatest /\ Keyed
      /\ table \in Map /\ disk \in Stores
  BY Types DEF BaseInv
<1>1. \A k \in Keys : table[k] \in Vals \cup {None} /\ table[k] \in {None, latest[k]}
  BY <1>0 DEF TableIsLatest, Map
<1>2. ASSUME NEW k \in Keys, Get(g, k)
      PROVE  /\ \E pc \in {"load", "answered"}, a \in Vals \cup {None} :
                  GetTo(g, k, pc, a) /\ a \in {None, latest[k]}
             /\ disk' = disk
             /\ UNCHANGED <<setup, table, latest, toRemove, cull, rem, run, restarts>>
             /\ opsDone' \in 0..MaxOps /\ ~Ended /\ "get" \in setup
  BY <1>0, <1>1, <1>2, KeyValueAssumption DEF Get, Calls, Counted, Ended, TypeOK
<1>3. CASE GetLoads(g)
  <2> DEFINE k == getter[g].key
  <2>1. k \in Keys /\ getter[g].pc = "load"
    BY <1>0, <1>3 DEF GetLoads, Keyed
  <2>2. ~Ended
    BY <1>0, <2>1, IdleTypes DEF Stopped
  <2>3. /\ disk' = disk /\ opsDone' = opsDone
        /\ UNCHANGED <<setup, table, latest, toRemove, cull, rem, run, restarts>>
    BY <1>3 DEF GetLoads
  <2>4. CASE disk[FileOf[k]] = NoFile /\ GetTo(g, k, "create", None)
    BY <1>0, <2>1, <2>2, <2>3, <2>4 DEF TypeOK
  <2>5. CASE GetTo(g, k, "answered", SecondLook(k, disk[FileOf[k]]))
    <3>1. /\ SecondLook(k, disk[FileOf[k]]) \in Vals \cup {None}
          /\ SecondLook(k, disk[FileOf[k]]) \in {None, latest[k]}
      BY <1>1, <2>1 DEF SecondLook
    <3> QED BY <1>0, <2>1, <2>2, <2>3, <2>5, <3>1 DEF TypeOK
  <2> QED BY <1>3, <2>4, <2>5 DEF GetLoads
<1>4. CASE GetCreates(g)
  <2>1. getter[g].key \in Keys /\ getter[g].pc = "create"
    BY <1>0, <1>4 DEF GetCreates, Keyed
  <2>2. ~Ended
    BY <1>0, <2>1, IdleTypes DEF Stopped
  <2>3. /\ disk' = [disk EXCEPT ![FileOf[getter[g].key]] = Empty] /\ opsDone' = opsDone
        /\ GetTo(g, getter[g].key, "answered", None)
        /\ UNCHANGED <<setup, table, latest, toRemove, cull, rem, run, restarts>>
    BY <1>4 DEF GetCreates
  <2> QED BY <1>0, <2>1, <2>2, <2>3 DEF TypeOK
<1> QED BY <1>2, <1>3, <1>4 DEF Getting

(* Every step of get keeps the types and the table. *)
LEMMA GetBase ==
  ASSUME BaseInv, NEW g \in Getters, (\E k \in Keys : Get(g, k)) \/ Getting(g)
  PROVE  BaseInv'
<1>0. /\ TypeOK /\ Stopped /\ TableIsLatest /\ Keyed /\ disk \in Stores
  BY Types DEF BaseInv
<1>1. /\ disk' = disk \/ disk' = [disk EXCEPT ![FileOf[getter[g].key]] = Empty]
      /\ UNCHANGED <<setup, table, latest, toRemove, cull, rem, run, restarts>>
      /\ opsDone' \in 0..MaxOps /\ ~Ended
  BY GetIs
<1>2. PICK k \in Keys, pc \in {"load", "create", "answered"}, a \in Vals \cup {None} :
        GetTo(g, k, pc, a)
  BY GetIs
<1>3. /\ getter' \in [Getters -> GetRecs]
      /\ getter'[g] = [pc |-> pc, key |-> k, answer |-> a]
      /\ \A h \in Getters \ {g} : getter'[h] = getter[h]
  BY <1>2, GetToIs
<1>4. disk' \in Stores
  BY <1>0, <1>1, IdleTypes DEF Stores
<1>u. unsure' \subseteq Keys
  BY <1>0 DEF TypeOK, Get, Getting, GetLoads, GetCreates
<1>5. TypeOK'
  BY <1>0, <1>1, <1>3, <1>4, <1>u DEF TypeOK, Stores, GetRecs
<1>6. Stopped' /\ TableIsLatest'
  BY <1>0, <1>1 DEF Stopped, Ended, TableIsLatest
<1>7. Keyed'
  BY <1>0, <1>1, <1>3 DEF Keyed
<1> QED BY <1>5, <1>6, <1>7 DEF BaseInv

(* The operations on the table. *)
LEMMA TableBase ==
  ASSUME BaseInv,
         (\E k \in Keys, v \in Vals : Set(k, v)) \/ (\E k \in Keys : Delete(k))
  PROVE  BaseInv'
<1>0. /\ TypeOK /\ Stopped /\ TableIsLatest /\ Keyed /\ table \in Map /\ latest \in Map
      /\ toRemove \in Seq(Keys)
  BY Types DEF BaseInv
<1>1. /\ ~Ended /\ opsDone' \in 0..MaxOps
      /\ UNCHANGED <<setup, disk, cull, rem, getter, run, restarts>>
  BY <1>0, KeyValueAssumption DEF Set, Delete, Calls, Counted, Ended, TypeOK
<1>2. PICK k \in Keys, v \in Vals \cup {None} :
        table' = [table EXCEPT ![k] = v] /\ latest' = [latest EXCEPT ![k] = v]
  BY DEF Set, Delete
<1>3. table' \in Map /\ latest' \in Map /\ toRemove' \in Seq(Keys)
  <2>1. table' \in Map /\ latest' \in Map
    BY <1>0, <1>2 DEF Map
  <2>2. toRemove' = toRemove \/ \E q \in Keys : toRemove' = Append(toRemove, q)
    BY DEF Set, Delete
  <2> QED BY <1>0, <2>1, <2>2
<1>u. unsure' \subseteq Keys
  BY <1>0 DEF TypeOK, Set, Delete
<1>4. TypeOK'
  BY <1>0, <1>1, <1>3, <1>u DEF TypeOK
<1>5. Stopped'
  BY <1>1 DEF Stopped, Ended
<1>6. TableIsLatest'
  BY <1>0, <1>2 DEF TableIsLatest, Map
<1>7. Keyed'
  BY <1>0, <1>1 DEF Keyed
<1> QED BY <1>4, <1>5, <1>6, <1>7 DEF BaseInv

(* The process ends, starts, or nothing happens. *)
LEMMA ProcessBase ==
  ASSUME BaseInv, Sigint \/ Crash \/ Start \/ UNCHANGED vars
  PROVE  BaseInv'
<1>0. /\ TypeOK /\ Stopped /\ TableIsLatest /\ Keyed /\ disk \in Stores
  BY Types DEF BaseInv
<1>1. CASE Sigint \/ Crash
  <2>1. /\ run' \in {"exited", "crashed"} /\ table' = Empty /\ toRemove' = <<>>
        /\ cull' = [c \in Passes |-> NoCull]
        /\ rem' = [r \in Removers \cup {Stopper} |-> NoRem]
        /\ getter' = [g \in Getters |-> NoGet]
        /\ UNCHANGED <<setup, disk, latest, unsure, restarts>>
        /\ restarts < MaxRestarts /\ opsDone' \in 0 .. MaxOps
    BY <1>0, <1>1, KeyValueAssumption DEF TypeOK, Sigint, Crash, Ends, Counted, Passes
  <2>2. /\ cull' \in [Passes -> CullRecs] /\ rem' \in [Removers \cup {Stopper} -> RemRecs]
        /\ getter' \in [Getters -> GetRecs] /\ table' \in Map
        /\ toRemove' \in Seq(Keys)
    BY <2>1, IdleTypes
  <2>3. TypeOK'
    BY <1>0, <2>1, <2>2 DEF TypeOK, CullRecs, RemRecs, GetRecs, Stores, Passes
  <2>4. Stopped' /\ TableIsLatest'
    BY <2>1 DEF Stopped, Ended, TableIsLatest, Empty
  <2>5. Keyed'
    BY <2>1, IdleTypes DEF Keyed
  <2> QED BY <2>3, <2>4, <2>5 DEF BaseInv
<1>2. CASE Start
  <2>1. /\ Ended /\ run' = "up" /\ restarts' = restarts + 1
        /\ latest' = [k \in Keys |-> OnDisk(k)]
        /\ UNCHANGED <<setup, table, disk, toRemove, cull, rem, getter, opsDone>>
        /\ unsure' = {}
    BY <1>2 DEF Start, Ended
  <2>2. restarts' \in 0..MaxRestarts
    BY <1>0, <2>1, KeyValueAssumption DEF TypeOK, Stopped
  <2>3. latest' \in Map
    <3>1. \A k \in Keys : disk[FileOf[k]] \in Map \cup {NoFile}
      BY <1>0, KeyValueAssumption DEF Stores
    <3> QED BY <2>1, <3>1 DEF OnDisk, Map
  <2>4. TypeOK'
    BY <1>0, <2>1, <2>2, <2>3 DEF TypeOK
  <2>5. Stopped' /\ TableIsLatest'
    BY <1>0, <2>1 DEF Stopped, Ended, TableIsLatest, Empty
  <2>6. Keyed'
    BY <1>0, <2>1 DEF Keyed
  <2> QED BY <2>4, <2>5, <2>6 DEF BaseInv
<1>3. CASE UNCHANGED vars
  <2>1. TypeOK'
    BY <1>0, <1>3 DEF vars, TypeOK
  <2>2. Stopped' /\ TableIsLatest' /\ Keyed'
    BY <1>0, <1>3 DEF vars, Stopped, Ended, TableIsLatest, Keyed
  <2> QED BY <2>1, <2>2 DEF BaseInv
<1> QED BY <1>1, <1>2, <1>3

(* Every step keeps the types and the table. *)
LEMMA NextBase == BaseInv /\ [Next]_vars => BaseInv'
<1> SUFFICES ASSUME BaseInv, [Next]_vars PROVE BaseInv'
  OBVIOUS
<1>1. CASE \/ \E k \in Keys, v \in Vals : Set(k, v)
           \/ \E k \in Keys : Delete(k)
  BY <1>1, TableBase
<1>2. CASE \E g \in Getters : (\E k \in Keys : Get(g, k)) \/ Getting(g)
  BY <1>2, GetBase
<1>3. CASE \/ \E c \in Cullers : MemCheck(c)
           \/ \E c \in Cullers \cup {Stopper} : Culling(c)
           \/ ShutdownStores
  BY <1>3, CullBase DEF Passes
<1>4. CASE \/ \E r \in Removers : RemovalTimer(r)
           \/ \E r \in Removers \cup {Stopper} : Removing(r)
           \/ Shutdown
  BY <1>4, RemovalBase
<1>5. CASE Sigint \/ Crash \/ Start \/ UNCHANGED vars
  BY <1>5, ProcessBase
<1> QED BY <1>1, <1>2, <1>3, <1>4, <1>5 DEF Next

LEMMA BaseInvariant == Spec => []BaseInv
BY InitBase, NextBase, PTL DEF Spec

(* The variables keep their types. *)
THEOREM TypeCorrect == Spec => []TypeOK
<1>1. BaseInv => TypeOK
  BY DEF BaseInv
<1> QED BY <1>1, BaseInvariant, PTL

(* Whatever timers, operations and restarts interleave with its waits, get *)
(* answers null or what the last completed set left.                       *)
THEOREM GetsAreFresh == Spec => GetNeverStale
<1> DEFINE Step == \A g \in Getters : Answers(g) =>
                      getter'[g].answer \in {None, latest[getter'[g].key]}
<1>1. ASSUME BaseInv, [Next]_vars, NEW g \in Getters, Answers(g)
      PROVE  getter'[g].answer \in {None, latest[getter'[g].key]}
  <2>1. getter'[g] # getter[g] /\ getter'[g].pc = "answered"
    BY <1>1 DEF Answers
  <2>2. CASE \E h \in Getters : (\E k \in Keys : Get(h, k)) \/ Getting(h)
    <3>1. PICK h \in Getters : (\E k \in Keys : Get(h, k)) \/ Getting(h)
      BY <2>2
    <3>2. PICK k \in Keys, pc \in {"load", "create", "answered"}, a \in Vals \cup {None} :
            GetTo(h, k, pc, a) /\ a \in {None, latest[k]}
      BY <1>1, <3>1, GetIs
    <3>3. /\ getter'[h] = [pc |-> pc, key |-> k, answer |-> a]
          /\ \A o \in Getters \ {h} : getter'[o] = getter[o]
      BY <1>1, <3>2, GetToIs
    <3>4. g = h
      BY <2>1, <3>3
    <3> QED BY <3>2, <3>3, <3>4
  <2>3. CASE Sigint \/ Crash
    <3>1. getter'[g] = NoGet
      BY <2>3 DEF Sigint, Crash, Ends, Counted
    <3> QED BY <2>1, <3>1, IdleTypes
  <2>4. ASSUME ~(\E h \in Getters : (\E k \in Keys : Get(h, k)) \/ Getting(h)),
               ~(Sigint \/ Crash)
        PROVE  getter' = getter
    <3>1. CASE \/ \E k \in Keys, v \in Vals : Set(k, v)
               \/ \E k \in Keys : Delete(k)
               \/ Shutdown \/ ShutdownStores \/ Start \/ UNCHANGED vars
      BY <3>1 DEF Set, Delete, Shutdown, ShutdownStores, Start, vars
    <3>2. CASE \/ \E c \in Cullers : MemCheck(c)
               \/ \E c \in Cullers \cup {Stopper} : Culling(c)
               \/ \E r \in Removers : RemovalTimer(r)
               \/ \E r \in Removers \cup {Stopper} : Removing(r)
      BY <3>2 DEF MemCheck, Culling, CullLoads, CullCreates, CullWrites,
                  RemovalTimer, Removing, RemovalLoads, RemovalWrites
    <3> QED BY <1>1, <2>4, <3>1, <3>2 DEF Next
  <2> QED BY <2>1, <2>2, <2>3, <2>4
<1>2. BaseInv /\ [Next]_vars => [Step]_vars
  BY <1>1
<1> QED BY <1>2, BaseInvariant, PTL DEF Spec, GetNeverStale

-----------------------------------------------------------------------------
(* Eviction is not loss. *)

(* An idle activation holds nothing. *)
LEMMA IdleHoldsNothing ==
  ASSUME NEW c \in Passes, cull[c] = NoCull, NEW k \in Keys
  PROVE  ~CullHolds(c, k) /\ ~Carries(c, k) /\ Working(c)
<1>1. /\ NoCull.pc = "idle" /\ NoCull.ks = {}
      /\ NoCull.stores[FileOf[k]] = NoFile
  BY IdleTypes, KeyValueAssumption DEF NoCull
<1> QED BY <1>1 DEF CullHolds, Carries, Working

(* The domains of the activations. *)
LEMMA Domains ==
  ASSUME BaseInv
  PROVE  DOMAIN cull = Passes /\ DOMAIN rem = Rs
BY Types DEF BaseInv, Rs

(* A step that leaves the table and what the operations left as they are,  *)
(* or takes values out of the table only.                                  *)
LEMMA SureBefore ==
  ASSUME NEW k \in Keys, latest' = latest, unsure \subseteq unsure', Sure(k)'
  PROVE  Sure(k) /\ latest'[k] = latest[k]
BY DEF Sure

(* The files start with what the operations are said to have left. *)
LEMMA InitKept == Init => KeptInv
<1> SUFFICES ASSUME Init PROVE KeptInv
  OBVIOUS
<1>1. PICK was \in Map :
        /\ \A k \in Keys : FileOf[k] \notin Present => was[k] = None
        /\ disk = [f \in Files |->
                     IF f \notin Present THEN NoFile
                     ELSE [k \in Keys |-> IF FileOf[k] = f THEN was[k] ELSE None]]
        /\ latest = was
  BY DEF Init
<1>2. /\ \A c \in Passes : cull[c] = NoCull
      /\ \A r \in Rs : rem[r] = NoRem
      /\ \A g \in Getters : getter[g] = NoGet
      /\ toRemove = <<>>
  BY DEF Init, Passes, Rs
<1>3. \A f \in Files :
        [k \in Keys |-> IF FileOf[k] = f THEN was[k] ELSE None] # NoFile
  <2>1. \A f \in Files :
          [k \in Keys |-> IF FileOf[k] = f THEN was[k] ELSE None] \in Map
    BY DEF Map
  <2> QED BY <2>1, KeyValueAssumption DEF Map
<1>4. \A k \in Keys : OnDisk(k) = latest[k]
  BY <1>1, <1>3, KeyValueAssumption DEF OnDisk
<1>5. \A k \in Keys : Spared(k)
  BY <1>2, KeyValueAssumption DEF Spared, Planned, NoRem
<1>6. ASSUME NEW k \in Keys PROVE InFile(k)
  <2>1. \A c \in Passes : ~CullHolds(c, k)
    BY <1>2, IdleHoldsNothing
  <2>2. \A r \in Rs : ~RemHolds(r, k)
    BY <1>2, IdleTypes DEF RemHolds
  <2>3. \A g \in Getters : ~GetHolds(g, k)
    BY <1>2, IdleTypes DEF GetHolds
  <2> QED BY <1>4, <2>1, <2>2, <2>3 DEF InFile
<1>7. \A c \in Passes : Working(c)
  BY <1>2, IdleTypes DEF Working
<1>8. cull[Stopper].pc = "idle"
  BY <1>2, IdleTypes DEF Passes
<1> QED BY <1>5, <1>6, <1>7, <1>8 DEF KeptInv

(* A value that was set is in the table; if it was deleted before, it may  *)
(* be removed all the same.                                                *)
LEMMA TableKept ==
  ASSUME BaseInv, KeptInv,
         (\E k \in Keys, v \in Vals : Set(k, v)) \/ (\E k \in Keys : Delete(k))
  PROVE  KeptInv'
<1>0. table \in Map /\ latest \in Map /\ toRemove \in Seq(Keys) /\ DOMAIN rem = Rs
  BY Types, Domains DEF BaseInv
<1>1. UNCHANGED <<disk, cull, rem, getter, run>> /\ ~Ended
  BY DEF Set, Delete, Calls, Counted, Ended
<1>2. PICK k \in Keys, v \in Vals \cup {None} :
        /\ table' = [table EXCEPT ![k] = v] /\ latest' = [latest EXCEPT ![k] = v]
        /\ \/ /\ v # None /\ toRemove' = toRemove
              /\ unsure' = IF Planned(k) \/ \E r \in DOMAIN rem : rem[r].key = k
                           THEN unsure \cup {k} ELSE unsure \ {k}
           \/ v = None /\ toRemove' = Append(toRemove, k) /\ unsure' = unsure
  <2>1. CASE \E k \in Keys, v \in Vals : Set(k, v)
    BY <2>1, KeyValueAssumption DEF Set
  <2>2. CASE \E k \in Keys : Delete(k)
    BY <2>2 DEF Delete
  <2> QED BY <2>1, <2>2
<1>3. \A q \in Keys \ {k} : latest'[q] = latest[q] /\ table'[q] = table[q]
                            /\ (q \in unsure' <=> q \in unsure)
  BY <1>0, <1>2 DEF Map
<1>4. latest'[k] = v /\ table'[k] = v
  BY <1>0, <1>2 DEF Map
<1>5. ASSUME NEW q \in Keys, Planned(q)' PROVE Planned(q) \/ (q = k /\ v = None)
  <2>1. CASE toRemove' = toRemove
    BY <1>5, <2>1 DEF Planned
  <2>2. CASE toRemove' = Append(toRemove, k) /\ v = None
    <3>1. /\ DOMAIN toRemove = 1..Len(toRemove) /\ Len(toRemove) \in Nat
          /\ DOMAIN toRemove' = 1..(Len(toRemove) + 1)
          /\ toRemove'[Len(toRemove) + 1] = k
          /\ \A i \in 1..Len(toRemove) : toRemove'[i] = toRemove[i]
      BY <1>0, <2>2
    <3> QED BY <1>5, <2>2, <3>1 DEF Planned
  <2> QED BY <1>2, <2>1, <2>2
<1>6. ASSUME NEW q \in Keys, Sure(q)' PROVE Spared(q)'
  <2>1. CASE q # k
    <3>1. Spared(q)
      BY <1>3, <1>6, <2>1 DEF Sure, KeptInv
    <3> QED BY <1>1, <1>5, <2>1, <3>1 DEF Spared
  <2>2. CASE q = k
    <3>1. v # None
      BY <1>4, <1>6, <2>2 DEF Sure
    <3>2. ~Planned(k) /\ \A r \in Rs : rem[r].key # k
      BY <1>0, <1>2, <1>6, <2>2, <3>1 DEF Sure
    <3> QED BY <1>1, <1>5, <2>2, <3>1, <3>2 DEF Spared
  <2> QED BY <2>1, <2>2
<1>7. ASSUME NEW q \in Keys, Sure(q)', table'[q] = None PROVE (InHand(q) \/ InFile(q))'
  <2>1. q # k
    BY <1>4, <1>7 DEF Sure
  <2>2. InHand(q) \/ InFile(q)
    BY <1>1, <1>3, <1>7, <2>1 DEF Sure, KeptInv
  <2>3. latest'[q] = latest[q]
    BY <1>3, <2>1
  <2>4. InHand(q) => InHand(q)'
    BY <1>1, <2>3 DEF InHand, Carries, Carried
  <2>5. InFile(q) => InFile(q)'
    BY <1>1, <2>3 DEF InFile, OnDisk, CullHolds, Carries, RemHolds, GetHolds
  <2> QED BY <2>2, <2>4, <2>5
<1>8. (\A c \in Passes : Working(c))' /\ (cull[Stopper].pc # "idle" => run = "storing")'
  BY <1>1 DEF KeptInv, Working
<1> QED BY <1>6, <1>7, <1>8 DEF KeptInv

(* What get creates has nothing in it: a value of that file is in the      *)
(* hands of a cull.                                                        *)
LEMMA GetKept ==
  ASSUME BaseInv, KeptInv, NEW g \in Getters,
         (\E k \in Keys : Get(g, k)) \/ Getting(g)
  PROVE  KeptInv'
<1>0. disk \in Stores /\ Keyed /\ DOMAIN cull = Passes /\ DOMAIN rem = Rs
      /\ \A k \in Keys : FileOf[k] \in Files
  BY Types, Domains, KeyValueAssumption DEF BaseInv
<1>1. UNCHANGED <<table, latest, toRemove, cull, rem, run>> /\ ~Ended
  BY GetIs
<1>2. PICK k \in Keys, pc \in {"load", "create", "answered"}, a \in Vals \cup {None} :
        /\ GetTo(g, k, pc, a)
        /\ pc = "create" =>
             getter[g].pc = "load" /\ getter[g].key = k /\ disk[FileOf[k]] = NoFile
  BY GetIs
<1>3. /\ getter'[g].pc = pc /\ getter'[g].key = k
      /\ \A h \in Getters \ {g} : getter'[h] = getter[h]
  <2>1. GetTo(g, k, pc, a)
    BY <1>2
  <2>2. /\ getter'[g] = [pc |-> pc, key |-> k, answer |-> a]
        /\ \A h \in Getters \ {g} : getter'[h] = getter[h]
    BY <2>1, GetToIs
  <2> QED BY <2>2
<1>4. \/ disk' = disk
      \/ /\ getter[g].pc = "create" /\ getter[g].key \in Keys
         /\ disk' = [disk EXCEPT ![FileOf[getter[g].key]] = Empty]
  BY <1>0 DEF Get, Getting, GetLoads, GetCreates, Keyed
<1>5. unsure' = unsure
  BY DEF Get, Getting, GetLoads, GetCreates
<1>6. ASSUME NEW q \in Keys, Sure(q)' PROVE Spared(q)'
  BY <1>1, <1>5, <1>6, SureBefore DEF KeptInv, Spared, Planned
<1>7. ASSUME NEW q \in Keys, Sure(q)', table'[q] = None PROVE (InHand(q) \/ InFile(q))'
  <2>1. Sure(q) /\ latest'[q] = latest[q] /\ latest[q] # None /\ table[q] = None
    BY <1>1, <1>5, <1>7, SureBefore DEF Sure
  <2>2. CASE InHand(q)
    BY <1>1, <2>1, <2>2 DEF InHand, Carries, Carried
  <2>3. CASE InFile(q)
    <3>1. OnDisk(q)' = OnDisk(q)
      <4>1. CASE disk' = disk
        BY <4>1 DEF OnDisk
      <4>2. CASE /\ getter[g].pc = "create"
                 /\ disk' = [disk EXCEPT ![FileOf[getter[g].key]] = Empty]
        <5>1. FileOf[q] # FileOf[getter[g].key]
          BY <2>3, <4>2 DEF InFile, GetHolds
        <5> QED BY <1>0, <4>2, <5>1 DEF OnDisk, Stores
      <4> QED BY <1>4, <4>1, <4>2
    <3>2. \A h \in Getters : ~GetHolds(h, q)'
      <4>1. ~GetHolds(g, q)'
        <5>1. disk[FileOf[q]] # NoFile
          BY <2>1, <2>3 DEF InFile, OnDisk
        <5> QED BY <1>2, <1>3, <5>1 DEF GetHolds
      <4>2. \A h \in Getters \ {g} : ~GetHolds(h, q)'
        BY <1>3, <2>3 DEF InFile, GetHolds
      <4> QED BY <4>1, <4>2
    <3>3. /\ \A c \in Passes : ~CullHolds(c, q)'
          /\ \A r \in Rs : RemHolds(r, q)' => rem'[r].map[q] = latest'[q]
      BY <1>1, <2>1, <2>3 DEF InFile, CullHolds, Carries, RemHolds
    <3> QED BY <2>1, <2>3, <3>1, <3>2, <3>3 DEF InFile
  <2> QED BY <1>1, <2>1, <2>2, <2>3 DEF KeptInv
<1>8. (\A c \in Passes : Working(c))' /\ (cull[Stopper].pc # "idle" => run = "storing")'
  BY <1>1 DEF KeptInv, Working
<1> QED BY <1>6, <1>7, <1>8 DEF KeptInv

(* The loop hands on what it takes out of the table: it carries the value  *)
(* behind it, and what was in a file or in hand before stays there.        *)
LEMMA LoopKept ==
  ASSUME BaseInv, NEW c \in Passes, NEW stores \in Stores, NEW ks \in SUBSET Keys,
         NEW left \in Nat, CullLoop(c, stores, ks, left),
         UNCHANGED <<latest, rem, getter>>
  PROVE  /\ Working(c)'
         /\ \A d \in Passes \ {c} : cull'[d] = cull[d]
         /\ \A k \in Keys : table'[k] = None /\ table[k] # None => InHand(k)'
         /\ \A k \in Keys \ ks : stores[FileOf[k]] # NoFile
                                 /\ stores[FileOf[k]][k] = latest[k] => InHand(k)'
         /\ \A k \in Keys :
              (\E d \in Passes \ {c} : /\ Carries(d, k) /\ Carried(d, k) = latest[k]
                                       /\ k \notin cull[d].ks) => InHand(k)'
         /\ \A k \in Keys \ ks :
              /\ stores[FileOf[k]] = NoFile
              /\ OnDisk(k)' = latest[k]
              /\ \A d \in Passes \ {c} : ~CullHolds(d, k)
              /\ \A r \in Rs : RemHolds(r, k) => rem[r].map[k] = latest[k]
              /\ \A g \in Getters : ~GetHolds(g, k)
              => InFile(k)'
<1>1. table \in Map /\ cull \in [Passes -> CullRecs] /\ TableIsLatest
  BY Types DEF BaseInv
<1>2. PICK moved \in SUBSET ks, s \in CullRecs :
        cull' = [cull EXCEPT ![c] = s] /\ Outcome(stores, ks, moved, s)
  BY <1>1, CullLoopIs
<1>3. cull'[c] = s /\ \A d \in Passes \ {c} : cull'[d] = cull[d]
  BY <1>1, <1>2
<1> DEFINE Out(k) == k \in moved \/ (s.pc = "load" /\ k = s.key)
<1>4. \A k \in Keys : table'[k] = IF Out(k) THEN None ELSE table[k]
  <2>1. CASE table' = [k \in Keys |-> IF k \in moved THEN None ELSE table[k]]
             /\ s.pc # "load"
    BY <2>1
  <2>2. CASE /\ table' = [k \in Keys |-> IF k \in moved \cup {s.key} THEN None
                                         ELSE table[k]]
             /\ s.pc = "load"
    BY <2>2
  <2> QED BY <1>2, <2>1, <2>2 DEF Outcome
<1>5. s.pc \in {"idle", "write", "load"} /\ (s.pc = "load" => s.key \in ks \ moved
        /\ s.val = table[s.key] /\ stores[FileOf[s.key]] = NoFile
        /\ s.ks = ks \ (moved \cup {s.key}))
      /\ (s.pc # "load" => s.ks = {})
  BY <1>2 DEF Outcome, WriteOnly
<1>6. /\ \A k \in moved : stores[FileOf[k]] # NoFile
      /\ \A k \in Keys : s.stores[FileOf[k]] = NoFile <=> stores[FileOf[k]] = NoFile
      /\ \A k \in Keys : stores[FileOf[k]] # NoFile =>
           s.stores[FileOf[k]][k] = IF k \in moved THEN table[k]
                                    ELSE stores[FileOf[k]][k]
  BY <1>2, KeyValueAssumption DEF Outcome
<1>7. Working(c)'
  <2>1. s.pc = "load" => s.key \in Keys /\ s.key \notin s.ks
                         /\ s.stores[FileOf[s.key]] = NoFile
    BY <1>5, <1>6
  <2> QED BY <1>3, <1>5, <2>1 DEF Working
<1>8. ASSUME NEW k \in Keys, table'[k] = None, table[k] # None
      PROVE  InHand(k)'
  <2>1. Out(k) /\ table[k] = latest[k]
    BY <1>1, <1>4, <1>8 DEF TableIsLatest
  <2>2. CASE k \in moved
    <3>1. ~(s.pc = "load" /\ s.key = k) /\ k \notin s.ks
      BY <1>5, <2>2
    <3>2. s.stores[FileOf[k]] # NoFile /\ s.stores[FileOf[k]][k] = latest[k]
      BY <1>6, <2>1, <2>2
    <3> QED BY <1>3, <1>5, <3>1, <3>2 DEF InHand, Carries, Carried
  <2>3. CASE s.pc = "load" /\ k = s.key
    <3>1. s.val = latest[k] /\ k \notin s.ks
      BY <1>5, <2>1, <2>3
    <3> QED BY <1>3, <2>3, <3>1 DEF InHand, Carries, Carried
  <2> QED BY <2>1, <2>2, <2>3
<1>9. ASSUME NEW k \in Keys \ ks, stores[FileOf[k]] # NoFile,
             stores[FileOf[k]][k] = latest[k]
      PROVE  InHand(k)'
  <2>1. s.stores[FileOf[k]] # NoFile /\ s.stores[FileOf[k]][k] = latest[k]
    BY <1>6, <1>9
  <2>2. ~(s.pc = "load" /\ s.key = k) /\ k \notin s.ks
    BY <1>5, <1>9
  <2> QED BY <1>3, <1>5, <2>1, <2>2 DEF InHand, Carries, Carried
<1>10. ASSUME NEW k \in Keys, NEW d \in Passes \ {c}, Carries(d, k),
              Carried(d, k) = latest[k], k \notin cull[d].ks
       PROVE  InHand(k)'
  BY <1>3, <1>10 DEF InHand, Carries, Carried
<1>11. ASSUME NEW k \in Keys \ ks, stores[FileOf[k]] = NoFile, OnDisk(k)' = latest[k],
              \A d \in Passes \ {c} : ~CullHolds(d, k),
              \A r \in Rs : RemHolds(r, k) => rem[r].map[k] = latest[k],
              \A g \in Getters : ~GetHolds(g, k)
       PROVE  InFile(k)'
  <2>1. ~CullHolds(c, k)'
    <3>1. s.stores[FileOf[k]] = NoFile
      BY <1>6, <1>11
    <3>2. k \notin s.ks /\ ~(s.pc = "load" /\ s.key = k)
      BY <1>5, <1>11
    <3> QED BY <1>3, <1>5, <3>1, <3>2 DEF CullHolds, Carries
  <2>2. \A d \in Passes \ {c} : ~CullHolds(d, k)'
    BY <1>3, <1>11 DEF CullHolds, Carries
  <2>3. \A r \in Rs : RemHolds(r, k)' => rem'[r].map[k] = latest'[k]
    BY <1>11 DEF RemHolds
  <2>4. \A g \in Getters : ~GetHolds(g, k)'
    BY <1>11 DEF GetHolds
  <2> QED BY <1>11, <2>1, <2>2, <2>3, <2>4 DEF InFile
<1> QED BY <1>3, <1>7, <1>8, <1>9, <1>10, <1>11

(* What remains to be shown of a step of a cull.                           *)
LEMMA CullFrame ==
  ASSUME BaseInv, KeptInv, NEW c \in Passes,
         MemCheck(c) \/ Culling(c) \/ (ShutdownStores /\ c = Stopper),
         \A d \in Passes \ {c} : cull'[d] = cull[d],
         Working(c)',
         c = Stopper => run' = "storing",
         \A k \in Keys : Sure(k) /\ Sure(k)' /\ table'[k] = None
                            => (InHand(k) \/ InFile(k))'
  PROVE  KeptInv'
<1>1. /\ latest' = latest /\ toRemove' = toRemove /\ rem' = rem /\ unsure \subseteq unsure'
      /\ run' = run \/ (run = "stopping" /\ run' = "storing" /\ c = Stopper)
  BY DEF MemCheck, Culling, CullLoads, CullCreates, CullWrites, ShutdownStores
<1>2. \A k \in Keys : Sure(k)' => Sure(k)
  BY <1>1, SureBefore
<1>3. \A k \in Keys : Sure(k)' => Spared(k)'
  BY <1>1, <1>2 DEF KeptInv, Spared, Planned
<1>4. (\A d \in Passes : Working(d))'
  <2>1. \A d \in Passes \ {c} : Working(d)'
    BY DEF KeptInv, Working
  <2> QED BY <2>1
<1>5. cull'[Stopper].pc # "idle" => run' = "storing"
  <2>1. CASE c = Stopper
    BY <2>1
  <2>2. CASE c # Stopper
    <3>1. cull'[Stopper] = cull[Stopper] /\ run' = run
      BY <1>1, <2>2 DEF Passes
    <3> QED BY <3>1 DEF KeptInv
  <2> QED BY <2>1, <2>2
<1> QED BY <1>2, <1>3, <1>4, <1>5 DEF KeptInv

(* A cull begins with what is in the table. *)
LEMMA CullBegins ==
  ASSUME BaseInv, KeptInv, NEW c \in Passes,
         (c \in Cullers /\ MemCheck(c)) \/ (ShutdownStores /\ c = Stopper)
  PROVE  KeptInv'
<1>1. /\ cull[c] = NoCull /\ ~Ended
      /\ UNCHANGED <<disk, latest, rem, getter>>
      /\ c = Stopper => run' = "storing"
  <2>1. CASE c \in Cullers /\ MemCheck(c)
    BY <2>1, KeyValueAssumption DEF MemCheck, BaseInv, Keyed, Passes, Ended
  <2>2. CASE ShutdownStores /\ c = Stopper
    <3>1. run = "stopping" /\ run' = "storing" /\ UNCHANGED <<disk, latest, rem, getter>>
      BY <2>2 DEF ShutdownStores
    <3>2. cull[Stopper].pc = "idle"
      BY <3>1 DEF KeptInv
    <3> QED BY <2>2, <3>1, <3>2 DEF BaseInv, Keyed, Passes, Ended
  <2> QED BY <2>1, <2>2
<1>2. PICK left \in Nat : CullLoop(c, NoStores, InTable, left)
  <2>1. CASE MemCheck(c)
    BY <2>1, KeyValueAssumption DEF MemCheck
  <2>2. CASE ShutdownStores /\ c = Stopper
    <3>1. InTable \in SUBSET Keys
      BY DEF InTable
    <3> QED BY <2>2, <3>1, KeysAreFinite DEF ShutdownStores
  <2> QED BY <2>1, <2>2
<1>3. /\ InTable \in SUBSET Keys /\ NoStores \in Stores
      /\ \A k \in Keys : NoStores[FileOf[k]] = NoFile
  BY IdleTypes, KeyValueAssumption DEF InTable
<1>4. ASSUME NEW k \in Keys, Sure(k), table'[k] = None
      PROVE  (InHand(k) \/ InFile(k))'
  <2>1. CASE table[k] # None
    BY <1>1, <1>2, <1>3, <1>4, <2>1, LoopKept
  <2>2. CASE table[k] = None
    <3>1. k \notin InTable /\ (InHand(k) \/ InFile(k))
      BY <1>1, <1>4, <2>2 DEF InTable, KeptInv
    <3>2. CASE InHand(k)
      <4>1. ~Carries(c, k)
        BY <1>1, IdleHoldsNothing
      <4> QED BY <1>1, <1>2, <1>3, <3>2, <4>1, LoopKept DEF InHand
    <3>3. CASE InFile(k)
      <4>1. OnDisk(k)' = latest[k]
        BY <1>1, <3>3 DEF InFile, OnDisk
      <4>2. /\ \A d \in Passes \ {c} : ~CullHolds(d, k)
            /\ \A r \in Rs : RemHolds(r, k) => rem[r].map[k] = latest[k]
            /\ \A g \in Getters : ~GetHolds(g, k)
        BY <3>3 DEF InFile
      <4> QED BY <1>1, <1>2, <1>3, <3>1, <4>1, <4>2, LoopKept
    <3> QED BY <3>1, <3>2, <3>3
  <2> QED BY <2>1, <2>2
<1>5. Working(c)' /\ \A d \in Passes \ {c} : cull'[d] = cull[d]
  BY <1>1, <1>2, <1>3, LoopKept
<1> QED BY <1>1, <1>4, <1>5, CullFrame

(* The file the cull waited for is loaded, or created empty: what is in it *)
(* is in hand now.                                                         *)
LEMMA CullGoesOn ==
  ASSUME BaseInv, KeptInv, NEW c \in Passes, CullLoads(c) \/ CullCreates(c)
  PROVE  KeptInv'
<1> DEFINE k0 == cull[c].key
           f0 == FileOf[k0]
           s0 == cull[c].stores
<1>0. /\ cull[c].pc \in {"load", "create"} /\ k0 \in Keys /\ f0 \in Files
      /\ cull[c] \in CullRecs /\ disk \in Stores /\ cull \in [Passes -> CullRecs]
      /\ \A k \in Keys : FileOf[k] \in Files
  BY Types, KeyValueAssumption DEF BaseInv, Keyed, CullLoads, CullCreates
<1>1. UNCHANGED <<latest, rem, getter, run, unsure>> /\ ~Ended
  <2>1. UNCHANGED <<latest, rem, getter, run, unsure>>
    BY DEF CullLoads, CullCreates
  <2>2. ~Ended
    BY <1>0, IdleTypes DEF BaseInv, Stopped
  <2> QED BY <2>1, <2>2
<1>2. k0 \notin cull[c].ks /\ s0[f0] = NoFile
  BY <1>0 DEF KeptInv, Working
<1>3. Culling(c) /\ (c = Stopper => run' = "storing")
  <2>1. c = Stopper => run = "storing"
    BY <1>0 DEF KeptInv
  <2> QED BY <1>1, <2>1 DEF Culling
<1>4. CASE CullLoads(c) /\ disk[f0] = NoFile
  <2>1. cull' = [cull EXCEPT ![c].pc = "create"] /\ table' = table /\ disk' = disk
        /\ cull[c].pc = "load"
    <3>1. ~CullHas(c, disk[f0]) \/ cull' = [cull EXCEPT ![c].pc = "create"]
      BY <1>4 DEF CullLoads
    <3> QED BY <1>4, <3>1 DEF CullLoads
  <2>2. /\ cull'[c].pc = "create" /\ cull'[c].key = k0 /\ cull'[c].ks = cull[c].ks
        /\ cull'[c].stores = s0 /\ cull'[c].val = cull[c].val
        /\ \A d \in Passes \ {c} : cull'[d] = cull[d]
    BY <1>0, <2>1 DEF CullRecs
  <2>3. Working(c)'
    BY <1>2, <2>2 DEF Working
  <2>4. ASSUME NEW k \in Keys, Sure(k), table'[k] = None
        PROVE  (InHand(k) \/ InFile(k))'
    <3>1. InHand(k) \/ InFile(k)
      BY <1>1, <2>1, <2>4 DEF KeptInv
    <3>2. CASE InHand(k)
      <4>1. PICK d \in Passes : /\ Carries(d, k) /\ Carried(d, k) = latest[k]
                                /\ k \notin cull[d].ks
        BY <3>2 DEF InHand
      <4>2. CASE d = c
        BY <1>1, <2>1, <2>2, <4>1, <4>2 DEF InHand, Carries, Carried
      <4>3. CASE d # c
        <5>1. cull'[d] = cull[d]
          BY <2>2, <4>3
        <5> QED BY <1>1, <4>1, <5>1 DEF InHand, Carries, Carried
      <4> QED BY <4>2, <4>3
    <3>3. CASE InFile(k)
      <4>1. FileOf[k] # f0
        BY <1>4, <2>4, <3>3 DEF InFile, OnDisk, Sure
      <4>2. ~CullHolds(c, k)'
        BY <2>1, <2>2, <3>3, <4>1 DEF InFile, CullHolds, Carries
      <4>3. \A d \in Passes \ {c} : ~CullHolds(d, k)'
        BY <2>2, <3>3 DEF InFile, CullHolds, Carries
      <4> QED BY <1>1, <2>1, <3>3, <4>2, <4>3 DEF InFile, OnDisk, RemHolds, GetHolds
    <3> QED BY <3>1, <3>2, <3>3
  <2> QED BY <1>3, <2>2, <2>3, <2>4, CullFrame
<1>5. ASSUME NEW map \in Map, CullHas(c, map), map # NoFile,
             \/ disk' = disk /\ disk[f0] = map /\ cull[c].pc = "load"
             \/ cull[c].pc = "create" /\ disk' = [disk EXCEPT ![f0] = Empty]
      PROVE  KeptInv'
  <2> DEFINE new == [map EXCEPT ![k0] = cull[c].val]
             stores == [s0 EXCEPT ![f0] = new]
  <2>1. /\ stores \in Stores /\ cull[c].ks \in SUBSET Keys /\ cull[c].left \in Nat
        /\ CullLoop(c, stores, cull[c].ks, cull[c].left)
    BY <1>0, <1>5, CullHasIs
  <2>2. /\ new[k0] = cull[c].val /\ \A k \in Keys \ {k0} : new[k] = map[k]
        /\ new \in Map
    BY <1>0, <1>5 DEF Map, CullRecs
  <2>3. new # NoFile
    BY <2>2, KeyValueAssumption DEF Map
  <2>4. /\ stores[f0] = new
        /\ \A f \in Files \ {f0} : stores[f] = s0[f]
    BY <1>0 DEF CullRecs, Stores
  <2> HIDE DEF new, stores
  <2>5. Working(c)' /\ \A d \in Passes \ {c} : cull'[d] = cull[d]
    BY <1>1, <2>1, LoopKept
  <2>6. ASSUME NEW k \in Keys, Sure(k), table'[k] = None
        PROVE  (InHand(k) \/ InFile(k))'
    <3>1. CASE table[k] # None
      BY <1>1, <2>1, <2>6, <3>1, LoopKept
    <3>2. CASE table[k] = None /\ InHand(k)
      <4>1. PICK d \in Passes : /\ Carries(d, k) /\ Carried(d, k) = latest[k]
                                /\ k \notin cull[d].ks
        BY <3>2 DEF InHand
      <4>2. CASE d # c
        BY <1>1, <2>1, <4>1, <4>2, LoopKept
      <4>3. CASE d = c
        <5>1. stores[FileOf[k]] # NoFile /\ stores[FileOf[k]][k] = latest[k]
          <6>1. CASE k = k0
            BY <1>0, <2>2, <2>3, <2>4, <4>1, <4>3, <6>1 DEF Carried
          <6>2. CASE k # k0
            <7>1. s0[FileOf[k]] # NoFile /\ s0[FileOf[k]][k] = latest[k]
              BY <4>1, <4>3, <6>2 DEF Carries, Carried
            <7> QED BY <1>0, <1>2, <2>4, <7>1
          <6> QED BY <6>1, <6>2
        <5> QED BY <1>1, <2>1, <4>1, <4>3, <5>1, LoopKept
      <4> QED BY <4>2, <4>3
    <3>3. CASE table[k] = None /\ InFile(k)
      <4>1. /\ OnDisk(k) = latest[k] /\ latest[k] # None
            /\ ~CullHolds(c, k) /\ k \notin cull[c].ks /\ k # k0
            /\ s0[FileOf[k]] = NoFile
            /\ cull[c].pc = "create" => FileOf[k] # f0
        BY <1>0, <2>6, <3>3 DEF InFile, CullHolds, Carries, Sure
      <4>2. CASE FileOf[k] = f0
        <5>1. disk[f0] = map
          BY <1>5, <4>1, <4>2
        <5>2. stores[FileOf[k]] # NoFile /\ stores[FileOf[k]][k] = latest[k]
          BY <1>5, <2>2, <2>3, <2>4, <4>1, <4>2, <5>1 DEF OnDisk
        <5> QED BY <1>1, <2>1, <4>1, <5>2, LoopKept
      <4>3. CASE FileOf[k] # f0
        <5>1. stores[FileOf[k]] = NoFile
          BY <1>0, <2>4, <4>1, <4>3
        <5>2. OnDisk(k)' = latest[k]
          <6>1. disk'[FileOf[k]] = disk[FileOf[k]]
            BY <1>0, <1>5, <4>3 DEF Stores
          <6> QED BY <4>1, <6>1 DEF OnDisk
        <5>3. /\ \A d \in Passes \ {c} : ~CullHolds(d, k)
              /\ \A r \in Rs : RemHolds(r, k) => rem[r].map[k] = latest[k]
              /\ \A g \in Getters : ~GetHolds(g, k)
          BY <3>3 DEF InFile
        <5> QED BY <1>1, <2>1, <4>1, <5>1, <5>2, <5>3, LoopKept
      <4> QED BY <4>2, <4>3
    <3> QED BY <1>1, <2>6, <3>1, <3>2, <3>3 DEF KeptInv
  <2> QED BY <1>3, <2>5, <2>6, CullFrame
<1>6. CASE CullLoads(c) /\ disk[f0] # NoFile
  <2>1. disk[f0] \in Map /\ disk' = disk /\ cull[c].pc = "load" /\ CullHas(c, disk[f0])
    BY <1>0, <1>6 DEF CullLoads, Stores
  <2> QED BY <1>5, <1>6, <2>1
<1>7. CASE CullCreates(c)
  <2>1. cull[c].pc = "create" /\ CullHas(c, Empty) /\ disk' = [disk EXCEPT ![f0] = Empty]
    BY <1>7 DEF CullCreates
  <2>2. Empty \in Map /\ Empty # NoFile
    BY IdleTypes, KeyValueAssumption DEF Map
  <2> QED BY <1>5, <2>1, <2>2
<1> QED BY <1>4, <1>6, <1>7

(* What a cull wrote is in the file, and nobody who has read the file      *)
(* before is left, or the value is not sure.                               *)
LEMMA CullWritesKept ==
  ASSUME BaseInv, KeptInv, NEW c \in Passes, CullWrites(c)
  PROVE  KeptInv'
<1>0. /\ cull[c] \in CullRecs /\ disk \in Stores /\ cull \in [Passes -> CullRecs]
      /\ DOMAIN cull = Passes /\ DOMAIN rem = Rs
      /\ \A k \in Keys : FileOf[k] \in Files
      /\ cull[c].pc = "write"
  BY Types, Domains, KeyValueAssumption DEF BaseInv, CullWrites
<1>1. PICK f \in Files :
        /\ cull[c].stores[f] # NoFile
        /\ disk' = [disk EXCEPT ![f] = cull[c].stores[f]]
        /\ unsure' = unsure \cup Disputed(f, c)
        /\ cull' = [cull EXCEPT ![c].stores = [cull[c].stores EXCEPT ![f] = NoFile],
                                ![c].pc = IF [cull[c].stores EXCEPT ![f] = NoFile]
                                               = NoStores THEN "idle" ELSE "write"]
  BY DEF CullWrites
<1>2. UNCHANGED <<table, latest, rem, getter, run>> /\ ~Ended
  <2>1. ~Ended
    BY <1>0, IdleTypes DEF BaseInv, Stopped
  <2> QED BY <2>1 DEF CullWrites
<1>3. /\ \A d \in Passes \ {c} : cull'[d] = cull[d]
      /\ cull'[c].pc \in {"idle", "write"}
      /\ cull'[c].stores = [cull[c].stores EXCEPT ![f] = NoFile]
      /\ cull'[c].ks = {}
  <2>1. /\ \A d \in Passes \ {c} : cull'[d] = cull[d]
        /\ cull'[c].pc \in {"idle", "write"}
        /\ cull'[c].stores = [cull[c].stores EXCEPT ![f] = NoFile]
        /\ cull'[c].pc = "write" => WriteOnly(cull'[c])
        /\ cull'[c].pc = "idle" => cull'[c] = NoCull
    BY <1>0, <1>1, CullWritesIs
  <2> QED BY <2>1 DEF WriteOnly, NoCull
<1>4. /\ \A g \in Files : cull'[c].stores[g] = IF g = f THEN NoFile ELSE cull[c].stores[g]
      /\ \A g \in Files : disk'[g] = IF g = f THEN cull[c].stores[f] ELSE disk[g]
  BY <1>0, <1>1, <1>3 DEF CullRecs, Stores
<1>5. ASSUME NEW k \in Keys, Sure(k), Sure(k)', table'[k] = None
      PROVE  (InHand(k) \/ InFile(k))'
  <2>1. table[k] = None /\ (InHand(k) \/ InFile(k))
    BY <1>2, <1>5 DEF KeptInv
  <2>2. CASE \E d \in Passes \ {c} : /\ Carries(d, k) /\ Carried(d, k) = latest[k]
                                     /\ k \notin cull[d].ks
    BY <1>2, <1>3, <2>2 DEF InHand, Carries, Carried
  <2>3. CASE Carries(c, k) /\ Carried(c, k) = latest[k] /\ FileOf[k] # f
    <3>1. /\ cull'[c].stores[FileOf[k]] = cull[c].stores[FileOf[k]]
          /\ cull[c].stores[FileOf[k]] # NoFile
          /\ cull[c].stores[FileOf[k]][k] = latest[k]
      BY <1>0, <1>4, <2>3 DEF Carries, Carried
    <3> QED BY <1>2, <1>3, <3>1 DEF InHand, Carries, Carried
  <2>4. CASE Carries(c, k) /\ Carried(c, k) = latest[k] /\ FileOf[k] = f
    <3>1. OnDisk(k)' = latest'[k]
      BY <1>0, <1>1, <1>2, <1>4, <2>4 DEF Carried, OnDisk
    <3>2. /\ \A d \in Passes \ {c} : ~CullHolds(d, k)
          /\ \A r \in Rs : ~RemHolds(r, k)
          /\ \A g \in Getters : ~GetHolds(g, k)
      BY <1>0, <1>1, <1>5, <2>1, <2>4 DEF Disputed, Sure
    <3>3. ~CullHolds(c, k)'
      BY <1>0, <1>3, <1>4, <2>4 DEF CullHolds, Carries
    <3>4. \A d \in Passes \ {c} : ~CullHolds(d, k)'
      BY <1>3, <3>2 DEF CullHolds, Carries
    <3>5. /\ \A r \in Rs : ~RemHolds(r, k)'
          /\ \A g \in Getters : ~GetHolds(g, k)'
      BY <1>2, <3>2 DEF RemHolds, GetHolds
    <3> QED BY <3>1, <3>3, <3>4, <3>5 DEF InFile
  <2>5. CASE InFile(k)
    <3>1. cull[c].stores[FileOf[k]] = NoFile
      BY <2>5 DEF InFile, CullHolds, Carries
    <3>2. FileOf[k] # f
      BY <1>1, <3>1
    <3>3. OnDisk(k)' = OnDisk(k)
      BY <1>0, <1>4, <3>2 DEF OnDisk
    <3>4. ~CullHolds(c, k)'
      BY <1>0, <1>3, <1>4, <3>1 DEF CullHolds, Carries
    <3>5. \A d \in Passes \ {c} : ~CullHolds(d, k)'
      BY <1>3, <2>5 DEF InFile, CullHolds, Carries
    <3>6. /\ \A r \in Rs : RemHolds(r, k)' => rem'[r].map[k] = latest'[k]
          /\ \A g \in Getters : ~GetHolds(g, k)'
      BY <1>2, <2>5 DEF InFile, RemHolds, GetHolds
    <3> QED BY <1>2, <2>5, <3>3, <3>4, <3>5, <3>6 DEF InFile
  <2> QED BY <2>1, <2>2, <2>3, <2>4, <2>5 DEF InHand
<1>6. Working(c)' /\ Culling(c)
  BY <1>3 DEF Working, Culling
<1>7. c = Stopper => run' = "storing"
  BY <1>0, <1>2 DEF KeptInv
<1> QED BY <1>3, <1>5, <1>6, <1>7, CullFrame

(* A removal has every other value of the file it loaded.                  *)
LEMMA RemovalKept ==
  ASSUME BaseInv, KeptInv, NEW r \in Rs,
         RemovalTimer(r) \/ Removing(r) \/ (Shutdown /\ r = Stopper)
  PROVE  KeptInv'
<1> DEFINE f0 == FileOf[rem[r].key]
<1>0. /\ rem \in [Rs -> RemRecs] /\ disk \in Stores /\ Keyed
      /\ \A k \in Keys : FileOf[k] \in Files
  BY Types, KeyValueAssumption DEF BaseInv, Rs
<1>1. /\ UNCHANGED <<table, latest, cull, getter, unsure>> /\ ~Ended
      /\ run' = run \/ (Shutdown /\ run = "up" /\ run' = "stopping")
  <2>1. CASE RemovalTimer(r)
    BY <2>1 DEF RemovalTimer, Ended
  <2>2. CASE Removing(r)
    BY <2>2, IdleTypes DEF Removing, RemovalLoads, RemovalWrites, BaseInv, Stopped, Rs
  <2>3. CASE Shutdown
    BY <2>3 DEF Shutdown, Ended
  <2> QED BY <2>1, <2>2, <2>3
<1>2. cull'[Stopper].pc # "idle" => run' = "storing"
  BY <1>1 DEF KeptInv
(* What the removals and the files must keep. *)
<1>3. ASSUME /\ \A q \in Rs \ {r} : rem'[q] = rem[q]
             /\ \A k \in Keys : Planned(k)' => Planned(k)
             /\ \A k \in Keys : Sure(k) => rem'[r].key # k
             /\ \A k \in Keys : InFile(k) /\ Sure(k) /\ table[k] = None =>
                   /\ OnDisk(k)' = OnDisk(k)
                   /\ RemHolds(r, k)' => rem'[r].map[k] = latest[k]
      PROVE  KeptInv'
  <2>1. ASSUME NEW k \in Keys, Sure(k)' PROVE Spared(k)'
    <3>1. Sure(k) /\ Spared(k)
      BY <1>1, <2>1 DEF Sure, KeptInv
    <3> QED BY <1>3, <3>1 DEF Spared
  <2>2. ASSUME NEW k \in Keys, Sure(k)', table'[k] = None PROVE (InHand(k) \/ InFile(k))'
    <3>1. Sure(k) /\ table[k] = None /\ latest'[k] = latest[k]
          /\ (InHand(k) \/ InFile(k))
      BY <1>1, <2>2 DEF Sure, KeptInv
    <3>2. CASE InHand(k)
      BY <1>1, <3>2 DEF InHand, Carries, Carried
    <3>3. CASE InFile(k)
      <4>1. \A q \in Rs : RemHolds(q, k)' => rem'[q].map[k] = latest[k]
        BY <1>3, <3>1, <3>3 DEF InFile, RemHolds
      <4>2. \A c \in Passes : ~CullHolds(c, k)'
        BY <1>1, <3>3 DEF InFile, CullHolds, Carries
      <4>3. \A g \in Getters : ~GetHolds(g, k)'
        BY <1>1, <3>3 DEF InFile, GetHolds
      <4> QED BY <1>3, <3>1, <3>3, <4>1, <4>2, <4>3 DEF InFile
    <3> QED BY <3>1, <3>2, <3>3
  <2>3. (\A c \in Passes : Working(c))'
    BY <1>1 DEF KeptInv, Working
  <2> QED BY <1>2, <2>1, <2>2, <2>3 DEF KeptInv
(* The loop of the removal takes a key that is planned. *)
<1>4. ASSUME NextRemoval(r)
      PROVE  /\ \A q \in Rs \ {r} : rem'[q] = rem[q]
             /\ \A k \in Keys : Planned(k)' => Planned(k)
             /\ \A k \in Keys : Sure(k) => rem'[r].key # k
             /\ \A k \in Keys : ~RemHolds(r, k)'
  <2>1. /\ \A q \in Rs \ {r} : rem'[q] = rem[q]
        /\ \A k \in Keys : Planned(k)' => Planned(k)
        /\ \/ rem'[r].pc = "idle" /\ rem'[r] = NoRem
           \/ rem'[r].pc = "load" /\ rem'[r].key \in Keys /\ Planned(rem'[r].key)
    BY <1>4, NextRemovalIs DEF Rs
  <2>2. \A k \in Keys : NoRem.key # k
    BY KeyValueAssumption DEF NoRem
  <2> QED BY <2>1, <2>2 DEF KeptInv, Spared, RemHolds
<1>5. ASSUME NextRemoval(r), disk' = disk PROVE KeptInv'
  <2>1. \A k \in Keys : OnDisk(k)' = OnDisk(k)
    BY <1>5 DEF OnDisk
  <2> QED BY <1>3, <1>4, <1>5, <2>1
<1>6. CASE RemovalTimer(r)
  BY <1>5, <1>6 DEF RemovalTimer
<1>7. CASE Shutdown /\ r = Stopper
  <2>1. disk' = disk /\ (NextRemoval(r) \/ (rem' = rem /\ toRemove' = toRemove))
    BY <1>7 DEF Shutdown
  <2>2. CASE rem' = rem /\ toRemove' = toRemove
    BY <1>3, <2>1, <2>2 DEF KeptInv, Spared, Planned, InFile, OnDisk, RemHolds
  <2> QED BY <1>5, <2>1, <2>2
<1>8. CASE RemovalLoads(r)
  <2> DEFINE k0 == rem[r].key
             map == disk[f0]
  <2>1. k0 \in Keys /\ disk' = disk /\ rem[r].pc = "load"
    BY <1>0, <1>8 DEF RemovalLoads, Keyed, Rs
  <2>2. CASE NextRemoval(r)
    BY <1>5, <2>1, <2>2
  <2>3. CASE /\ map # NoFile /\ map[k0] # None
             /\ rem' = [rem EXCEPT ![r].pc = "write", ![r].map = [map EXCEPT ![k0] = None]]
             /\ toRemove' = toRemove
    <3> DEFINE new == [map EXCEPT ![k0] = None]
    <3>1. map \in Map
      BY <1>0, <2>1, <2>3 DEF Stores
    <3>2. \A k \in Keys : k # k0 => new[k] = map[k]
      BY <3>1 DEF Map
    <3>3. rem' = [rem EXCEPT ![r].pc = "write", ![r].map = new]
      BY <2>3
    <3> HIDE DEF new
    <3>4. /\ rem'[r].pc = "write" /\ rem'[r].key = k0 /\ rem'[r].map = new
          /\ \A q \in Rs \ {r} : rem'[q] = rem[q]
      BY <1>0, <3>3 DEF RemRecs
    <3>5. \A k \in Keys : Sure(k) => k0 # k
      BY DEF KeptInv, Spared
    <3>6. ASSUME NEW k \in Keys, InFile(k), Sure(k), FileOf[k] = f0
          PROVE  new[k] = latest[k]
      BY <2>1, <2>3, <3>2, <3>5, <3>6 DEF InFile, OnDisk
    <3>7. /\ \A k \in Keys : OnDisk(k)' = OnDisk(k)
          /\ \A k \in Keys : Planned(k)' => Planned(k)
      BY <2>1, <2>3 DEF OnDisk, Planned
    <3>8. \A k \in Keys : RemHolds(r, k)' => FileOf[k] = f0
      BY <3>4 DEF RemHolds
    <3> QED BY <1>3, <3>4, <3>5, <3>6, <3>7, <3>8
  <2> QED BY <1>8, <2>2, <2>3 DEF RemovalLoads
<1>9. CASE RemovalWrites(r)
  <2>1. /\ rem[r].pc = "write" /\ NextRemoval(r) /\ rem[r].key \in Keys
        /\ disk' = [disk EXCEPT ![f0] = rem[r].map]
    BY <1>0, <1>9 DEF RemovalWrites, Keyed, Rs
  <2>2. /\ rem[r].map # NoFile
        /\ \A f \in Files : disk'[f] = IF f = f0 THEN rem[r].map ELSE disk[f]
    <3>1. rem[r].map \in Map
      BY <1>0 DEF RemRecs
    <3> QED BY <1>0, <2>1, <3>1, KeyValueAssumption DEF Stores, Map
  <2>3. ASSUME NEW k \in Keys, InFile(k) PROVE OnDisk(k)' = OnDisk(k)
    <3>1. CASE FileOf[k] = f0
      <4>1. rem[r].map[k] = latest[k] /\ OnDisk(k) = latest[k]
        BY <2>1, <2>3, <3>1 DEF InFile, RemHolds
      <4> QED BY <1>0, <2>2, <3>1, <4>1 DEF OnDisk
    <3>2. CASE FileOf[k] # f0
      BY <1>0, <2>2, <3>2 DEF OnDisk
    <3> QED BY <3>1, <3>2
  <2> QED BY <1>3, <1>4, <2>1, <2>3
<1> QED BY <1>6, <1>7, <1>8, <1>9 DEF Removing

(* The process ends or starts, or nothing happens. *)
LEMMA ProcessKept ==
  ASSUME BaseInv, KeptInv, Sigint \/ Crash \/ Start \/ UNCHANGED vars
  PROVE  KeptInv'
<1>1. CASE Sigint \/ Crash \/ Start
  <2>1. /\ toRemove' = <<>> /\ \A c \in Passes : cull'[c] = NoCull
        /\ \A r \in Rs : rem'[r] = NoRem
        /\ \A g \in Getters : getter'[g] = NoGet
        /\ disk' = disk
        /\ Ended' \/ latest' = [k \in Keys |-> OnDisk(k)]
    <3>1. CASE Sigint \/ Crash
      BY <3>1 DEF Sigint, Crash, Ends, Counted, Passes, Rs, Ended
    <3>2. CASE Start
      BY <3>2 DEF Start, BaseInv, Stopped, Ended, Rs
    <3> QED BY <1>1, <3>1, <3>2
  <2>2. \A k \in Keys : Spared(k)'
    <3>1. \A k \in Keys : NoRem.key # k
      BY KeyValueAssumption DEF NoRem
    <3> QED BY <2>1, <3>1 DEF Spared, Planned
  <2>3. /\ NoCull.pc = "idle" /\ NoCull.ks = {} /\ NoRem.pc = "idle" /\ NoGet.pc = "idle"
        /\ \A k \in Keys : NoCull.stores[FileOf[k]] = NoFile
    BY IdleTypes, KeyValueAssumption DEF NoCull
  <2>4. ASSUME ~Ended', NEW k \in Keys PROVE InFile(k)'
    <3>1. OnDisk(k)' = latest'[k]
      BY <2>1, <2>4 DEF OnDisk
    <3>2. \A c \in Passes : ~CullHolds(c, k)'
      BY <2>1, <2>3 DEF CullHolds, Carries
    <3>3. (\A r \in Rs : ~RemHolds(r, k)) ' /\ (\A g \in Getters : ~GetHolds(g, k))'
      BY <2>1, <2>3 DEF RemHolds, GetHolds
    <3> QED BY <3>1, <3>2, <3>3 DEF InFile
  <2>5. (\A c \in Passes : Working(c))' /\ cull'[Stopper].pc = "idle"
    BY <2>1, <2>3 DEF Working, Passes
  <2> QED BY <2>2, <2>4, <2>5 DEF KeptInv
<1>2. CASE UNCHANGED vars
  <2>1. \A k \in Keys : (Sure(k)' <=> Sure(k)) /\ (Spared(k)' <=> Spared(k))
    BY <1>2 DEF vars, Sure, Spared, Planned
  <2>2. \A k \in Keys : (InHand(k)' <=> InHand(k)) /\ (InFile(k)' <=> InFile(k))
    BY <1>2 DEF vars, InHand, InFile, OnDisk, Carries, Carried, CullHolds, RemHolds,
                GetHolds
  <2>3. /\ (Ended' <=> Ended) /\ table' = table /\ cull' = cull /\ run' = run
        /\ \A c \in Passes : Working(c)' <=> Working(c)
    BY <1>2 DEF vars, Ended, Working
  <2> QED BY <2>1, <2>2, <2>3 DEF KeptInv
<1> QED BY <1>1, <1>2

(* Every step keeps what was evicted. *)
LEMMA NextKept == BaseInv /\ KeptInv /\ [Next]_vars => KeptInv'
<1> SUFFICES ASSUME BaseInv, KeptInv, [Next]_vars PROVE KeptInv'
  OBVIOUS
<1>1. CASE \/ \E k \in Keys, v \in Vals : Set(k, v)
           \/ \E k \in Keys : Delete(k)
  BY <1>1, TableKept
<1>2. CASE \E g \in Getters : (\E k \in Keys : Get(g, k)) \/ Getting(g)
  BY <1>2, GetKept
<1>3. CASE (\E c \in Cullers : MemCheck(c)) \/ ShutdownStores
  BY <1>3, CullBegins DEF Passes
<1>4. CASE \E c \in Cullers \cup {Stopper} : Culling(c)
  BY <1>4, CullGoesOn, CullWritesKept DEF Passes, Culling
<1>5. CASE \/ \E r \in Removers : RemovalTimer(r)
           \/ \E r \in Removers \cup {Stopper} : Removing(r)
           \/ Shutdown
  BY <1>5, RemovalKept DEF Rs
<1>6. CASE Sigint \/ Crash \/ Start \/ UNCHANGED vars
  BY <1>6, ProcessKept
<1> QED BY <1>1, <1>2, <1>3, <1>4, <1>5, <1>6 DEF Next

(* Eviction is not loss, in any deployment: whatever timers, gets,         *)
(* removals, a shutdown, crashes and restarts interleave, a value that was *)
(* set, not deleted and is no longer in the table is in its file or in the *)
(* maps about to be written to it, unless it was set while its removal was *)
(* still to come, or written while another held its file.                  *)
THEOREM EvictionIsNotLoss == Spec => []EvictedIsKept
<1>1. BaseInv /\ KeptInv => EvictedIsKept
  <2> SUFFICES ASSUME BaseInv, KeptInv, NEW k \in Keys \ unsure, latest[k] # None,
                      table[k] = None, ~Ended
               PROVE  \/ /\ \A c \in DOMAIN cull : ~Carries(c, k)
                         /\ OnDisk(k) = latest[k]
                      \/ \E c \in DOMAIN cull : Carries(c, k) /\ Carried(c, k) = latest[k]
    BY DEF EvictedIsKept, Ended
  <2>1. DOMAIN cull = Passes
    BY Domains
  <2>2. InHand(k) \/ InFile(k)
    BY DEF KeptInv, Sure
  <2> QED BY <2>1, <2>2 DEF InHand, InFile, CullHolds
<1> QED BY <1>1, InitKept, NextKept, BaseInvariant, PTL DEF Spec
=============================================================================
