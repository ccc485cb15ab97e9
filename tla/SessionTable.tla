----------------------------- MODULE SessionTable -----------------------------
(***************************************************************************)
(* default_storage/session_table_no_sharing.js: the table of sessions, a   *)
(* Map from key to value and time of the last set, and beside it a list of *)
(* keys in the order they were set, which a timer trims.                   *)
(*                                                                         *)
(* No method awaits anything, so each is one action.  What is stored under *)
(* a key is its time; the value is left out.                               *)
(***************************************************************************)
EXTENDS Integers, SequencesExt

CONSTANTS
    Keys,
    None,
    SessionTime,    \* conf.max_session_stay
    Crowd,          \* conf.crowd_size_allowance
    MinCull,        \* the 5 of timed_cull
    MaxTime,        \* bound on the clock
    MaxLru          \* bound on the length of lru

SessionAssumption ==
    /\ None \notin Nat
    /\ SessionTime \in Nat /\ Crowd \in Nat /\ MinCull \in Nat
    /\ MaxTime \in Nat /\ MaxLru \in Nat

VARIABLES
    table,      \* table[k]: time of k's entry, or None
    lru,
    now,        \* Date.now()
    timer       \* the memcheck interval is set

vars == <<table, lru, now, timer>>

Init ==
    /\ table = [k \in Keys |-> None]
    /\ lru = <<>>
    /\ now = 0
    /\ timer = TRUE

(* Mutants: a key already listed is not listed again; the time is listed. *)
ListedOnce(k) == IF k \in ToSet(lru) THEN lru ELSE Append(lru, k)
ListedTime(k) == Append(lru, now)

Listed(k) == Append(lru, k)

Set(k) ==
    /\ Len(lru) < MaxLru
    /\ table' = [table EXCEPT ![k] = now]
    /\ lru' = Listed(k)
    /\ UNCHANGED <<now, timer>>

(* The first place where the key is listed goes. *)
Unlisted(k) ==
    IF k \in ToSet(lru)
    THEN RemoveAt(lru, CHOOSE i \in DOMAIN lru :
                          lru[i] = k /\ \A j \in 1..(i - 1) : lru[j] # k)
    ELSE lru

Delete(k) ==
    /\ table[k] # None
    /\ table' = [table EXCEPT ![k] = None]
    /\ lru' = Unlisted(k)
    /\ UNCHANGED <<now, timer>>

Expired(k) == table[k] # None /\ now - table[k] > SessionTime

(* How many entries stand before the last expired one; indices start at 1. *)
LastExpired ==
    LET at == {i \in DOMAIN lru : Expired(lru[i])}
    IN IF at = {} THEN 0 ELSE (CHOOSE i \in at : \A j \in at : j <= i) - 1

(* The list loses its head, up to the last expired entry, which stays; not *)
(* more than what exceeds the allowance or MinCull.  The table is not      *)
(* touched.                                                                *)
TimedCull ==
    LET over == Len(lru) - Crowd
        limit == IF over > MinCull THEN over ELSE MinCull
        n == IF LastExpired < limit THEN LastExpired ELSE limit
    IN
    /\ timer
    /\ lru' = SubSeq(lru, n + 1, Len(lru))
    /\ UNCHANGED <<table, now, timer>>

(* The timer stops; then shutdown calls persistence_store_and_cull, which  *)
(* this class does not have, and rejects.                                  *)
Shutdown ==
    /\ timer
    /\ timer' = FALSE
    /\ UNCHANGED <<table, lru, now>>

Tick ==
    /\ now < MaxTime
    /\ now' = now + 1
    /\ UNCHANGED <<table, lru, timer>>

Next ==
    \/ \E k \in Keys : Set(k) \/ Delete(k)
    \/ TimedCull
    \/ Shutdown
    \/ Tick

Spec == Init /\ [][Next]_vars

-----------------------------------------------------------------------------
(* Properties. *)

(* Every variable has its type. *)
TypeOK ==
    /\ table \in [Keys -> (0..now) \cup {None}]
    /\ lru \in Seq(Keys)
    /\ now \in 0..MaxTime
    /\ timer \in BOOLEAN

(* timed_cull walks positions while sets, deletes and repeated sets have   *)
(* left the list with doubles: a session that is still alive never drops   *)
(* out of the list, whatever stands before it.                             *)
LiveStaysListed ==
    \A k \in Keys : table[k] # None /\ ~Expired(k) => k \in ToSet(lru)

(* The order of the list is the order of the last sets: a session listed   *)
(* for the last time before another was not set after it, so trimming the  *)
(* head never meets a session younger than one it leaves.                  *)
LastAt(k, i) == lru[i] = k /\ \A j \in (i + 1)..Len(lru) : lru[j] # k

ListedBySetTime ==
    \A k1, k2 \in Keys : \A i1, i2 \in DOMAIN lru :
        /\ LastAt(k1, i1) /\ LastAt(k2, i2) /\ i1 < i2
        /\ table[k1] # None /\ table[k2] # None
        => table[k1] <= table[k2]
=============================================================================
