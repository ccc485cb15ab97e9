----------------------------- MODULE ForeignAuth -----------------------------
(***************************************************************************)
(* foreign_auth.js: the separate service that sends a browser to a         *)
(* provider (passport strategy), takes the provider's callback and tells   *)
(* the waiting user service about the token the login was started with.    *)
(*                                                                         *)
(* Everything is in memory.  A route runs without interruption; the report *)
(* to the user service is a fetch nobody awaits, so its failure is an      *)
(* unhandled rejection, which may end the process.  The provider may call  *)
(* back with any of the addresses of the person who logs in there.         *)
(***************************************************************************)
EXTENDS Integers

CONSTANTS Strategies,     \* strategies in use
          UserKeys,       \* addresses users give at /start
          Tokens,         \* tokens of waiting user service sessions
          AttemptsMax,    \* foreign_attempts_max
          MaxAway,        \* bound: browsers of one user at one provider
          None

VARIABLES attempts,   \* attempts[s][u]: g_current_auth_attempts, None when absent
          away,       \* away[s][u]: browsers sent to the provider for this start
          sent,       \* sent[s][u]: times sent there since u last logged in (history)
          reports     \* tokens whose report is on its way

foreignVars == <<attempts, away, sent, reports>>

Attempt == [token : Tokens, attempt : Nat, logged_in : BOOLEAN]

ASSUME ForeignAssumption ==
    /\ AttemptsMax \in Nat /\ AttemptsMax > 1 /\ MaxAway \in Nat
    /\ None \notin Attempt

Per(v) == [s \in Strategies |-> [u \in UserKeys |-> v]]

ForeignInit ==
    /\ attempts = Per(None)
    /\ away = Per(0)
    /\ sent = Per(0)
    /\ reports = {}

(* Mutant: the attempts are counted from zero. *)
FromZero(t) == [token |-> t, attempt |-> 0, logged_in |-> FALSE]

NewAttempt(t) == [token |-> t, attempt |-> 1, logged_in |-> FALSE]

SentAway(s, u) ==
    /\ away[s][u] < MaxAway
    /\ away' = [away EXCEPT ![s][u] = @ + 1]
    /\ sent' = [sent EXCEPT ![s][u] = @ + 1]

Shown == UNCHANGED <<away, sent>>

(* Mutant: the attempt is compared before it is counted. *)
ComparesFirst(n) == n < AttemptsMax

MayTry(n) == n + 1 < AttemptsMax

(* /start: the first one of a user, under the token it comes with.         *)
StartsFirst(s, u, t) ==
    /\ attempts[s][u] = None
    /\ attempts' = [attempts EXCEPT ![s][u] = NewAttempt(t)]
    /\ SentAway(s, u)
    /\ UNCHANGED reports

(* /start again: counted, and redirected to the provider or to /fail.  The *)
(* token it comes with is not looked at.                                   *)
StartsAgain(s, u) ==
    /\ attempts[s][u] # None
    /\ ~attempts[s][u].logged_in
    /\ attempts[s][u].attempt <= AttemptsMax   \* bound: later failures look alike
    /\ attempts' = [attempts EXCEPT ![s][u].attempt = @ + 1]
    /\ IF MayTry(attempts[s][u].attempt) THEN SentAway(s, u) ELSE Shown
    /\ UNCHANGED reports

(* The addresses of the profile under which somebody started. *)
Started(s, emails) == {u \in emails : attempts[s][u] # None}

Admits(a) == [a EXCEPT !.logged_in = TRUE, !.attempt = 1]

(* auth_successful for a browser that was sent away as u: the first of the *)
(* profile's addresses under which a login was started is logged in, and   *)
(* the report goes out.                                                    *)
CallsBack(s, u, emails) ==
    /\ away[s][u] > 0
    /\ away' = [away EXCEPT ![s][u] = @ - 1]
    /\ \E e \in Started(s, emails) :
          /\ attempts' = [attempts EXCEPT ![s][e] = Admits(@)]
          /\ sent' = [sent EXCEPT ![s][e] = 0]
          /\ reports' = reports \cup {attempts[s][e].token}

(* The profile has no address that started, or the person gave up: no user. *)
ComesToNothing(s, u) ==
    /\ away[s][u] > 0
    /\ away' = [away EXCEPT ![s][u] = @ - 1]
    /\ UNCHANGED <<attempts, sent, reports>>

(* The fetch of auth_successful arrives. *)
Reports(t) ==
    /\ t \in reports
    /\ reports' = reports \ {t}
    /\ UNCHANGED <<attempts, away, sent>>

(* It fails: the rejection is only logged, or it ends the process, which   *)
(* comes back without any memory of the starts.                            *)
ReportFails(t) ==
    /\ t \in reports
    /\ \/ reports' = reports \ {t} /\ UNCHANGED <<attempts, sent>>
       \/ reports' = {} /\ attempts' = Per(None) /\ sent' = Per(0)
    /\ UNCHANGED away

ForeignNext ==
    \/ \E s \in Strategies, u \in UserKeys :
          \/ \E t \in Tokens : StartsFirst(s, u, t)
          \/ StartsAgain(s, u)
          \/ \E emails \in SUBSET UserKeys : CallsBack(s, u, emails)
          \/ ComesToNothing(s, u)
    \/ \E t \in Tokens : Reports(t) \/ ReportFails(t)

ForeignSpec == ForeignInit /\ [][ForeignNext]_foreignVars

-----------------------------------------------------------------------------
(* Properties. *)

(* Every variable has its type. *)
ForeignTypeOK ==
    /\ \A s \in Strategies, u \in UserKeys :
          /\ attempts[s][u] # None =>
                /\ attempts[s][u].token \in Tokens
                /\ attempts[s][u].attempt \in 1 .. AttemptsMax + 1
                /\ attempts[s][u].logged_in \in BOOLEAN
          /\ away[s][u] \in 0 .. MaxAway
          /\ sent[s][u] \in Nat
    /\ reports \subseteq Tokens

(* /start of foreign_auth.js: however starts, callbacks and restarts       *)
(* interleave, a running service sends a user to a provider fewer than     *)
(* foreign_attempts_max times without a login there.                       *)
SentFewerThanMax == \A s \in Strategies, u \in UserKeys : sent[s][u] < AttemptsMax
=============================================================================
