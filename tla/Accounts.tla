------------------------------ MODULE Accounts ------------------------------
(***************************************************************************)
(* Registering, and recovering a forgotten password: process_user and      *)
(* update_user_password of lib/general_auth.js with the business class     *)
(* (lib/general_business.js, captcha/lib/captcha_business.js) and the user *)
(* methods of the database class (captcha/lib/captcha_db.js over           *)
(* lib/general_db.js).                                                     *)
(*                                                                         *)
(* One action is one stretch of a handler between two awaits.  User        *)
(* records and their `updates` are objects shared by reference, as the     *)
(* stores return them, so they have identities: that of the request that   *)
(* made them, and for a record from before the start that of its user.     *)
(* The n-th mail of a user carries a number computed from the user and n,  *)
(* so numbers are named by n.  The page of a user is put into the static   *)
(* store by a call that nobody awaits and that settles later than the code *)
(* behind it; and a number is deleted before it is set, to leave none      *)
(* behind, which plans its removal from the files of the key-value store   *)
(* for later (KeyValueDB).  update_user is taken to be the application's,  *)
(* storing the record it is given (README: the default one always          *)
(* rejects); the application finalizes with update_user_password and       *)
(* cleanup as captcha_auth.js does.                                        *)
(***************************************************************************)
EXTENDS Integers

CONSTANTS Users, Reqs, Passwords,
          MaxCount,      \* bound: mails to one user between two resets
          None

AccountAssumption ==
    /\ MaxCount \in Nat
    /\ Reqs \cap Users = {}
    /\ None \notin Reqs \cup Users /\ None \notin Nat
    /\ None \notin [password : Passwords \cup {None}, updates : Reqs \cup {None}]

VARIABLES
    users,     \* users[u]: the record stored for u, by its identity
    record,    \* record[i]: the record with identity i: its password and its updates
    updates,   \* updates[r]: the pass of the updates object made by r
    recent,    \* recent[u]: the count in recently_forgetful, 0 when absent
    page,      \* page[u]: the number in the form kept in the static store
    put,       \* put[r]: the number in the form that r is putting there
    numbers,   \* numbers[u]: tracking numbers that lead to u in the key-value store
    planned,   \* planned[u]: numbers of u whose removal is planned
    shown,     \* shown[u]: numbers that were in a page of u
    spoilt,    \* spoilt[u]: numbers PageNumberIsLive does not speak of (history)
    mail,      \* whether the mail transport was set
    act        \* act[r]: the activation serving request r

accountVars ==
    <<users, record, updates, recent, page, put, numbers, planned, shown, spoilt,
      mail, act>>
stored == <<users, record, updates>>
pages == <<page, put, shown>>
tracking == <<recent, pages, numbers, planned, spoilt>>

Numbers == 1 .. MaxCount
Records == Reqs \cup Users

Activation == [op : {"none", "register", "forgot", "reset"},
               pc : {"idle", "fetch", "hash", "check", "done"},
               user : Users \cup {None}, pass : Passwords \cup {None},
               number : Numbers \cup {None},
               record : Records \cup {None},   \* user, as fetched
               updates : Reqs \cup {None},     \* updates, as read before the check
               answer : {"none", "yes", "no"}]

Idle == [op |-> "none", pc |-> "idle", user |-> None, pass |-> None, number |-> None,
         record |-> None, updates |-> None, answer |-> "none"]

AccountInit ==
    /\ users \in {[u \in Users |-> IF u \in old THEN u ELSE None] : old \in SUBSET Users}
    /\ \E p \in Passwords :
          record = [i \in Records |-> IF i \in Users /\ users[i] = i
                                     THEN [password |-> p, updates |-> None] ELSE None]
    /\ updates = [r \in Reqs |-> None]
    /\ recent = [u \in Users |-> 0]
    /\ page = [u \in Users |-> None]
    /\ numbers = [u \in Users |-> {}]
    /\ put = [r \in Reqs |-> None]
    /\ planned = [u \in Users |-> {}]
    /\ shown = [u \in Users |-> {}]
    /\ spoilt = [u \in Users |-> {}]
    /\ mail = FALSE
    /\ act = [r \in Reqs |-> Idle]

Goes(r, a, pc) == act' = [act EXCEPT ![r] = [a EXCEPT !.pc = pc]]
Answers(r, a) == act' = [act EXCEPT ![r].pc = "done", ![r].answer = a]

-----------------------------------------------------------------------------
(* set_messenger of the business class: from now on mails are sent. *)
MailArrives ==
    /\ ~mail
    /\ mail' = TRUE
    /\ UNCHANGED <<stored, tracking, act>>

(* process_user up to fetch_user. *)
UserAsks(r, op, u, p) ==
    /\ act[r].pc = "idle"
    /\ op \in {"register", "forgot"}
    /\ Goes(r, [Idle EXCEPT !.op = op, !.user = u, !.pass = p], "fetch")
    /\ UNCHANGED <<stored, tracking, mail>>

(* The form of a page is posted; the number leads to the user, or no more. *)
FormPosted(r, u, n, p) ==
    LET a == [Idle EXCEPT !.op = "reset", !.user = u, !.pass = p, !.number = n] IN
    /\ act[r].pc = "idle"
    /\ n \in shown[u]
    /\ IF n \in numbers[u]
       THEN Goes(r, a, "fetch")
       ELSE act' = [act EXCEPT ![r] = [a EXCEPT !.pc = "done", !.answer = "no"]]
    /\ UNCHANGED <<stored, tracking, mail>>

(* business.process for `forgot`: the count goes up, the page is made with *)
(* the number of this count and starts on its way, the removal of the      *)
(* number is planned, and the number leads to the user.                    *)
Mails(r, u, n) ==
    /\ recent' = [recent EXCEPT ![u] = n]
    /\ put' = [put EXCEPT ![r] = n]
    /\ planned' = [planned EXCEPT ![u] = @ \cup {n}]
    /\ numbers' = [numbers EXCEPT ![u] = @ \cup {n}]
    /\ spoilt' = [spoilt EXCEPT ![u] = @ \ {n}]
    /\ UNCHANGED <<page, shown>>

(* set_key_value of the static store comes to its end, or fails: it looks  *)
(* for the page, in its map or elsewhere, and awaits that first.           *)
PagePut(r) ==
    LET u == act[r].user IN
    /\ put[r] # None
    /\ put' = [put EXCEPT ![r] = None]
    /\ \/ UNCHANGED <<page, shown>>
       \/ /\ page' = [page EXCEPT ![u] = put[r]]
          /\ shown' = [shown EXCEPT ![u] = @ \cup {put[r]}]
    /\ UNCHANGED <<stored, recent, numbers, planned, spoilt, mail, act>>

(* What fetch_user answered lets the operation go on. *)
GoesOn(a) ==
    /\ (a.op = "register") = (a.record = None)
    /\ a.op = "reset" => record[a.record].password # None

(* fetch_user answered. *)
AccountFetched(r) ==
    LET a == [act[r] EXCEPT !.record = users[act[r].user]] IN
    /\ act[r].pc = "fetch"
    /\ \/ ~GoesOn(a) /\ Answers(r, "no") /\ UNCHANGED tracking
       \/ /\ GoesOn(a)
          /\ Goes(r, a, "hash")
          /\ IF a.op = "forgot" /\ mail
             THEN /\ recent[a.user] < MaxCount
                  /\ Mails(r, a.user, recent[a.user] + 1)
             ELSE UNCHANGED tracking
    /\ UNCHANGED <<stored, mail>>

(* registration_transition after hash_pass: store_user, whatever was       *)
(* stored meanwhile.                                                       *)
Registers(r) ==
    /\ act[r].pc = "hash" /\ act[r].op = "register"
    /\ record' = [record EXCEPT ![r] = [password |-> act[r].pass, updates |-> None]]
    /\ users' = [users EXCEPT ![act[r].user] = r]
    /\ Answers(r, "yes")
    /\ UNCHANGED <<updates, tracking, mail>>

(* `forgot` after hash_pass: the wanted password waits in user.updates.    *)
KeepsWanted(r) ==
    LET a == act[r] IN
    /\ a.pc = "hash" /\ a.op = "forgot"
    /\ updates' = [updates EXCEPT ![r] = a.pass]
    /\ record' = [record EXCEPT ![a.record].updates = r]
    /\ users' = [users EXCEPT ![a.user] = a.record]
    /\ Answers(r, "yes")
    /\ UNCHANGED <<tracking, mail>>

(* update_user_password after hash_pass: the check is called with the pass *)
(* that waits at this moment.                                              *)
CallsCheck(r) ==
    LET a == act[r]  up == record[a.record].updates IN
    /\ a.pc = "hash" /\ a.op = "reset"
    /\ \/ /\ up # None => updates[up] # a.pass
          /\ Answers(r, "no")
       \/ /\ up # None /\ updates[up] = a.pass
          /\ Goes(r, [a EXCEPT !.updates = up], "check")
    /\ UNCHANGED <<stored, tracking, mail>>

(* A page with this number is on its way. *)
OnItsWay(u, n) == \E r \in Reqs : act[r].user = u /\ put[r] = n

(* Mutant: cleanup leaves the page. *)
NumberForgotten(u, n) ==
    /\ recent' = [recent EXCEPT ![u] = 0]
    /\ numbers' = [numbers EXCEPT ![u] = @ \ {n}]
    /\ planned' = [planned EXCEPT ![u] = @ \cup {n}]
    /\ spoilt' = IF OnItsWay(u, n) THEN [spoilt EXCEPT ![u] = @ \cup {n}] ELSE spoilt
    /\ UNCHANGED pages

(* business.cleanup: the forgetfulness, the page, the posted number.       *)
Cleanup(u, n) ==
    /\ recent' = [recent EXCEPT ![u] = 0]
    /\ page' = [page EXCEPT ![u] = None]
    /\ numbers' = [numbers EXCEPT ![u] = @ \ {n}]
    /\ planned' = [planned EXCEPT ![u] = @ \cup {n}]
    /\ spoilt' = IF OnItsWay(u, n) THEN [spoilt EXCEPT ![u] = @ \cup {n}] ELSE spoilt
    /\ UNCHANGED <<put, shown>>

(* remove_when of the key-value store: a planned removal takes the number  *)
(* that was set behind it, if an eviction has moved it to a file meanwhile.*)
NumberRemoved(u, n) ==
    /\ n \in planned[u]
    /\ planned' = [planned EXCEPT ![u] = @ \ {n}]
    /\ \/ UNCHANGED <<numbers, spoilt>>
       \/ /\ numbers' = [numbers EXCEPT ![u] = @ \ {n}]
          /\ spoilt' = [spoilt EXCEPT ![u] = @ \cup {n}]
    /\ UNCHANGED <<stored, recent, pages, mail, act>>

(* update_user_password after password_check said yes: the password is     *)
(* taken from the object read before the check, the pass is deleted from   *)
(* the object that is there now; where there is none that throws and the   *)
(* catch answers no, the password being assigned already.                  *)
TakesPassword(r) ==
    LET a == act[r]
        assigned == [record EXCEPT ![a.record].password = updates[a.updates]]
        up == record[a.record].updates IN
    /\ a.pc = "check"
    /\ \/ /\ up = None
          /\ record' = assigned
          /\ Answers(r, "no")
          /\ UNCHANGED <<users, updates, tracking>>
       \/ /\ up # None
          /\ record' = [assigned EXCEPT ![a.record].updates = None]
          /\ updates' = [updates EXCEPT ![up] = None]
          /\ users' = [users EXCEPT ![a.user] = a.record]
          /\ Cleanup(a.user, a.number)
          /\ Answers(r, "yes")
    /\ UNCHANGED mail

(* password_check says no. *)
CheckRefuses(r) ==
    /\ act[r].pc = "check"
    /\ Answers(r, "no")
    /\ UNCHANGED <<stored, tracking, mail>>

AccountNext ==
    \/ MailArrives
    \/ \E r \in Reqs :
          \/ \E u \in Users, p \in Passwords :
                \/ \E op \in {"register", "forgot"} : UserAsks(r, op, u, p)
                \/ \E n \in Numbers : FormPosted(r, u, n, p)
          \/ AccountFetched(r) \/ Registers(r) \/ KeepsWanted(r)
          \/ CallsCheck(r) \/ TakesPassword(r) \/ CheckRefuses(r) \/ PagePut(r)
    \/ \E u \in Users, n \in Numbers : NumberRemoved(u, n)

AccountSpec == AccountInit /\ [][AccountNext]_accountVars

-----------------------------------------------------------------------------
(* Properties. *)

(* Every variable has its type. *)
AccountTypeOK ==
    /\ \A u \in Users :
          /\ users[u] \in Records \cup {None}
          /\ users[u] # None => record[users[u]] # None
          /\ recent[u] \in 0 .. MaxCount
          /\ page[u] \in Numbers \cup {None}
          /\ numbers[u] \cup planned[u] \cup shown[u] \cup spoilt[u] \subseteq Numbers
    /\ \A r \in Reqs :
          /\ act[r] \in Activation
          /\ updates[r] \in Passwords \cup {None}
          /\ put[r] \in Numbers \cup {None}

(* captcha_business.js: however mails, resets and the putting of pages     *)
(* interleave, the page a mail links to carries a number that still leads  *)
(* to the user; but for a number that since it was last mailed was cleaned *)
(* up while a page with it was on its way, or that the removal planned for *)
(* it before it was set has taken.                                         *)
PageNumberIsLive ==
    \A u \in Users : page[u] # None => page[u] \in numbers[u] \cup spoilt[u]

(* general_auth.js, of update_user_password: "If the passwords check out,  *)
(* then the user password can be updated and stored in the DB for future   *)
(* transactions": a stored user has a password.                            *)
PasswordStays == \A u \in Users : users[u] # None => record[users[u]].password # None
=============================================================================
