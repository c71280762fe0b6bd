------------------------------ MODULE Accounts ------------------------------
(***************************************************************************)
(* Signing in (auth/router.py, auth/service.py, auth/ratelimit.py): the     *)
(* first-run setup, sign-ins with a password and a second factor behind the *)
(* limiter, the two-step enrolment of that factor, and sessions whose idle  *)
(* expiry slides.  Requests overlap: what one loaded, another may change    *)
(* before it commits.  Time is a clock of ticks.                            *)
(***************************************************************************)
EXTENDS Integers, FiniteSets

CONSTANTS
    Visitors,           \* requests under way at a time
    Secrets,            \* second-factor secrets that can be issued
    Codes,              \* recovery codes
    Sessions,           \* ids of the sessions made
    NoSecret,
    Idle, Absolute,     \* a session's idle and absolute lives
    Granularity,        \* SESSION_TOUCH_GRANULARITY
    MaxAttempts, Window, BaseLock, MaxLock,     \* the limiter's settings
    LastTick,           \* bound on the clock
    SignIncidents       \* bound: requests made

ASSUME AccountsAssumption ==
    /\ {Idle, Absolute, Granularity, MaxAttempts, Window, BaseLock, MaxLock} \subseteq Nat \ {0}
    /\ {LastTick, SignIncidents} \subseteq Nat /\ NoSecret \notin Secrets
    /\ IsFiniteSet(Visitors) /\ BaseLock <= MaxLock
    /\ \A past \in 0..SignIncidents : 2 ^ past \in Nat \ {0}   \* arithmetic, for the provers

VARIABLES
    clock,
    admins,         \* accounts the setup made, by who asked
    consumed,       \* the setup token's row
    account,        \* the account's second factor: [secret, pending, codes]
    sessions,       \* id -> [expires, absolute, revoked]
    bucket,         \* the limiter's bucket of this address and email
    visitor,        \* request -> where it is and what it loaded
    proven,         \* history: secrets whose code was checked
    spent,          \* history: recovery codes accepted
    lastUse,        \* history: session -> the tick it was last accepted
    crossed,        \* history: two requests that use the second factor overlapped
    signBudget

accountVars == <<clock, admins, consumed, account, sessions, bucket, visitor,
                 proven, spent, lastUse, crossed, signBudget>>

Idler == [pc |-> "idle", row |-> [secret |-> NoSecret, pending |-> NoSecret, codes |-> {}]]
NoBucket == [n |-> 0, start |-> 0, until |-> 0]

AccountsInit ==
    /\ clock = 0 /\ admins = {} /\ consumed = FALSE
    /\ account = Idler.row /\ sessions = << >> /\ bucket = NoBucket
    /\ visitor = [v \in Visitors |-> Idler]
    /\ proven = {} /\ spent = {} /\ lastUse = << >> /\ crossed = FALSE
    /\ signBudget = SignIncidents

AccountsTypeOK ==
    /\ clock \in 0..LastTick /\ admins \subseteq Visitors
    /\ consumed = (admins # {})
    /\ account.secret \in Secrets \cup {NoSecret} /\ account.codes \subseteq Codes
    /\ ~crossed /\ account.secret = NoSecret => account.codes = {}
    /\ DOMAIN sessions \subseteq Sessions /\ DOMAIN lastUse \subseteq Sessions
    /\ bucket.n \in Nat /\ signBudget \in 0..SignIncidents

AtWork == {v \in Visitors : visitor[v].pc # "idle"}
Arrives(v, pc) ==
    /\ visitor[v].pc = "idle" /\ signBudget > 0 /\ signBudget' = signBudget - 1
    /\ visitor' = [visitor EXCEPT ![v] = [pc |-> pc, row |-> account]]
    /\ crossed' = (crossed \/ AtWork # {})
Leaves(v) == visitor' = [visitor EXCEPT ![v] = Idler]
Lesser(a, b) == IF a < b THEN a ELSE b
OpenSession ==
    \E s \in Sessions \ DOMAIN sessions :
        /\ sessions' = [t \in DOMAIN sessions \cup {s} |->
                          IF t \in DOMAIN sessions THEN sessions[t]
                          ELSE [expires |-> clock + Idle, absolute |-> clock + Absolute, revoked |-> FALSE]]
        /\ lastUse' = [t \in DOMAIN lastUse \cup {s} |-> IF t = s THEN clock ELSE lastUse[t]]

-----------------------------------------------------------------------------
(* first_run_setup: the check, then the account, the token's row and a      *)
(* session in one transaction; a second row of the token fails the commit.  *)
AskSetup(v) ==
    /\ ~consumed /\ admins = {}
    /\ Arrives(v, "setup")
    /\ UNCHANGED <<clock, admins, consumed, account, sessions, bucket, proven, spent, lastUse>>

(* Defect: the token's row is left out of the transaction. *)
SetupKeepsToken(v) ==
    /\ visitor[v].pc = "setup" /\ Leaves(v)
    /\ admins' = admins \cup {v} /\ OpenSession
    /\ UNCHANGED <<clock, consumed, account, bucket, proven, spent, crossed, signBudget>>

Setup(v) ==
    /\ visitor[v].pc = "setup" /\ Leaves(v)
    /\ IF consumed THEN UNCHANGED <<admins, consumed, sessions, lastUse>>
       ELSE admins' = admins \cup {v} /\ consumed' = TRUE /\ OpenSession
    /\ UNCHANGED <<clock, account, bucket, proven, spent, crossed, signBudget>>

-----------------------------------------------------------------------------
(* record_failure: the fixed window, the lock that doubles. *)
FailedIn(fresh) ==
    LET past == fresh.n - MaxAttempts
        lock == IF past < 0 THEN 0 ELSE Lesser(BaseLock * 2 ^ past, MaxLock)
    IN  [fresh EXCEPT !.until = IF past < 0 THEN @ ELSE clock + lock]

Counted == IF bucket.n = 0 \/ clock - bucket.start > Window
           THEN [bucket EXCEPT !.n = 1, !.start = clock]
           ELSE [bucket EXCEPT !.n = @ + 1]

(* Defect: the attempt that reaches the limit is free. *)
FailsLate == bucket' = IF Counted.n = MaxAttempts THEN Counted ELSE FailedIn(Counted)

RecordFailure == bucket' = FailedIn(Counted)

(* _prune, when the table is full of other keys: buckets that hold nothing. *)
Prune ==
    /\ bucket.n > 0 /\ bucket.until <= clock /\ clock - bucket.start > Window
    /\ bucket' = NoBucket
    /\ UNCHANGED <<clock, admins, consumed, account, sessions, visitor, proven, spent, lastUse,
                   crossed, signBudget>>

(* login: refused while the bucket is locked; the row is loaded before the  *)
(* password is hashed off the loop.                                         *)
AskLogin(v) ==
    /\ admins # {} /\ bucket.until <= clock
    /\ Arrives(v, "login")
    /\ UNCHANGED <<clock, admins, consumed, account, sessions, bucket, proven, spent, lastUse>>

WrongGuess(v) ==
    /\ visitor[v].pc = "login" /\ Leaves(v) /\ RecordFailure
    /\ UNCHANGED <<clock, admins, consumed, account, sessions, proven, spent, lastUse, crossed,
                   signBudget>>

(* A right password without the code is asked for it, and counts nothing.   *)
CodeMissing(v) ==
    /\ visitor[v].pc = "login" /\ visitor[v].row.secret # NoSecret /\ Leaves(v)
    /\ UNCHANGED <<clock, admins, consumed, account, sessions, bucket, proven, spent, lastUse,
                   crossed, signBudget>>

SignIn(v) ==
    /\ visitor[v].pc = "login"
    /\ visitor[v].row.secret = NoSecret \/ visitor[v].row.secret \in proven
    /\ Leaves(v) /\ bucket' = NoBucket /\ OpenSession
    /\ UNCHANGED <<clock, admins, consumed, account, proven, spent, crossed, signBudget>>

(* Defect: the set is changed in place, which the row does not notice. *)
RecoverInPlace(v) ==
    /\ visitor[v].pc = "login" /\ visitor[v].row.secret # NoSecret
    /\ \E c \in visitor[v].row.codes : spent' = spent \cup {c}
    /\ Leaves(v) /\ bucket' = NoBucket /\ OpenSession
    /\ UNCHANGED <<clock, admins, consumed, account, proven, crossed, signBudget>>

(* consume_recovery_code: the set that was loaded, less this code. *)
Recover(v) ==
    /\ visitor[v].pc = "login" /\ visitor[v].row.secret # NoSecret
    /\ \E c \in visitor[v].row.codes :
          /\ account' = [account EXCEPT !.codes = visitor[v].row.codes \ {c}]
          /\ spent' = spent \cup {c}
    /\ Leaves(v) /\ bucket' = NoBucket /\ OpenSession
    /\ UNCHANGED <<clock, admins, consumed, proven, crossed, signBudget>>

-----------------------------------------------------------------------------
SignedIn == {s \in DOMAIN sessions : ~sessions[s].revoked /\ clock < sessions[s].expires
                                     /\ clock < sessions[s].absolute}

(* totp_start: a pending secret, replacing another. *)
AskEnrol(v) ==
    /\ SignedIn # {} /\ Arrives(v, "start")
    /\ UNCHANGED <<clock, admins, consumed, account, sessions, bucket, proven, spent, lastUse>>

IssueSecret(v) ==
    /\ visitor[v].pc = "start" /\ Leaves(v)
    /\ IF visitor[v].row.secret = NoSecret
       THEN \E s \in Secrets \ (proven \cup {account.pending}) : account' = [account EXCEPT !.pending = s]
       ELSE UNCHANGED account
    /\ UNCHANGED <<clock, admins, consumed, sessions, bucket, proven, spent, lastUse, crossed,
                   signBudget>>

AskConfirm(v) ==
    /\ SignedIn # {} /\ account.pending # NoSecret /\ Arrives(v, "confirm")
    /\ UNCHANGED <<clock, admins, consumed, account, sessions, bucket, proven, spent, lastUse>>

(* Defect: the pending secret of the row as it is now becomes active. *)
ActivateStored(v) ==
    /\ visitor[v].pc = "confirm" /\ Leaves(v)
    /\ proven' = proven \cup {visitor[v].row.pending}
    /\ account' = [secret |-> account.pending, pending |-> NoSecret, codes |-> Codes \ spent]
    /\ UNCHANGED <<clock, admins, consumed, sessions, bucket, spent, lastUse, crossed, signBudget>>

(* totp_confirm: the code is checked against the pending secret loaded with *)
(* the row, which becomes active, with a new set of recovery codes.         *)
Activate(v) ==
    /\ visitor[v].pc = "confirm" /\ Leaves(v)
    /\ LET s == visitor[v].row.pending
       IN  /\ proven' = proven \cup {s}
           /\ account' = [secret |-> s, pending |-> NoSecret, codes |-> Codes \ spent]
    /\ UNCHANGED <<clock, admins, consumed, sessions, bucket, spent, lastUse, crossed, signBudget>>

(* totp_disable. *)
DisableFactor(v) ==
    /\ SignedIn # {} /\ account.secret # NoSecret
    /\ visitor[v].pc = "idle" /\ signBudget > 0 /\ signBudget' = signBudget - 1
    /\ crossed' = (crossed \/ AtWork # {}) /\ UNCHANGED visitor
    /\ account' = [secret |-> NoSecret, pending |-> NoSecret, codes |-> {}]
    /\ UNCHANGED <<clock, admins, consumed, sessions, bucket, proven, spent, lastUse>>

-----------------------------------------------------------------------------
(* Defect: the slide is dropped with the request's transaction. *)
UseUnsaved(s) ==
    /\ s \in SignedIn
    /\ lastUse' = [lastUse EXCEPT ![s] = clock]
    /\ UNCHANGED <<clock, admins, consumed, account, sessions, bucket, visitor, proven, spent,
                   crossed, signBudget>>

(* resolve_session: the idle expiry slides, up to the absolute one, and is  *)
(* written when it moved by the granularity.                                *)
UseSession(s) ==
    /\ s \in SignedIn
    /\ LET renewed == Lesser(clock + Idle, sessions[s].absolute)
       IN  sessions' = IF renewed - sessions[s].expires >= Granularity
                       THEN [sessions EXCEPT ![s].expires = renewed] ELSE sessions
    /\ lastUse' = [lastUse EXCEPT ![s] = clock]
    /\ UNCHANGED <<clock, admins, consumed, account, bucket, visitor, proven, spent, crossed,
                   signBudget>>

(* logout and revoke_session revoke one, revoke-others all but one's own.   *)
Revoke(s) ==
    /\ s \in SignedIn /\ signBudget > 0 /\ signBudget' = signBudget - 1
    /\ sessions' \in {[sessions EXCEPT ![s].revoked = TRUE],
                      [t \in DOMAIN sessions |-> IF t = s THEN sessions[t]
                                                 ELSE [sessions[t] EXCEPT !.revoked = TRUE]]}
    /\ UNCHANGED <<clock, admins, consumed, account, bucket, visitor, proven, spent, lastUse, crossed>>

Tock ==
    /\ clock < LastTick /\ clock' = clock + 1
    /\ UNCHANGED <<admins, consumed, account, sessions, bucket, visitor, proven, spent, lastUse,
                   crossed, signBudget>>

AccountsNext ==
    \/ \E v \in Visitors :
          \/ AskSetup(v) \/ Setup(v)
          \/ AskLogin(v) \/ WrongGuess(v) \/ CodeMissing(v) \/ SignIn(v) \/ Recover(v)
          \/ AskEnrol(v) \/ IssueSecret(v) \/ AskConfirm(v) \/ Activate(v) \/ DisableFactor(v)
    \/ \E s \in DOMAIN sessions : UseSession(s) \/ Revoke(s)
    \/ Prune \/ Tock

AccountsSpec == AccountsInit /\ [][AccountsNext]_accountVars

-----------------------------------------------------------------------------
(* However many first-run setups pass the check together, one account comes *)
(* of them.                                                                 *)
OneFirstAdmin == Cardinality(admins) <= 1

(* The factor that is active is one whose code its owner has shown, though  *)
(* another enrolment was started between the load and the commit.           *)
ActiveIsProven == account.secret # NoSecret => account.secret \in proven

(* A recovery code that was accepted is not in the stored set again, unless *)
(* two requests that use the second factor overlapped.                      *)
CodesSpent == ~crossed => spent \cap account.codes = {}

(* Someone who keeps using a session is not signed out before its absolute  *)
(* expiry: what is stored lags behind the last use by less than the         *)
(* granularity.                                                             *)
ActiveStaysIn ==
    \A s \in DOMAIN sessions :
        sessions[s].expires > Lesser(lastUse[s] + Idle, sessions[s].absolute) - Granularity

(* Wrong guesses in one window: those in flight together, once at first and *)
(* once more for every base lock that has passed.                           *)
GuessesBounded ==
    bucket.n <= MaxAttempts - 1
                + Cardinality(Visitors) * (1 + Lesser(Window, clock - bucket.start) \div BaseLock)

=============================================================================
