----------------------------- MODULE FrontProofs -----------------------------
(***************************************************************************)
(* Proofs about Front: accounts and sign-in, the stills of the panel, the  *)
(* organiser of Drive folders, the photographs of a listing, the search.   *)
(* Each has an invariant that adds to what the run checks what makes it    *)
(* inductive; the other parts leave it alone.                              *)
(*                                                                         *)
(* AccountsInv: the shapes of the rows (FactorTypes, SessionTypes), that   *)
(* the token's row and the account are made together (OneAdmin), that      *)
(* without an overlap the one request at work holds the row as it is       *)
(* (Alone), and, for the limiter, that the sign-ins let in before the lock *)
(* may all still fail within the bound (MayFail) and that by the end of a  *)
(* lock the bound has room for as many again (MayCome).                    *)
(* GrabsInv: the shapes of the requests (AskTypes), that a lock is held by *)
(* one request of a video (OneEach), that the slots are not overrun        *)
(* (SlotsHeld), that whoever holds a slot wants a still that is not there  *)
(* (LookedAgain), and that a count once taken stays good until the writing *)
(* (RoomLeft).                                                             *)
(* OrganizerInv: the names a file may have (DriveTypes), one request at work *)
(* (OneBusy), the manifest uploaded stays while an older one is removed    *)
(* (NewStays), and, while nothing went wrong, each manifest tells the names *)
(* before its apply and the next one takes them up (Told, Chained,         *)
(* UpToDate), and a request knows what it has done and has yet to do       *)
(* (Applies, Restores).                                                    *)
(* ItemsInv: the shapes of the galleries (ItemsTyped), what a request means *)
(* to write by what it does (Writes), and, as long as no two requests      *)
(* overlapped, that one is at work and what it read is still what there is *)
(* (InTurn).                                                               *)
(* LookingInv: the shapes of what a search has found (Lookings), and, as    *)
(* long as the catalogue stayed as it was, that each list was drawn from   *)
(* it as it is and nothing said in part precedes what was said as a whole  *)
(* (OfNow).                                                                *)
(***************************************************************************)
EXTENDS Front, FiniteSetTheorems, WellFoundedInduction, SequenceTheorems, TLAPS

(* The types of what the signing-in parts keep. *)
Rows == [secret : Secrets \cup {NoSecret}, pending : Secrets \cup {NoSecret}, codes : SUBSET Codes]
Visits == [pc : {"idle", "setup", "login", "start", "confirm"}, row : Rows]
Opened == [expires : Nat, absolute : Nat, revoked : BOOLEAN]
Buckets == [n : Nat, start : Nat, until : Nat]

FactorTypes ==
    /\ account \in Rows /\ visitor \in [Visitors -> Visits]
    /\ consumed \in BOOLEAN /\ crossed \in BOOLEAN
    /\ \A v \in Visitors : visitor[v].pc = "confirm" => visitor[v].row.pending \in Secrets
SessionTypes ==
    /\ clock \in 0..LastTick /\ signBudget \in 0..SignIncidents
    /\ DOMAIN sessions \subseteq Sessions
    /\ sessions \in [DOMAIN sessions -> Opened]
    /\ lastUse \in [DOMAIN sessions -> Nat]
    /\ bucket \in Buckets /\ bucket.start <= clock

OneAdmin == /\ admins \subseteq Visitors
            /\ consumed = (admins # {})
            /\ admins = {} \/ \E v \in Visitors : admins = {v}

(* Without an overlap one request is at work, with the row as it is.       *)
Alone == ~crossed =>
    /\ \A v \in AtWork : visitor[v].row = account
    /\ \A v, w \in AtWork : v = w
    /\ account.secret = NoSecret => account.codes = {}
    /\ spent \cap account.codes = {}

(* Sign-ins under way, each of which may yet fail. *)
SigningIn == {v \in Visitors : visitor[v].pc = "login"}
InFlight  == Cardinality(SigningIn)
Crowd     == Cardinality(Visitors)
(* Base locks that fit between the start of the window and a tick. *)
Locks(t) == (t - bucket.start) \div BaseLock

(* How many wrong guesses k base locks allow. *)
Bound(k) == MaxAttempts - 1 + Crowd * k

(* Those under way may fail yet; once a lock is over one more crowd may come. *)
MayFail == clock - bucket.start <= Window => bucket.n + InFlight <= Bound(1 + Locks(clock))
MayCome ==
    bucket.n >= MaxAttempts => \A t \in Nat :
        t >= bucket.until /\ t >= bucket.start /\ t - bucket.start <= Window =>
            bucket.n <= Bound(Locks(t))
Asked   == bucket.n + InFlight + signBudget <= SignIncidents
Guesses == MayFail /\ MayCome /\ Asked /\ GuessesBounded

AccountsInv ==
    FactorTypes /\ SessionTypes /\ OneAdmin /\ Alone /\ ActiveIsProven /\ ActiveStaysIn /\ Guesses
-----------------------------------------------------------------------------
(* Numbers *)

(* What AccountsAssumption says, one fact at a time.                        *)
LEMMA Settings ==
    /\ Idle \in Nat \ {0} /\ Absolute \in Nat \ {0} /\ Granularity \in Nat \ {0}
    /\ MaxAttempts \in Nat \ {0} /\ Window \in Nat \ {0} /\ BaseLock \in Nat \ {0}
    /\ MaxLock \in Nat \ {0} /\ BaseLock <= MaxLock
    /\ LastTick \in Nat /\ SignIncidents \in Nat /\ NoSecret \notin Secrets
    /\ Crowd \in Nat
  BY AccountsAssumption, FS_CardinalityType DEF AccountsAssumption, Crowd

(* Division by a base lock: whole, monotone, and one more after another     *)
(* lock.                                                                    *)
LEMMA Division ==
    ASSUME NEW b \in Nat \ {0}
    PROVE  /\ \A a \in Nat : a \div b \in Nat
           /\ \A a, c \in Nat : a <= c => a \div b <= c \div b
           /\ \A a, c \in Nat : a + b <= c => a \div b + 1 <= c \div b
<1>1. \A a \in Nat : a \div b \in Nat
  OBVIOUS
<1>2. \A a, c \in Nat : a <= c => a \div b <= c \div b
  OBVIOUS
<1>3. \A a \in Nat : (a + b) \div b = a \div b + 1
  OBVIOUS
<1>4. ASSUME NEW a \in Nat, NEW c \in Nat, a + b <= c
      PROVE  a \div b + 1 <= c \div b
  <2>1. a + b \in Nat
    OBVIOUS
  <2>2. (a + b) \div b <= c \div b
    BY <1>2, <1>4, <2>1
  <2> QED BY <1>3, <2>2
<1> QED BY <1>1, <1>2, <1>4

(* Products of a number of visitors and a number of locks.                  *)
LEMMA Crowds ==
    ASSUME NEW n \in Nat
    PROVE  /\ \A k \in Nat : n * k \in Nat /\ n * (1 + k) = n * k + n
           /\ \A k, l \in Nat : k <= l => n * k <= n * l
  OBVIOUS

(* Counting the sign-ins under way as one comes or goes.                    *)
LEMMA Flights ==
    /\ InFlight \in Nat /\ InFlight <= Crowd
    /\ \A v \in Visitors : SigningIn' = SigningIn \cup {v} /\ v \notin SigningIn =>
          InFlight' = InFlight + 1
    /\ \A v \in SigningIn : SigningIn' = SigningIn \ {v} => InFlight' = InFlight - 1
    /\ SigningIn' = SigningIn => InFlight' = InFlight
<1>1. IsFiniteSet(Visitors) /\ SigningIn \subseteq Visitors
  BY AccountsAssumption DEF AccountsAssumption, SigningIn
<1>2. IsFiniteSet(SigningIn) /\ InFlight \in Nat /\ InFlight <= Crowd
  BY <1>1, FS_Subset, FS_CardinalityType DEF InFlight, Crowd
<1>3. \A v \in Visitors : v \notin SigningIn => Cardinality(SigningIn \cup {v}) = InFlight + 1
  BY <1>2, FS_AddElement DEF InFlight
<1>4. \A v \in SigningIn : Cardinality(SigningIn \ {v}) = InFlight - 1
  BY <1>2, FS_RemoveElement DEF InFlight
<1>5. InFlight' = Cardinality(SigningIn')
  BY DEF InFlight
<1> QED BY <1>2, <1>3, <1>4, <1>5 DEF InFlight

-----------------------------------------------------------------------------
(* The limiter *)

(* record_failure: the bucket's count and start are those counted, and a    *)
(* bucket at the limit is locked for a base lock at least.                  *)
LEMMA Failed ==
    ASSUME SessionTypes, Guesses, RecordFailure, NEW v \in SigningIn
    PROVE  /\ bucket' \in Buckets
           /\ bucket'.n = Counted.n /\ bucket'.start = Counted.start
           /\ Counted.n >= MaxAttempts => bucket'.until >= clock + BaseLock
<1>1. /\ clock \in Nat /\ bucket \in Buckets /\ signBudget \in Nat
      /\ bucket.n + InFlight + signBudget <= SignIncidents
      /\ bucket.n \in Nat /\ bucket.start \in Nat /\ bucket.until \in Nat
  BY Settings DEF SessionTypes, Guesses, Asked, Buckets
<1>2. InFlight >= 1
  <2>1. IsFiniteSet(SigningIn)
    BY FS_Subset, AccountsAssumption DEF AccountsAssumption, SigningIn
  <2>2. InFlight # 0
    BY <2>1, FS_EmptySet DEF InFlight
  <2> QED BY <2>2, Flights
<1> DEFINE c == Counted
           past == c.n - MaxAttempts
           lock == IF past < 0 THEN 0 ELSE Lesser(BaseLock * 2 ^ past, MaxLock)
<1>3. c \in Buckets /\ c.n <= bucket.n + 1 /\ c.n \in Nat
  <2>1. \/ c = [n |-> 1, start |-> clock, until |-> bucket.until]
        \/ c = [n |-> bucket.n + 1, start |-> bucket.start, until |-> bucket.until]
    BY <1>1 DEF Counted, Buckets
  <2> HIDE DEF c
  <2> QED BY <1>1, <2>1 DEF Buckets
<1>4. bucket' = [c EXCEPT !.until = IF past < 0 THEN @ ELSE clock + lock]
  BY DEF RecordFailure, FailedIn
<1> HIDE DEF c
<1>5. past \in Int /\ past <= SignIncidents
  BY <1>1, <1>2, <1>3, Flights, Settings
<1>6. past >= 0 => lock \in Nat /\ lock >= BaseLock
  <2> SUFFICES ASSUME past >= 0 PROVE lock \in Nat /\ lock >= BaseLock
    OBVIOUS
  <2>1. past \in 0..SignIncidents
    BY <1>5, Settings
  <2>2. 2 ^ past \in Nat \ {0}
    BY <2>1, AccountsAssumption DEF AccountsAssumption
  <2>3. \A p \in Nat \ {0} : BaseLock * p \in Nat /\ BaseLock * p >= BaseLock
    BY Settings
  <2> DEFINE longer == BaseLock * 2 ^ past
  <2>4. longer \in Nat /\ longer >= BaseLock
    BY <2>2, <2>3
  <2>5. lock = Lesser(longer, MaxLock)
    BY <1>5
  <2> HIDE DEF longer, lock
  <2> QED BY <2>4, <2>5, Settings DEF Lesser
<1>7. past < 0 => bucket' = c
  BY <1>3, <1>4 DEF Buckets
<1> HIDE DEF lock
<1>8. past >= 0 => bucket' = [c EXCEPT !.until = clock + lock]
  BY <1>4, <1>5
<1> QED BY <1>1, <1>3, <1>5, <1>6, <1>7, <1>8, Settings DEF Buckets, c

(* The bound grows by one crowd with each lock.                             *)
LEMMA Bounds ==
    /\ \A k \in Nat : /\ Bound(k) \in Nat /\ Bound(1 + k) \in Nat
                    /\ Bound(1 + k) = Bound(k) + Crowd
    /\ \A k, l \in Nat : k <= l => Bound(k) <= Bound(l) /\ Bound(1 + k) <= Bound(1 + l)
    /\ Crowd + MaxAttempts - 1 = Bound(1)
<1>1. \A k \in Nat : Crowd * k \in Nat /\ Crowd * (1 + k) = Crowd * k + Crowd
  BY Crowds, Settings
<1>2. \A k, l \in Nat : k <= l => Crowd * k <= Crowd * l
  BY Crowds, Settings
<1>3. Crowd * 1 = Crowd
  BY Settings
<1>4. \A k, l \in Nat : k <= l => Crowd * (1 + k) <= Crowd * (1 + l)
  BY <1>1, <1>2, Settings
<1>5. \A k \in Nat : Crowd * (1 + k) \in Nat
  BY <1>1, Settings
<1> QED BY <1>1, <1>2, <1>3, <1>4, <1>5, Settings DEF Bound

(* The numbers of the limiter, and the division of its time into locks.     *)
LEMMA Facts ==
    ASSUME SessionTypes
    PROVE  /\ clock \in Nat /\ signBudget \in Nat
           /\ bucket.n \in Nat /\ bucket.start \in Nat /\ bucket.until \in Nat
           /\ clock >= bucket.start /\ clock - bucket.start \in Nat
           /\ \A t \in Nat : t >= bucket.start => Locks(t) \in Nat
           /\ Lesser(Window, clock - bucket.start) \in Nat
           /\ Lesser(Window, clock - bucket.start) \div BaseLock \in Nat
<1>1. /\ clock \in Nat /\ signBudget \in Nat
      /\ bucket.n \in Nat /\ bucket.start \in Nat /\ bucket.until \in Nat
      /\ clock >= bucket.start
  BY Settings DEF SessionTypes, Buckets
<1>2. \A t \in Nat : t >= bucket.start => t - bucket.start \in Nat
  BY <1>1
<1>3. Lesser(Window, clock - bucket.start) \in Nat
  BY <1>1, <1>2, Settings DEF Lesser
<1> QED BY <1>1, <1>2, <1>3, Settings, Division DEF Locks

(* The bound itself, with its name. *)
LEMMA Bounded ==
    /\ GuessesBounded <=> bucket.n <= Bound(1 + Lesser(Window, clock - bucket.start) \div BaseLock)
    /\ GuessesBounded' <=>
          bucket'.n <= Bound(1 + Lesser(Window, clock' - bucket'.start) \div BaseLock)
  BY DEF GuessesBounded, Bound, Crowd

(* Nothing is counted and no sign-in comes in: the limiter's invariant      *)
(* holds.                                                                   *)
LEMMA GuessesSame ==
    ASSUME SessionTypes, Guesses, bucket' = bucket, clock' = clock, InFlight' \in Nat,
           InFlight' <= InFlight, signBudget' \in Nat, signBudget' <= signBudget
    PROVE  Guesses'
<1>1. \A t : Locks(t)' = Locks(t)
  BY DEF Locks
<1>2. Bound(1 + Locks(clock)) \in Nat /\ InFlight \in Nat
  BY Facts, Bounds, Flights
<1>3. MayFail'
  <2>1. Bound(1 + Locks(clock))' = Bound(1 + Locks(clock))
    BY DEF Locks, Bound, Crowd
  <2> QED BY <1>2, <2>1, Facts DEF Guesses, MayFail
<1>4. MayCome'
  BY <1>1 DEF Guesses, MayCome, Bound, Crowd
<1>5. Asked'
  BY <1>2, Facts, Settings DEF Guesses, Asked
<1>6. GuessesBounded'
  BY Bounded DEF Guesses
<1> QED BY <1>3, <1>4, <1>5, <1>6 DEF Guesses

(* The bucket is forgotten (a sign-in, or a table that is pruned).          *)
LEMMA GuessesForgotten ==
    ASSUME SessionTypes, Guesses, bucket' = NoBucket, clock' = clock,
           InFlight' \in Nat, InFlight' <= InFlight, signBudget' \in Nat, signBudget' <= signBudget
    PROVE  Guesses'
<1>1. bucket'.n = 0 /\ bucket'.start = 0
  BY DEF NoBucket
<1>2. InFlight \in Nat /\ InFlight <= Crowd /\ clock \in Nat /\ Crowd \in Nat
  BY Flights, Facts, Settings
<1>3. clock \div BaseLock \in Nat /\ Lesser(Window, clock) \in Nat
      /\ Lesser(Window, clock) \div BaseLock \in Nat
  BY <1>2, Settings, Division DEF Lesser
<1>4. Crowd <= Bound(1 + clock \div BaseLock)
  BY <1>2, <1>3, Bounds, Settings
<1>5. MayFail'
  <2>1. Bound(1 + Locks(clock))' = Bound(1 + clock \div BaseLock)
    BY <1>1, <1>2 DEF Locks, Bound, Crowd
  <2>2. Bound(1 + clock \div BaseLock) \in Nat
    BY <1>3, Bounds
  <2> QED BY <1>1, <1>2, <1>4, <2>1, <2>2 DEF MayFail
<1>6. MayCome'
  BY <1>1, Settings DEF MayCome
<1>7. Asked'
  <2>1. bucket.n \in Nat /\ signBudget \in Nat /\ bucket.n + InFlight + signBudget <= SignIncidents
    BY Facts DEF Guesses, Asked
  <2>2. \A n, i, b, s, j, c \in Nat : n + i + b <= s /\ j <= i /\ c <= b => j + c <= s
    OBVIOUS
  <2>3. InFlight' + signBudget' <= SignIncidents
    BY <1>2, <2>1, <2>2, Settings
  <2>4. InFlight' + signBudget' = 0 + InFlight' + signBudget'
    BY <1>2
  <2> QED BY <1>1, <2>3, <2>4 DEF Asked
<1>8. GuessesBounded'
  <2>1. clock' - bucket'.start = clock
    BY <1>1, <1>2
  <2>2. Bound(1 + Lesser(Window, clock) \div BaseLock) \in Nat
    BY <1>3, Bounds
  <2> QED BY <1>1, <2>1, <2>2, Bounded
<1> QED BY <1>5, <1>6, <1>7, <1>8 DEF Guesses

(* A sign-in asked for: the lock, if there was one, is over. *)
LEMMA GuessesJoined ==
    ASSUME SessionTypes, Guesses, bucket' = bucket, clock' = clock, bucket.until <= clock,
           InFlight' = InFlight + 1, InFlight' \in Nat, InFlight' <= Crowd,
           signBudget' = signBudget - 1
    PROVE  Guesses'
<1>1. InFlight \in Nat /\ Crowd \in Nat /\ Locks(clock) \in Nat
  BY Flights, Facts, Settings
<1>2. MayFail'
  <2>1. Bound(1 + Locks(clock))' = Bound(1 + Locks(clock))
    BY DEF Locks, Bound, Crowd
  <2>2. /\ Bound(1 + Locks(clock)) = Bound(Locks(clock)) + Crowd
        /\ Bound(Locks(clock)) \in Nat
        /\ MaxAttempts - 1 <= Bound(Locks(clock))
    <3>1. Bound(0) = MaxAttempts - 1
      BY <1>1, Settings DEF Bound
    <3> QED BY <1>1, <3>1, Bounds
  <2>3. CASE bucket.n >= MaxAttempts
    <3>1. clock - bucket.start <= Window => bucket.n <= Bound(Locks(clock))
      BY <2>3, Facts DEF Guesses, MayCome
    <3> QED BY <1>1, <2>1, <2>2, <3>1, Facts DEF MayFail
  <2>4. CASE bucket.n < MaxAttempts
    <3>1. bucket.n <= Bound(Locks(clock))
      BY <2>2, <2>4, Facts, Settings
    <3> QED BY <1>1, <2>1, <2>2, <3>1, Facts DEF MayFail
  <2> QED BY <2>3, <2>4, Facts, Settings
<1>3. MayCome'
  BY DEF Guesses, MayCome, Bound, Crowd, Locks
<1>4. Asked'
  BY <1>1, Facts, Settings DEF Guesses, Asked
<1>5. GuessesBounded'
  BY Bounded DEF Guesses
<1> QED BY <1>2, <1>3, <1>4, <1>5 DEF Guesses

(* A guess that fails: counted, or the first of a new window. *)
LEMMA GuessesFailed ==
    ASSUME SessionTypes, Guesses, RecordFailure, NEW v \in SigningIn, clock' = clock,
           InFlight' = InFlight - 1, InFlight' \in Nat, signBudget' = signBudget
    PROVE  Guesses'
<1>1. /\ bucket'.n = Counted.n /\ bucket'.start = Counted.start
      /\ Counted.n >= MaxAttempts => bucket'.until >= clock + BaseLock
      /\ bucket'.until \in Nat
  BY Failed DEF Buckets
<1>2. InFlight \in Nat /\ InFlight <= Crowd /\ Crowd \in Nat /\ InFlight >= 1
  BY Flights, Settings
<1>3. /\ clock \in Nat /\ bucket.n \in Nat /\ bucket.start \in Nat /\ clock >= bucket.start
      /\ Locks(clock) \in Nat /\ signBudget \in Nat
  BY Facts
<1>4. CASE bucket.n = 0 \/ clock - bucket.start > Window
  <2>1. bucket'.n = 1 /\ bucket'.start = clock
    BY <1>1, <1>3, <1>4 DEF Counted, SessionTypes, Buckets
  <2>2. 0 \div BaseLock \in Nat /\ Lesser(Window, 0) \in Nat
        /\ Lesser(Window, 0) \div BaseLock \in Nat
    BY Settings, Division DEF Lesser
  <2>3. /\ Crowd + MaxAttempts - 1 <= Bound(1 + 0 \div BaseLock)
        /\ Crowd + MaxAttempts - 1 <= Bound(1 + Lesser(Window, 0) \div BaseLock)
        /\ Bound(1 + 0 \div BaseLock) \in Nat
        /\ Bound(1 + Lesser(Window, 0) \div BaseLock) \in Nat
    <3>1. \A k \in Nat : Bound(1) <= Bound(1 + k)
      BY Bounds
    <3> QED BY <2>2, <3>1, Bounds
  <2>4. clock - clock = 0
    BY <1>3
  <2>5. MayFail'
    <3>1. Bound(1 + Locks(clock))' = Bound(1 + 0 \div BaseLock)
      BY <2>1, <2>4 DEF Locks, Bound, Crowd
    <3> QED BY <1>2, <2>1, <2>3, <3>1, Settings DEF MayFail
  <2>6. MayCome'
    <3> SUFFICES ASSUME bucket'.n >= MaxAttempts, NEW t \in Nat, t >= bucket'.until
                 PROVE  bucket'.n <= Bound(Locks(t))'
      BY DEF MayCome
    <3>1. t - clock \in Nat /\ BaseLock <= t - clock
      BY <1>1, <1>3, Settings
    <3>2. 0 \div BaseLock + 1 <= (t - clock) \div BaseLock /\ (t - clock) \div BaseLock \in Nat
      BY <3>1, Settings, Division
    <3>3. Bound(1) <= Bound((t - clock) \div BaseLock)
      BY <2>2, <3>2, Bounds
    <3>4. Bound(Locks(t))' = Bound((t - clock) \div BaseLock)
      BY <2>1 DEF Locks, Bound, Crowd
    <3> QED BY <1>2, <2>1, <3>2, <3>3, <3>4, Bounds, Settings
  <2>7. Asked'
    BY <1>2, <1>3, <2>1, Settings DEF Guesses, Asked
  <2>8. GuessesBounded'
    BY <1>2, <2>1, <2>3, <2>4, Bounded, Settings
  <2> QED BY <2>5, <2>6, <2>7, <2>8 DEF Guesses
<1>5. CASE ~ (bucket.n = 0 \/ clock - bucket.start > Window)
  <2>1. bucket'.n = bucket.n + 1 /\ bucket'.start = bucket.start /\ clock - bucket.start <= Window
    BY <1>1, <1>3, <1>5, Settings DEF Counted, SessionTypes, Buckets
  <2>2. bucket'.n + InFlight' <= Bound(1 + Locks(clock)) /\ Bound(1 + Locks(clock)) \in Nat
    <3>1. bucket.n + InFlight <= Bound(1 + Locks(clock))
      BY <2>1 DEF Guesses, MayFail
    <3>2. bucket'.n + InFlight' = bucket.n + InFlight
      BY <1>2, <1>3, <2>1
    <3> QED BY <1>3, <3>1, <3>2, Bounds
  <2>3. \A t : Bound(Locks(t))' = Bound(Locks(t)) /\ Bound(1 + Locks(t))' = Bound(1 + Locks(t))
    BY <2>1 DEF Locks, Bound, Crowd
  <2>4. MayFail'
    BY <2>2, <2>3 DEF MayFail
  <2>5. MayCome'
    <3> SUFFICES ASSUME bucket'.n >= MaxAttempts, NEW t \in Nat, t >= bucket'.until
                 PROVE  bucket'.n <= Bound(Locks(t))
      BY <2>3 DEF MayCome
    <3>1. t - bucket.start \in Nat /\ clock - bucket.start \in Nat
          /\ (clock - bucket.start) + BaseLock <= t - bucket.start
      BY <1>1, <1>3, Settings
    <3>2. Locks(clock) + 1 <= Locks(t) /\ Locks(t) \in Nat
      BY <3>1, Settings, Division DEF Locks
    <3>3. Bound(1 + Locks(clock)) <= Bound(Locks(t)) /\ Bound(Locks(t)) \in Nat
      BY <1>3, <3>2, Bounds
    <3> QED BY <1>2, <1>3, <2>1, <2>2, <3>3
  <2>6. Asked'
    BY <1>2, <1>3, <2>1, Settings DEF Guesses, Asked
  <2>7. GuessesBounded'
    <3>1. Lesser(Window, clock - bucket.start) = clock - bucket.start
      BY <1>3, <2>1, Settings DEF Lesser
    <3> QED BY <1>2, <1>3, <2>1, <2>2, <3>1, Bounded DEF Locks
  <2> QED BY <2>4, <2>5, <2>6, <2>7 DEF Guesses
<1> QED BY <1>4, <1>5

(* Time passes: the bound does not shrink.                                  *)
LEMMA GuessesTick ==
    ASSUME SessionTypes, Guesses, bucket' = bucket, clock' = clock + 1, InFlight' = InFlight,
           signBudget' = signBudget
    PROVE  Guesses'
<1>1. /\ clock \in Nat /\ bucket.n \in Nat /\ bucket.start \in Nat /\ clock >= bucket.start
      /\ InFlight \in Nat /\ Locks(clock) \in Nat
  BY Facts, Flights
<1>2. Locks(clock) <= Locks(clock + 1) /\ Locks(clock + 1) \in Nat
  <2>1. /\ clock - bucket.start \in Nat /\ (clock + 1) - bucket.start \in Nat
        /\ clock - bucket.start <= (clock + 1) - bucket.start
    BY <1>1
  <2> QED BY <2>1, Settings, Division DEF Locks
<1>3. MayFail'
  <2>1. Bound(1 + Locks(clock))' = Bound(1 + Locks(clock + 1))
    BY DEF Locks, Bound, Crowd
  <2>2. /\ Bound(1 + Locks(clock)) <= Bound(1 + Locks(clock + 1))
        /\ Bound(1 + Locks(clock)) \in Nat /\ Bound(1 + Locks(clock + 1)) \in Nat
    BY <1>1, <1>2, Bounds
  <2> QED BY <1>1, <2>1, <2>2, Settings DEF Guesses, MayFail
<1>4. MayCome'
  BY DEF Guesses, MayCome, Bound, Crowd, Locks
<1>5. Asked'
  BY DEF Guesses, Asked
<1>6. GuessesBounded'
  <2> DEFINE old == Lesser(Window, clock - bucket.start)
             new == Lesser(Window, clock' - bucket'.start)
  <2>1. old \in Nat /\ new \in Nat /\ old <= new
    BY <1>1, Settings DEF Lesser
  <2> HIDE DEF old, new
  <2>2. old \div BaseLock <= new \div BaseLock /\ old \div BaseLock \in Nat /\ new \div BaseLock \in Nat
    BY <2>1, Settings, Division
  <2>3. Bound(1 + old \div BaseLock) <= Bound(1 + new \div BaseLock)
        /\ Bound(1 + old \div BaseLock) \in Nat /\ Bound(1 + new \div BaseLock) \in Nat
    BY <2>2, Bounds
  <2> QED BY <1>1, <2>3, Bounded DEF Guesses, old, new
<1> QED BY <1>3, <1>4, <1>5, <1>6 DEF Guesses

-----------------------------------------------------------------------------
(* Coming and going *)

(* A request that arrives holds the row as it is now.                       *)
LEMMA Came ==
    ASSUME FactorTypes, NEW v \in Visitors, NEW p \in {"setup", "login", "start", "confirm"},
           Arrives(v, p), p = "confirm" => account.pending \in Secrets
    PROVE  /\ visitor' \in [Visitors -> Visits]
           /\ \A w \in Visitors : visitor'[w].pc = "confirm" => visitor'[w].row.pending \in Secrets
           /\ visitor'[v] = [pc |-> p, row |-> account]
           /\ \A w \in Visitors \ {v} : visitor'[w] = visitor[w]
           /\ AtWork' = AtWork \cup {v} /\ v \notin AtWork
           /\ p # "login" => SigningIn' = SigningIn
           /\ p = "login" => SigningIn' = SigningIn \cup {v} /\ v \notin SigningIn
<1> DEFINE here == [pc |-> p, row |-> account]
<1>1. here \in Visits /\ here.pc = p /\ here.row = account
  BY DEF FactorTypes, Visits
<1>2. visitor' = [visitor EXCEPT ![v] = here] /\ visitor[v].pc = "idle"
  BY DEF Arrives
<1> HIDE DEF here
<1>3. /\ visitor' \in [Visitors -> Visits] /\ visitor'[v] = here
      /\ \A w \in Visitors \ {v} : visitor'[w] = visitor[w]
  BY <1>1, <1>2 DEF FactorTypes
<1>4. \A w \in Visitors : visitor'[w].pc = "confirm" => visitor'[w].row.pending \in Secrets
  BY <1>1, <1>3 DEF FactorTypes
<1>5. AtWork' = AtWork \cup {v} /\ v \notin AtWork
  BY <1>1, <1>2, <1>3 DEF AtWork
<1>6. p # "login" => SigningIn' = SigningIn
  BY <1>1, <1>2, <1>3 DEF SigningIn
<1>7. p = "login" => SigningIn' = SigningIn \cup {v} /\ v \notin SigningIn
  BY <1>1, <1>2, <1>3 DEF SigningIn
<1> QED BY <1>1, <1>3, <1>4, <1>5, <1>6, <1>7 DEF here

(* A request that leaves is no longer at work.                              *)
LEMMA Left ==
    ASSUME FactorTypes, NEW v \in Visitors, Leaves(v), visitor[v].pc # "idle"
    PROVE  /\ visitor' \in [Visitors -> Visits]
           /\ \A w \in Visitors : visitor'[w].pc = "confirm" => visitor'[w].row.pending \in Secrets
           /\ \A w \in Visitors \ {v} : visitor'[w] = visitor[w]
           /\ AtWork' = AtWork \ {v} /\ v \in AtWork
           /\ SigningIn' = SigningIn \ {v} /\ (visitor[v].pc = "login" => v \in SigningIn)
<1>1. Idler \in Visits /\ Idler.pc = "idle"
  BY DEF Visits, Idler, Rows
<1>2. visitor' = [visitor EXCEPT ![v] = Idler]
  BY DEF Leaves
<1>3. /\ visitor' \in [Visitors -> Visits] /\ visitor'[v] = Idler
      /\ \A w \in Visitors \ {v} : visitor'[w] = visitor[w]
  BY <1>1, <1>2 DEF FactorTypes
<1>4. \A w \in Visitors : visitor'[w].pc = "confirm" => visitor'[w].row.pending \in Secrets
  BY <1>1, <1>3 DEF FactorTypes
<1>5. AtWork' = AtWork \ {v} /\ v \in AtWork
  BY <1>1, <1>3 DEF AtWork
<1>6. SigningIn' = SigningIn \ {v} /\ (visitor[v].pc = "login" => v \in SigningIn)
  BY <1>1, <1>3 DEF SigningIn
<1> QED BY <1>3, <1>4, <1>5, <1>6

(* What a request that leaves does to the number of sign-ins under way. *)
LEMMA FewerInFlight ==
    ASSUME NEW v \in Visitors, SigningIn' = SigningIn \ {v}
    PROVE  InFlight' \in Nat /\ InFlight' <= InFlight
<1>1. CASE v \in SigningIn
  <2>1. IsFiniteSet(SigningIn) /\ IsFiniteSet(SigningIn \ {v})
    BY FS_Subset, AccountsAssumption DEF AccountsAssumption, SigningIn
  <2>2. Cardinality(SigningIn \ {v}) \in Nat
    BY <2>1, FS_CardinalityType
  <2>3. InFlight' = Cardinality(SigningIn \ {v})
    BY DEF InFlight
  <2>4. InFlight' = InFlight - 1 /\ InFlight \in Nat
    BY <1>1, Flights
  <2> QED BY <2>2, <2>3, <2>4
<1>2. CASE v \notin SigningIn
  BY <1>2, Flights
<1> QED BY <1>1, <1>2

-----------------------------------------------------------------------------
(* Types *)

(* Every step keeps the types of the account's row and of what requests     *)
(* hold.                                                                    *)
LEMMA FactorKept == FactorTypes /\ AccountsNext => FactorTypes'
<1> SUFFICES ASSUME FactorTypes, AccountsNext PROVE FactorTypes'
  OBVIOUS
<1> DEFINE Shape == /\ visitor' \in [Visitors -> Visits]
                    /\ \A w \in Visitors : visitor'[w].pc = "confirm" =>
                                              visitor'[w].row.pending \in Secrets
<1>a. ASSUME Shape, account' \in Rows, consumed' \in BOOLEAN, crossed' \in BOOLEAN PROVE FactorTypes'
  BY <1>a DEF FactorTypes
<1>b. ASSUME NEW v \in Visitors, visitor[v].pc # "idle", Leaves(v) PROVE Shape
  BY <1>b, Left
<1>c. ASSUME NEW v \in Visitors, NEW p \in {"setup", "login", "start", "confirm"}, Arrives(v, p),
             p = "confirm" => account.pending \in Secrets
      PROVE  Shape /\ crossed' \in BOOLEAN
  BY <1>c, Came DEF Arrives
<1>d. visitor' = visitor => Shape
  BY DEF FactorTypes
<1>e. account \in Rows /\ consumed \in BOOLEAN /\ crossed \in BOOLEAN
      /\ \A v \in Visitors : visitor[v] \in Visits
  BY DEF FactorTypes
<1> HIDE DEF Shape
<1>1. ASSUME NEW v \in Visitors, AskSetup(v) PROVE FactorTypes'
  BY <1>1, <1>a, <1>c, <1>e DEF AskSetup
<1>2. ASSUME NEW v \in Visitors, Setup(v) PROVE FactorTypes'
  BY <1>2, <1>a, <1>b, <1>e DEF Setup
<1>3. ASSUME NEW v \in Visitors, AskLogin(v) PROVE FactorTypes'
  BY <1>3, <1>a, <1>c, <1>e DEF AskLogin
<1>4. ASSUME NEW v \in Visitors, WrongGuess(v) \/ CodeMissing(v) \/ SignIn(v) PROVE FactorTypes'
  BY <1>4, <1>a, <1>b, <1>e DEF WrongGuess, CodeMissing, SignIn
<1>5. ASSUME NEW v \in Visitors, Recover(v) PROVE FactorTypes'
  <2>1. visitor[v].row.codes \subseteq Codes
    BY <1>e DEF Visits, Rows
  <2>2. account' \in Rows
    BY <1>5, <1>e, <2>1 DEF Recover, Rows
  <2> QED BY <1>5, <1>a, <1>b, <1>e, <2>2 DEF Recover
<1>6. ASSUME NEW v \in Visitors, AskEnrol(v) PROVE FactorTypes'
  BY <1>6, <1>a, <1>c, <1>e DEF AskEnrol
<1>7. ASSUME NEW v \in Visitors, IssueSecret(v) PROVE FactorTypes'
  <2>1. account' \in Rows
    BY <1>7, <1>e DEF IssueSecret, Rows
  <2> QED BY <1>7, <1>a, <1>b, <1>e, <2>1 DEF IssueSecret
<1>8. ASSUME NEW v \in Visitors, AskConfirm(v) PROVE FactorTypes'
  <2>1. account.pending \in Secrets
    BY <1>8, <1>e DEF AskConfirm, Rows
  <2> QED BY <1>8, <1>a, <1>c, <1>e, <2>1 DEF AskConfirm
<1>9. ASSUME NEW v \in Visitors, Activate(v) PROVE FactorTypes'
  <2>1. visitor[v].row.pending \in Secrets
    BY <1>9 DEF Activate, FactorTypes
  <2>2. account' \in Rows
    BY <1>9, <2>1 DEF Activate, Rows
  <2> QED BY <1>9, <1>a, <1>b, <1>e, <2>2 DEF Activate
<1>10. ASSUME NEW v \in Visitors, DisableFactor(v) PROVE FactorTypes'
  <2>1. account' \in Rows
    BY <1>10 DEF DisableFactor, Rows
  <2> QED BY <1>10, <1>a, <1>d, <1>e, <2>1 DEF DisableFactor
<1>11. ASSUME NEW s \in DOMAIN sessions, UseSession(s) \/ Revoke(s) PROVE FactorTypes'
  BY <1>11, <1>a, <1>d, <1>e DEF UseSession, Revoke
<1>12. CASE Prune \/ Tock
  BY <1>12, <1>a, <1>d, <1>e DEF Prune, Tock
<1> QED
  BY <1>1, <1>2, <1>3, <1>4, <1>5, <1>6, <1>7, <1>8, <1>9, <1>10, <1>11, <1>12 DEF AccountsNext

(* A session is opened with both its lives ahead of it. *)
LEMMA SessionOpened ==
    ASSUME SessionTypes, OpenSession
    PROVE  /\ DOMAIN sessions' \subseteq Sessions
           /\ sessions' \in [DOMAIN sessions' -> Opened]
           /\ lastUse' \in [DOMAIN sessions' -> Nat]
           /\ \E s \in Sessions \ DOMAIN sessions :
                 /\ DOMAIN sessions' = DOMAIN sessions \cup {s}
                 /\ sessions'[s].expires = clock + Idle /\ sessions'[s].absolute = clock + Absolute
                 /\ lastUse'[s] = clock
                 /\ \A t \in DOMAIN sessions : sessions'[t] = sessions[t] /\ lastUse'[t] = lastUse[t]
<1> DEFINE made == [expires |-> clock + Idle, absolute |-> clock + Absolute, revoked |-> FALSE]
<1>1. made \in Opened /\ made.expires = clock + Idle /\ made.absolute = clock + Absolute
  BY Facts, Settings DEF Opened
<1>2. PICK s \in Sessions \ DOMAIN sessions :
        /\ sessions' = [t \in DOMAIN sessions \cup {s} |->
                           IF t \in DOMAIN sessions THEN sessions[t] ELSE made]
        /\ lastUse' = [t \in DOMAIN lastUse \cup {s} |-> IF t = s THEN clock ELSE lastUse[t]]
  BY DEF OpenSession
<1> HIDE DEF made
<1>3. DOMAIN lastUse = DOMAIN sessions /\ clock \in Nat
  BY Facts DEF SessionTypes
<1>4. DOMAIN sessions' = DOMAIN sessions \cup {s} /\ sessions' \in [DOMAIN sessions' -> Opened]
  BY <1>1, <1>2 DEF SessionTypes
<1>5. lastUse' \in [DOMAIN sessions' -> Nat]
  BY <1>2, <1>3, <1>4 DEF SessionTypes
<1>6. /\ sessions'[s] = made /\ lastUse'[s] = clock
      /\ \A t \in DOMAIN sessions : sessions'[t] = sessions[t] /\ lastUse'[t] = lastUse[t]
  BY <1>2, <1>3
<1>7. DOMAIN sessions' \subseteq Sessions
  BY <1>4 DEF SessionTypes
<1> QED BY <1>1, <1>4, <1>5, <1>6, <1>7

(* Every step keeps the types of the sessions and of the limiter's          *)
(* bucket.                                                                  *)
LEMMA SessionKept == SessionTypes /\ Guesses /\ FactorTypes /\ AccountsNext => SessionTypes'
<1> SUFFICES ASSUME SessionTypes, Guesses, FactorTypes, AccountsNext PROVE SessionTypes'
  OBVIOUS
<1> DEFINE Made == /\ DOMAIN sessions' \subseteq Sessions
                   /\ sessions' \in [DOMAIN sessions' -> Opened]
                   /\ lastUse' \in [DOMAIN sessions' -> Nat]
<1>a. ASSUME Made, clock' = clock, signBudget' \in 0..SignIncidents,
             bucket' \in Buckets, bucket'.start <= clock PROVE SessionTypes'
  BY <1>a DEF SessionTypes
<1>b. OpenSession => Made
  BY SessionOpened
<1>c. sessions' = sessions /\ lastUse' = lastUse => Made
  BY DEF SessionTypes
<1>d. /\ signBudget \in 0..SignIncidents /\ bucket \in Buckets /\ bucket.start <= clock
      /\ clock \in Nat /\ clock \in 0..LastTick
      /\ DOMAIN sessions \subseteq Sessions /\ sessions \in [DOMAIN sessions -> Opened]
      /\ lastUse \in [DOMAIN sessions -> Nat]
  BY Facts DEF SessionTypes
<1>e. signBudget > 0 => signBudget - 1 \in 0..SignIncidents
  BY <1>d, Settings
<1>f. NoBucket \in Buckets /\ NoBucket.start <= clock
  BY <1>d DEF NoBucket, Buckets
<1> HIDE DEF Made
<1>1. ASSUME NEW v \in Visitors, NEW p, Arrives(v, p), clock' = clock, sessions' = sessions,
             lastUse' = lastUse, bucket' = bucket PROVE SessionTypes'
  BY <1>1, <1>a, <1>c, <1>d, <1>e DEF Arrives
<1>2. ASSUME NEW v \in Visitors, AskSetup(v) \/ AskLogin(v) \/ AskEnrol(v) \/ AskConfirm(v)
      PROVE SessionTypes'
  BY <1>1, <1>2 DEF AskSetup, AskLogin, AskEnrol, AskConfirm
<1>3. ASSUME NEW v \in Visitors, Setup(v) PROVE SessionTypes'
  BY <1>3, <1>a, <1>b, <1>c, <1>d DEF Setup
<1>4. ASSUME NEW v \in Visitors, WrongGuess(v) PROVE SessionTypes'
  <2>1. v \in SigningIn
    BY <1>4 DEF WrongGuess, SigningIn
  <2>2. bucket' \in Buckets /\ bucket'.start = Counted.start
    BY <1>4, <2>1, Failed DEF WrongGuess
  <2>3. Counted.start = clock \/ Counted.start = bucket.start
    BY <1>d DEF Counted, Buckets
  <2> QED BY <1>4, <1>a, <1>c, <1>d, <2>2, <2>3 DEF WrongGuess
<1>5. ASSUME NEW v \in Visitors, SignIn(v) \/ Recover(v) PROVE SessionTypes'
  BY <1>5, <1>a, <1>b, <1>d, <1>f DEF SignIn, Recover
<1>6. ASSUME NEW v \in Visitors, CodeMissing(v) \/ IssueSecret(v) \/ Activate(v) \/ DisableFactor(v)
      PROVE SessionTypes'
  BY <1>6, <1>a, <1>c, <1>d, <1>e DEF CodeMissing, IssueSecret, Activate, DisableFactor
<1>7. ASSUME NEW s \in DOMAIN sessions, UseSession(s) PROVE SessionTypes'
  <2> DEFINE renewed == Lesser(clock + Idle, sessions[s].absolute)
  <2>1. sessions[s] \in Opened /\ sessions[s].absolute \in Nat
    BY <1>d DEF Opened
  <2>2. renewed \in Nat
    BY <2>1, <1>d, Settings DEF Lesser
  <2>3. sessions' = sessions \/ sessions' = [sessions EXCEPT ![s].expires = renewed]
    BY <1>7 DEF UseSession
  <2> HIDE DEF renewed
  <2>4. [sessions[s] EXCEPT !.expires = renewed] \in Opened
    BY <2>1, <2>2 DEF Opened
  <2>5. lastUse' = [lastUse EXCEPT ![s] = clock]
    BY <1>7 DEF UseSession
  <2>6. Made
    BY <2>3, <2>4, <2>5, <1>d DEF Made
  <2> QED BY <1>7, <1>a, <1>d, <2>6 DEF UseSession
<1>8. ASSUME NEW s \in DOMAIN sessions, Revoke(s) PROVE SessionTypes'
  <2>1. \A t \in DOMAIN sessions : [sessions[t] EXCEPT !.revoked = TRUE] \in Opened
    BY <1>d DEF Opened
  <2>2. \/ sessions' = [sessions EXCEPT ![s].revoked = TRUE]
        \/ sessions' = [t \in DOMAIN sessions |-> IF t = s THEN sessions[t]
                                                  ELSE [sessions[t] EXCEPT !.revoked = TRUE]]
    BY <1>8 DEF Revoke
  <2>3. DOMAIN sessions' = DOMAIN sessions /\ sessions' \in [DOMAIN sessions -> Opened]
    BY <2>1, <2>2, <1>d
  <2>4. Made
    BY <2>3, <1>8, <1>d DEF Made, Revoke
  <2> QED BY <1>8, <1>a, <1>d, <1>e, <2>4 DEF Revoke
<1>9. CASE Prune
  BY <1>9, <1>a, <1>c, <1>d, <1>f DEF Prune
<1>10. CASE Tock
  <2>1. clock' \in 0..LastTick /\ bucket.start <= clock'
    BY <1>10, <1>d, Settings DEF Tock, Buckets
  <2> QED BY <1>10, <1>d, <2>1 DEF Tock, SessionTypes
<1> QED BY <1>2, <1>3, <1>4, <1>5, <1>6, <1>7, <1>8, <1>9, <1>10 DEF AccountsNext

-----------------------------------------------------------------------------
(* One administrator; the factor; the sessions *)

(* The token's row is written with the first account: no second one         *)
(* follows.                                                                 *)
LEMMA AdminKept == OneAdmin /\ AccountsNext => OneAdmin'
<1> SUFFICES ASSUME OneAdmin, AccountsNext PROVE OneAdmin'
  OBVIOUS
<1>1. ASSUME NEW v \in Visitors, Setup(v) PROVE OneAdmin'
  BY <1>1 DEF OneAdmin, Setup
<1>2. admins' = admins /\ consumed' = consumed => OneAdmin'
  BY DEF OneAdmin
<1> QED
  BY <1>1, <1>2
     DEF AccountsNext, AskSetup, AskLogin, WrongGuess, CodeMissing, SignIn, Recover, AskEnrol,
         IssueSecret, AskConfirm, Activate, DisableFactor, UseSession, Revoke, Prune, Tock

(* Without an overlap a request commits what no other has changed, so a     *)
(* code it spent is not stored again.                                       *)
LEMMA AloneKept == FactorTypes /\ Alone /\ AccountsNext => Alone'
<1> SUFFICES ASSUME FactorTypes, Alone, AccountsNext, ~crossed' PROVE Alone'
  BY DEF Alone
<1> DEFINE Cleared == /\ account'.secret = NoSecret => account'.codes = {}
                      /\ spent' \cap account'.codes = {}
<1>a. ~crossed => /\ \A v \in AtWork : visitor[v].row = account
                  /\ \A v, w \in AtWork : v = w
                  /\ account.secret = NoSecret => account.codes = {}
                  /\ spent \cap account.codes = {}
  BY DEF Alone
<1>b. ASSUME NEW v \in Visitors, NEW p \in {"setup", "login", "start", "confirm"}, Arrives(v, p),
             p = "confirm" => account.pending \in Secrets, account' = account, spent' = spent
      PROVE  Alone'
  <2>1. ~crossed /\ AtWork = {}
    BY <1>b DEF Arrives, FactorTypes
  <2>2. AtWork' = {v} /\ visitor'[v].row = account
    BY <1>b, <2>1, Came
  <2> QED BY <1>a, <1>b, <2>1, <2>2 DEF Alone
<1>c. ASSUME NEW v \in Visitors, visitor[v].pc # "idle", Leaves(v), crossed' = crossed,
             Cleared
      PROVE  Alone'
  <2>1. ~crossed /\ AtWork' = AtWork \ {v} /\ v \in AtWork
    BY <1>c, Left
  <2>2. AtWork' = {}
    BY <2>1, <1>a
  <2> QED BY <1>c, <2>2 DEF Alone
<1>d. ~crossed /\ account' = account /\ spent' = spent => Cleared
  BY <1>a
<1>e. ~crossed /\ account' = account /\ spent' = spent /\ visitor' = visitor => Alone'
  <2> SUFFICES ASSUME ~crossed, account' = account, spent' = spent, visitor' = visitor PROVE Alone'
    OBVIOUS
  <2>1. AtWork' = AtWork
    BY DEF AtWork
  <2> QED BY <1>a, <2>1 DEF Alone
<1> HIDE DEF Cleared
<1>1. ASSUME NEW v \in Visitors, AskSetup(v) \/ AskLogin(v) \/ AskEnrol(v) PROVE Alone'
  BY <1>1, <1>b DEF AskSetup, AskLogin, AskEnrol
<1>2. ASSUME NEW v \in Visitors, AskConfirm(v) PROVE Alone'
  BY <1>2, <1>b DEF AskConfirm, FactorTypes, Rows
<1>3. ASSUME NEW v \in Visitors, Setup(v) \/ WrongGuess(v) \/ CodeMissing(v) \/ SignIn(v) PROVE Alone'
  BY <1>3, <1>c, <1>d DEF Setup, WrongGuess, CodeMissing, SignIn
<1>4. ASSUME NEW v \in Visitors, Recover(v) PROVE Alone'
  <2>1. ~crossed /\ v \in AtWork /\ visitor[v].row = account
    BY <1>4, <1>a DEF Recover, AtWork
  <2>2. PICK c \in account.codes : /\ account' = [account EXCEPT !.codes = account.codes \ {c}]
                                   /\ spent' = spent \cup {c}
    BY <1>4, <2>1 DEF Recover
  <2>3. account'.secret = account.secret /\ account'.codes = account.codes \ {c}
    BY <2>2 DEF FactorTypes, Rows
  <2>4. Cleared
    BY <1>a, <2>1, <2>2, <2>3 DEF Cleared
  <2> QED BY <1>4, <1>c, <2>4 DEF Recover
<1>5. ASSUME NEW v \in Visitors, IssueSecret(v) PROVE Alone'
  <2>1. account'.secret = account.secret /\ account'.codes = account.codes
    BY <1>5 DEF IssueSecret, FactorTypes, Rows
  <2>2. Cleared
    BY <1>5, <1>a, <2>1 DEF Cleared, IssueSecret
  <2> QED BY <1>5, <1>c, <2>2 DEF IssueSecret
<1>6. ASSUME NEW v \in Visitors, Activate(v) PROVE Alone'
  <2>1. visitor[v].row.pending # NoSecret
    BY <1>6, Settings DEF Activate, FactorTypes
  <2>2. account'.secret = visitor[v].row.pending /\ account'.codes = Codes \ spent
    BY <1>6 DEF Activate
  <2>3. Cleared
    BY <1>6, <2>1, <2>2 DEF Cleared, Activate
  <2> QED BY <1>6, <1>c, <2>3 DEF Activate
<1>7. ASSUME NEW v \in Visitors, DisableFactor(v) PROVE Alone'
  <2>1. account'.codes = {} /\ AtWork = {} /\ visitor' = visitor
    BY <1>7 DEF DisableFactor, FactorTypes
  <2>2. AtWork' = {}
    BY <2>1 DEF AtWork
  <2> QED BY <2>1, <2>2 DEF Alone
<1>8. ASSUME NEW s \in DOMAIN sessions, UseSession(s) \/ Revoke(s) PROVE Alone'
  BY <1>8, <1>e DEF UseSession, Revoke
<1>9. CASE Prune \/ Tock
  BY <1>9, <1>e DEF Prune, Tock
<1> QED
  BY <1>1, <1>2, <1>3, <1>4, <1>5, <1>6, <1>7, <1>8, <1>9 DEF AccountsNext

(* A secret becomes active only by the request that checked its code.       *)
LEMMA ProvenKept == FactorTypes /\ ActiveIsProven /\ AccountsNext => ActiveIsProven'
<1> SUFFICES ASSUME FactorTypes, ActiveIsProven, AccountsNext PROVE ActiveIsProven'
  OBVIOUS
<1>1. account'.secret = account.secret /\ proven' = proven => ActiveIsProven'
  BY DEF ActiveIsProven
<1>2. ASSUME NEW v \in Visitors, Recover(v) \/ IssueSecret(v) PROVE ActiveIsProven'
  BY <1>1, <1>2 DEF Recover, IssueSecret, FactorTypes, Rows
<1>3. ASSUME NEW v \in Visitors, Activate(v) PROVE ActiveIsProven'
  BY <1>3 DEF Activate, ActiveIsProven
<1>4. ASSUME NEW v \in Visitors, DisableFactor(v) PROVE ActiveIsProven'
  BY <1>4 DEF DisableFactor, ActiveIsProven
<1> QED
  BY <1>1, <1>2, <1>3, <1>4
     DEF AccountsNext, AskSetup, Setup, AskLogin, WrongGuess, CodeMissing, SignIn, AskEnrol,
         AskConfirm, UseSession, Revoke, Prune, Tock

(* What is stored of a session lags behind its last use by less than the    *)
(* granularity.                                                             *)
LEMMA StaysKept == SessionTypes /\ ActiveStaysIn /\ AccountsNext => ActiveStaysIn'
<1> SUFFICES ASSUME SessionTypes, ActiveStaysIn, AccountsNext PROVE ActiveStaysIn'
  OBVIOUS
<1>a. /\ clock \in Nat /\ DOMAIN lastUse = DOMAIN sessions
      /\ \A s \in DOMAIN sessions : /\ sessions[s] \in Opened
                                    /\ sessions[s].expires \in Nat /\ sessions[s].absolute \in Nat
                                    /\ lastUse[s] \in Nat
  BY Facts DEF SessionTypes, Opened
<1>b. sessions' = sessions /\ lastUse' = lastUse => ActiveStaysIn'
  BY DEF ActiveStaysIn
<1>1. ASSUME OpenSession PROVE ActiveStaysIn'
  <2>1. PICK s \in Sessions \ DOMAIN sessions :
          /\ DOMAIN sessions' = DOMAIN sessions \cup {s}
          /\ sessions'[s].expires = clock + Idle /\ sessions'[s].absolute = clock + Absolute
          /\ lastUse'[s] = clock
          /\ \A t \in DOMAIN sessions : sessions'[t] = sessions[t] /\ lastUse'[t] = lastUse[t]
    BY <1>1, SessionOpened
  <2>2. clock + Idle > Lesser(clock + Idle, clock + Absolute) - Granularity
    BY <1>a, Settings DEF Lesser
  <2> QED BY <2>1, <2>2 DEF ActiveStaysIn
<1>2. ASSUME NEW s \in DOMAIN sessions, UseSession(s) PROVE ActiveStaysIn'
  <2> DEFINE renewed == Lesser(clock + Idle, sessions[s].absolute)
  <2>1. renewed \in Nat
    BY <1>a, Settings DEF Lesser
  <2>2. sessions' = IF renewed - sessions[s].expires >= Granularity
                    THEN [sessions EXCEPT ![s].expires = renewed] ELSE sessions
    BY <1>2 DEF UseSession
  <2>3. DOMAIN sessions' = DOMAIN sessions /\ lastUse'[s] = clock
        /\ \A t \in DOMAIN sessions \ {s} : sessions'[t] = sessions[t] /\ lastUse'[t] = lastUse[t]
    BY <2>2, <1>2, <1>a DEF UseSession
  <2>4. sessions'[s].absolute = sessions[s].absolute
    BY <2>2, <1>a DEF Opened
  <2>5. sessions'[s].expires > renewed - Granularity
    <3>1. CASE renewed - sessions[s].expires >= Granularity
      <4>1. sessions'[s].expires = renewed
        BY <3>1, <2>2, <1>a DEF Opened
      <4> QED BY <4>1, <2>1, Settings
    <3>2. CASE ~ (renewed - sessions[s].expires >= Granularity)
      <4>1. sessions'[s].expires = sessions[s].expires
        BY <3>2, <2>2
      <4> QED BY <3>2, <4>1, <2>1, <1>a, Settings
    <3> QED BY <3>1, <3>2
  <2>6. sessions'[s].expires > Lesser(lastUse'[s] + Idle, sessions'[s].absolute) - Granularity
    BY <2>3, <2>4, <2>5
  <2> QED BY <2>3, <2>6 DEF ActiveStaysIn
<1>3. ASSUME NEW s \in DOMAIN sessions, Revoke(s) PROVE ActiveStaysIn'
  <2>1. \/ sessions' = [sessions EXCEPT ![s].revoked = TRUE]
        \/ sessions' = [t \in DOMAIN sessions |-> IF t = s THEN sessions[t]
                                                  ELSE [sessions[t] EXCEPT !.revoked = TRUE]]
    BY <1>3 DEF Revoke
  <2>2. DOMAIN sessions' = DOMAIN sessions
        /\ \A t \in DOMAIN sessions : /\ sessions'[t].expires = sessions[t].expires
                                      /\ sessions'[t].absolute = sessions[t].absolute
    BY <2>1, <1>a DEF Opened
  <2> QED BY <2>2, <1>3 DEF ActiveStaysIn, Revoke
<1> QED
  BY <1>b, <1>1, <1>2, <1>3
     DEF AccountsNext, AskSetup, Setup, AskLogin, WrongGuess, CodeMissing, SignIn, Recover, AskEnrol,
         IssueSecret, AskConfirm, Activate, DisableFactor, Prune, Tock

(* Every step keeps the limiter's invariant.                                *)
LEMMA GuessesKept == FactorTypes /\ SessionTypes /\ Guesses /\ AccountsNext => Guesses'
<1> SUFFICES ASSUME FactorTypes, SessionTypes, Guesses, AccountsNext PROVE Guesses'
  OBVIOUS
<1>a. signBudget \in Nat /\ InFlight \in Nat /\ InFlight <= InFlight
  BY Facts, Flights
<1>b. signBudget > 0 => signBudget - 1 \in Nat /\ signBudget - 1 <= signBudget
  BY <1>a
<1>c. ASSUME NEW v \in Visitors, visitor[v].pc # "idle", Leaves(v), signBudget' = signBudget,
             clock' = clock, bucket' = bucket \/ bucket' = NoBucket
      PROVE  Guesses'
  <2>1. InFlight' \in Nat /\ InFlight' <= InFlight
    BY <1>c, Left, FewerInFlight
  <2>2. signBudget' \in Nat /\ signBudget' <= signBudget
    BY <1>c, <1>a
  <2> QED BY <1>c, <2>1, <2>2, GuessesSame, GuessesForgotten
<1>d. ASSUME visitor' = visitor, bucket' = bucket \/ bucket' = NoBucket, clock' = clock,
             signBudget' = signBudget \/ (signBudget > 0 /\ signBudget' = signBudget - 1)
      PROVE  Guesses'
  <2>1. InFlight' = InFlight
    BY <1>d, Flights DEF SigningIn
  <2>2. /\ InFlight' \in Nat /\ InFlight' <= InFlight
        /\ signBudget' \in Nat /\ signBudget' <= signBudget
    BY <2>1, <1>a, <1>b, <1>d
  <2> QED BY <1>d, <2>2, GuessesSame, GuessesForgotten
<1>e. ASSUME NEW v \in Visitors, NEW p \in {"setup", "start", "confirm"}, Arrives(v, p),
             p = "confirm" => account.pending \in Secrets, bucket' = bucket, clock' = clock
      PROVE  Guesses'
  <2>1. InFlight' = InFlight
    BY <1>e, Came, Flights
  <2>2. /\ InFlight' \in Nat /\ InFlight' <= InFlight
        /\ signBudget' \in Nat /\ signBudget' <= signBudget
    BY <2>1, <1>a, <1>b, <1>e DEF Arrives
  <2> QED BY <1>e, <2>2, GuessesSame
<1>1. ASSUME NEW v \in Visitors, AskSetup(v) \/ AskEnrol(v) PROVE Guesses'
  BY <1>1, <1>e DEF AskSetup, AskEnrol
<1>2. ASSUME NEW v \in Visitors, AskConfirm(v) PROVE Guesses'
  BY <1>2, <1>e DEF AskConfirm, FactorTypes, Rows
<1>3. ASSUME NEW v \in Visitors, AskLogin(v) PROVE Guesses'
  <2>1. SigningIn' = SigningIn \cup {v} /\ v \notin SigningIn
    BY <1>3, Came DEF AskLogin
  <2>2. InFlight' = InFlight + 1
    BY <2>1, Flights
  <2>3. InFlight' \in Nat /\ InFlight' <= Crowd
    <3>1. IsFiniteSet(Visitors) /\ SigningIn' \subseteq Visitors
      BY <2>1, AccountsAssumption DEF AccountsAssumption, SigningIn
    <3>2. Cardinality(SigningIn') <= Cardinality(Visitors)
      BY <3>1, FS_Subset
    <3> QED BY <3>2, <2>2, <1>a DEF InFlight, Crowd
  <2> QED BY <1>3, <2>2, <2>3, GuessesJoined DEF AskLogin, Arrives
<1>4. ASSUME NEW v \in Visitors, WrongGuess(v) PROVE Guesses'
  <2>1. v \in SigningIn /\ SigningIn' = SigningIn \ {v}
    BY <1>4, Left DEF WrongGuess, SigningIn
  <2>2. InFlight' = InFlight - 1 /\ InFlight' \in Nat
    BY <2>1, Flights, FewerInFlight
  <2> QED BY <1>4, <2>1, <2>2, GuessesFailed DEF WrongGuess
<1>5. ASSUME NEW v \in Visitors,
             Setup(v) \/ CodeMissing(v) \/ SignIn(v) \/ Recover(v) \/ IssueSecret(v) \/ Activate(v)
      PROVE  Guesses'
  BY <1>5, <1>c DEF Setup, CodeMissing, SignIn, Recover, IssueSecret, Activate
<1>6. ASSUME NEW v \in Visitors, DisableFactor(v) PROVE Guesses'
  BY <1>6, <1>d DEF DisableFactor
<1>7. ASSUME NEW s \in DOMAIN sessions, UseSession(s) \/ Revoke(s) PROVE Guesses'
  BY <1>7, <1>d DEF UseSession, Revoke
<1>8. CASE Prune
  BY <1>8, <1>d DEF Prune
<1>9. CASE Tock
  <2>1. InFlight' = InFlight
    BY <1>9, Flights DEF Tock, SigningIn
  <2> QED BY <1>9, <2>1, GuessesTick DEF Tock
<1> QED BY <1>1, <1>2, <1>3, <1>4, <1>5, <1>6, <1>7, <1>8, <1>9 DEF AccountsNext

-----------------------------------------------------------------------------
(* The invariant *)

(* The invariant holds at first.                                            *)
LEMMA AccountsStart == AccountsInit => AccountsInv
<1> SUFFICES ASSUME AccountsInit PROVE AccountsInv
  OBVIOUS
<1>1. /\ clock = 0 /\ admins = {} /\ consumed = FALSE /\ account = Idler.row
      /\ sessions = << >> /\ lastUse = << >> /\ bucket = NoBucket
      /\ visitor = [v \in Visitors |-> Idler]
      /\ proven = {} /\ spent = {} /\ crossed = FALSE /\ signBudget = SignIncidents
  BY DEF AccountsInit
<1>2. Idler \in Visits /\ Idler.row \in Rows /\ Idler.pc = "idle" /\ NoBucket \in Buckets
  BY DEF Idler, Visits, Rows, NoBucket, Buckets
<1>3. Idler.row.secret = NoSecret /\ Idler.row.codes = {}
  BY DEF Idler
<1>4. FactorTypes
  BY <1>1, <1>2 DEF FactorTypes
<1>5. DOMAIN sessions = {} /\ sessions \in [{} -> Opened] /\ lastUse \in [{} -> Nat]
  BY <1>1
<1>6. SessionTypes
  BY <1>1, <1>2, <1>5, Settings DEF SessionTypes, NoBucket
<1>7. OneAdmin
  BY <1>1 DEF OneAdmin
<1>8. AtWork = {} /\ SigningIn = {}
  BY <1>1, <1>2 DEF AtWork, SigningIn
<1>9. Alone
  BY <1>1, <1>3, <1>8 DEF Alone
<1>10. ActiveIsProven /\ ActiveStaysIn
  BY <1>1, <1>3, <1>5 DEF ActiveIsProven, ActiveStaysIn
<1>11. Guesses
  <2>1. InFlight = 0 /\ bucket.n = 0 /\ bucket.start = 0
    BY <1>1, <1>8, FS_EmptySet DEF InFlight, NoBucket
  <2>2. Asked /\ MayCome
    BY <1>1, <2>1, Settings DEF Asked, MayCome
  <2>3. Locks(clock) \in Nat /\ Lesser(Window, clock - bucket.start) \div BaseLock \in Nat
    BY <1>1, <1>6, <2>1, Facts
  <2>4. MayFail
    BY <2>1, <2>3, Bounds DEF MayFail
  <2>5. GuessesBounded
    BY <2>1, <2>3, Bounds, Bounded
  <2> QED BY <2>2, <2>4, <2>5 DEF Guesses
<1> QED BY <1>4, <1>6, <1>7, <1>9, <1>10, <1>11 DEF AccountsInv

(* The other parts of Front leave the invariant alone.                      *)
LEMMA AccountsStill == AccountsInv /\ UNCHANGED accountVars => AccountsInv'
<1> SUFFICES ASSUME AccountsInv, UNCHANGED accountVars PROVE AccountsInv'
  OBVIOUS
<1>1. FactorTypes' /\ SessionTypes' /\ OneAdmin'
  BY DEF AccountsInv, accountVars, FactorTypes, SessionTypes, OneAdmin
<1>2. Alone' /\ ActiveIsProven' /\ ActiveStaysIn'
  BY DEF AccountsInv, accountVars, Alone, AtWork, ActiveIsProven, ActiveStaysIn
<1>3. Guesses'
  BY DEF AccountsInv, accountVars, Guesses, MayFail, MayCome, Asked, GuessesBounded, Locks, Bound,
         Crowd, InFlight, SigningIn
<1> QED BY <1>1, <1>2, <1>3 DEF AccountsInv

(* Every step of the accounts keeps the invariant.                          *)
LEMMA AccountsStep == AccountsInv /\ AccountsNext => AccountsInv'
  BY FactorKept, SessionKept, AdminKept, AloneKept, ProvenKept, StaysKept, GuessesKept DEF AccountsInv

(* The invariant says what the run checks.                                  *)
LEMMA AccountsShown == AccountsInv => AccountsCorrect
<1> SUFFICES ASSUME AccountsInv PROVE AccountsCorrect
  OBVIOUS
<1>1. AccountsTypeOK
  <2>1. account \in Rows /\ bucket \in Buckets
    BY DEF AccountsInv, FactorTypes, SessionTypes
  <2>2. account.secret \in Secrets \cup {NoSecret} /\ account.codes \subseteq Codes /\ bucket.n \in Nat
    BY <2>1 DEF Rows, Buckets
  <2>3. ~crossed /\ account.secret = NoSecret => account.codes = {}
    BY DEF AccountsInv, Alone
  <2> QED BY <2>2, <2>3 DEF AccountsInv, SessionTypes, OneAdmin, AccountsTypeOK
<1>2. OneFirstAdmin
  <2>1. CASE admins = {}
    <3>1. Cardinality(admins) = 0
      BY <2>1, FS_EmptySet
    <3> QED BY <3>1 DEF OneFirstAdmin
  <2>2. ASSUME NEW v \in Visitors, admins = {v} PROVE OneFirstAdmin
    <3>1. Cardinality(admins) = 1
      BY <2>2, FS_Singleton
    <3> QED BY <3>1 DEF OneFirstAdmin
  <2> QED BY <2>1, <2>2 DEF AccountsInv, OneAdmin
<1>3. CodesSpent
  BY DEF AccountsInv, Alone, CodesSpent
<1> QED BY <1>1, <1>2, <1>3 DEF AccountsInv, AccountsCorrect, Guesses

(* In every behaviour of Front the accounts are right (auth/router.py,      *)
(* auth/service.py, auth/ratelimit.py): first-run setups that overlap       *)
(* make one administrator, the active second factor is one whose code was   *)
(* checked, a recovery code accepted is not stored again, a session in      *)
(* use outlives its idle life, and wrong guesses in a window are bounded    *)
(* by the locks that have passed.                                           *)
THEOREM AccountsHold == FrontSpec => []AccountsCorrect
<1>1. FrontInit => AccountsInv
  BY AccountsStart DEF FrontInit
<1>2. FrontNext => AccountsNext \/ UNCHANGED accountVars
  BY DEF FrontNext, ItemsMove, AccountsMove, SearchMoves, GrabsMove, OrganizerMoves, CurateMoves
<1>3. UNCHANGED frontVars => UNCHANGED accountVars
  BY DEF frontVars
<1>4. AccountsInv /\ [FrontNext]_frontVars => AccountsInv'
  BY <1>2, <1>3, AccountsStep, AccountsStill
<1> QED BY <1>1, <1>4, AccountsShown, PTL DEF FrontSpec
-----------------------------------------------------------------------------
(* The stills of the panel.                                                 *)

(* A request that is under way wants a still, and has no answer yet.        *)
AskRows == [at : {"idle", "waiting", "locked", "counting", "measuring", "writing"},
            want : Stills \cup {<< >>},
            answer : {"none", "still", "too many", "no space", "failed"}]

AskTypes ==
    /\ ask \in [Asks -> AskRows]
    /\ \A r \in Asks : ask[r].at # "idle" => ask[r].want \in Stills /\ ask[r].answer = "none"
DiskTypes ==
    /\ stills \subseteq Stills /\ complete = stills
    /\ IsFiniteSet(leaked) /\ grabBudget \in 0..GrabIncidents

(* The lock, the slots, and the second look under the lock.                 *)
OneEach == \A q, r \in Locked : VideoOf(ask[q].want) = VideoOf(ask[r].want) => q = r
SlotsHeld == Cardinality(Slotted) <= GrabSlots
LookedAgain == \A r \in Slotted : ask[r].want \notin stills

(* What was counted is still so when the space is measured.                 *)
RoomLeft ==
    \A s \in Stills, r \in Asks :
        ask[r].at = "measuring" /\ ask[r].want = s => FilesOf(VideoOf(s)) < MaxGrabs

GrabsInv ==
    AskTypes /\ DiskTypes /\ OneEach /\ SlotsHeld /\ LookedAgain /\ RoomLeft /\ CapHeld /\ FloorHeld

(* The three kinds of files of a video. *)
InPlace(v) == {s \in stills : VideoOf(s) = v}
Lost(v)    == {l \in leaked : l[1] = v}
Coming(v)  == {r \in Writing : VideoOf(ask[r].want) = v /\ ask[r].want \notin stills}

(* What the constants are.                                                  *)
LEMMA GrabSettings ==
    /\ MaxGrabs \in Nat \ {0} /\ GrabSlots \in Nat \ {0} /\ GrabIncidents \in Nat
    /\ DiskUnits \in Nat /\ FreeFloor \in Nat /\ IsFiniteSet(Stills) /\ IsFiniteSet(Asks)
  BY GrabsAssumption DEF GrabsAssumption

(* All that is counted is finite, and a video's files are of three kinds.   *)
LEMMA Counts ==
    ASSUME DiskTypes
    PROVE  /\ IsFiniteSet(stills) /\ Cardinality(stills) \in Nat /\ Cardinality(leaked) \in Nat
           /\ IsFiniteSet(Writing) /\ Cardinality(Writing) \in Nat
           /\ IsFiniteSet(Slotted) /\ Cardinality(Slotted) \in Nat
           /\ Cardinality(Writing) <= Cardinality(Slotted)
           /\ FreeUnits \in Int
           /\ \A v : /\ IsFiniteSet(InPlace(v)) /\ IsFiniteSet(Lost(v)) /\ IsFiniteSet(Coming(v))
                     /\ Cardinality(InPlace(v)) \in Nat /\ Cardinality(Lost(v)) \in Nat
                     /\ Cardinality(Coming(v)) \in Nat /\ FilesOf(v) \in Nat
                     /\ FilesOf(v) = Cardinality(InPlace(v)) + Cardinality(Lost(v))
                                     + Cardinality(Coming(v))
<1>1. IsFiniteSet(stills) /\ IsFiniteSet(leaked)
  BY GrabSettings, FS_Subset DEF DiskTypes
<1>2. Slotted \subseteq Asks /\ Writing \subseteq Slotted
  BY DEF Slotted, Writing
<1>3. IsFiniteSet(Slotted)
  BY <1>2, GrabSettings, FS_Subset
<1>4. IsFiniteSet(Writing) /\ Cardinality(Writing) <= Cardinality(Slotted)
  BY <1>2, <1>3, FS_Subset
<1>5. /\ Cardinality(stills) \in Nat /\ Cardinality(leaked) \in Nat
      /\ Cardinality(Writing) \in Nat /\ Cardinality(Slotted) \in Nat
  BY <1>1, <1>3, <1>4, FS_CardinalityType
<1>6. FreeUnits \in Int
  BY <1>5, GrabSettings DEF FreeUnits
<1>7. ASSUME NEW v
      PROVE  /\ IsFiniteSet(InPlace(v)) /\ IsFiniteSet(Lost(v)) /\ IsFiniteSet(Coming(v))
             /\ Cardinality(InPlace(v)) \in Nat /\ Cardinality(Lost(v)) \in Nat
             /\ Cardinality(Coming(v)) \in Nat /\ FilesOf(v) \in Nat
             /\ FilesOf(v) = Cardinality(InPlace(v)) + Cardinality(Lost(v)) + Cardinality(Coming(v))
  <2>1. InPlace(v) \subseteq stills /\ Lost(v) \subseteq leaked /\ Coming(v) \subseteq Writing
    BY DEF InPlace, Lost, Coming
  <2>2. IsFiniteSet(InPlace(v)) /\ IsFiniteSet(Lost(v)) /\ IsFiniteSet(Coming(v))
    BY <2>1, <1>1, <1>4, FS_Subset
  <2>3. FilesOf(v) = Cardinality(InPlace(v)) + Cardinality(Lost(v)) + Cardinality(Coming(v))
    BY DEF FilesOf, InPlace, Lost, Coming
  <2> QED BY <2>2, <2>3, FS_CardinalityType
<1> QED BY <1>1, <1>3, <1>4, <1>5, <1>6, <1>7

(* The same count after a step.                                             *)
LEMMA FilesThen ==
    \A v : FilesOf(v)' = Cardinality(InPlace(v)') + Cardinality(Lost(v)') + Cardinality(Coming(v)')
  BY DEF FilesOf, InPlace, Lost, Coming

(* A step that writes no file and moves no writer.                          *)
LEMMA NothingWritten ==
    ASSUME DiskTypes, stills' = stills, leaked' = leaked, Writing' = Writing,
           \A q \in Writing : ask'[q].want = ask[q].want
    PROVE  /\ \A v : FilesOf(v)' = FilesOf(v)
           /\ CapHeld => CapHeld'
           /\ FloorHeld => FloorHeld'
<1>1. ASSUME NEW v PROVE FilesOf(v)' = FilesOf(v)
  <2>1. InPlace(v)' = InPlace(v) /\ Lost(v)' = Lost(v) /\ Coming(v)' = Coming(v)
    BY DEF InPlace, Lost, Coming
  <2> QED BY <2>1, FilesThen, Counts
<1>2. FreeUnits' = FreeUnits
  BY DEF FreeUnits
<1>3. CapHeld => CapHeld'
  <2> SUFFICES ASSUME CapHeld, NEW s \in Stills PROVE FilesOf(VideoOf(s))' <= MaxGrabs
    BY DEF CapHeld, VideoOf
  <2> QED BY <1>1 DEF CapHeld
<1>4. FloorHeld => FloorHeld'
  BY <1>2 DEF FloorHeld
<1> QED BY <1>1, <1>3, <1>4

(* A request that moves on without writing. *)
LEMMA GrabMoves ==
    ASSUME GrabsInv, NEW r \in Asks, ask' \in [Asks -> AskRows],
           \A q \in Asks \ {r} : ask'[q] = ask[q],
           ask[r].at # "writing", ask'[r].at # "writing",
           ask'[r].at # "idle" => ask'[r].want \in Stills /\ ask'[r].answer = "none",
           UNCHANGED <<stills, complete, leaked>>, grabBudget' \in 0..GrabIncidents,
           ask'[r].at \in {"locked", "counting", "measuring"} =>
               ask'[r].want = ask[r].want /\ (r \in Locked \/ LockIsFree(VideoOf(ask[r].want))),
           ask'[r].at \in {"counting", "measuring"} =>
               ask[r].want \notin stills /\ (r \in Slotted \/ SlotIsFree),
           ask'[r].at = "measuring" => FilesOf(VideoOf(ask[r].want)) < MaxGrabs
    PROVE  GrabsInv'
<1>1. \A q \in Asks : ask'[q].at \in {"idle", "waiting", "locked", "counting", "measuring", "writing"}
  BY DEF AskRows
<1>2. AskTypes' /\ DiskTypes'
  BY DEF GrabsInv, AskTypes, DiskTypes
<1>3. Writing' = Writing /\ \A q \in Writing : ask'[q].want = ask[q].want
  BY <1>1 DEF Writing
<1>4. /\ \A v : FilesOf(v)' = FilesOf(v)
      /\ CapHeld' /\ FloorHeld'
  BY <1>3, NothingWritten DEF GrabsInv
<1>5. OneEach'
  <2>1. \A s \in Asks \ {r} : s \in Locked' => s \in Locked /\ ask'[s].want = ask[s].want
    BY DEF Locked, Slotted
  <2>2. r \in Locked' => /\ ask'[r].at \in {"locked", "counting", "measuring"}
                         /\ ask'[r].want = ask[r].want
                         /\ (r \in Locked \/ LockIsFree(VideoOf(ask[r].want)))
    BY <1>1 DEF Locked, Slotted
  <2>3. \A s \in Locked : LockIsFree(VideoOf(ask[r].want)) => VideoOf(ask[s].want) # VideoOf(ask[r].want)
    BY DEF LockIsFree
  <2>4. \A p, q \in Locked : VideoOf(ask[p].want) = VideoOf(ask[q].want) => p = q
    BY DEF GrabsInv, OneEach
  <2>5. Locked \subseteq Asks /\ Locked' \subseteq Asks
    BY DEF Locked, Slotted
  <2>6. ASSUME NEW p \in Locked', NEW q \in Locked', ask'[p].want[1] = ask'[q].want[1], p # q
        PROVE  FALSE
    <3>1. ask'[p].want = ask[p].want /\ ask'[q].want = ask[q].want
      BY <2>1, <2>2, <2>5
    <3>2. VideoOf(ask[p].want) = VideoOf(ask[q].want)
      BY <2>6, <3>1 DEF VideoOf
    <3> QED BY <2>1, <2>2, <2>3, <2>4, <2>5, <2>6, <3>2
  <2> QED BY <2>6 DEF OneEach, VideoOf
<1>6. SlotsHeld'
  <2> DEFINE after == Cardinality(Slotted')
  <2>1. /\ Cardinality(Slotted) \in Nat /\ Cardinality(Slotted) <= GrabSlots /\ GrabSlots \in Nat
        /\ IsFiniteSet(Slotted)
    BY Counts, GrabSettings DEF GrabsInv, SlotsHeld
  <2>2. CASE ask'[r].at \in {"counting", "measuring"} /\ r \notin Slotted
    <3>1. Slotted' = Slotted \cup {r}
      BY <2>2 DEF Slotted
    <3>2. after = Cardinality(Slotted) + 1
      BY <2>1, <2>2, <3>1, FS_AddElement
    <3>3. Cardinality(Slotted) < GrabSlots
      BY <2>2 DEF SlotIsFree
    <3> HIDE DEF after
    <3>4. after <= GrabSlots
      BY <2>1, <3>2, <3>3
    <3> QED BY <3>4 DEF SlotsHeld, after
  <2>3. CASE ~ (ask'[r].at \in {"counting", "measuring"} /\ r \notin Slotted)
    <3>1. Slotted' \subseteq Slotted
      BY <2>3 DEF Slotted
    <3>2. after <= Cardinality(Slotted) /\ after \in Nat
      BY <2>1, <3>1, FS_Subset, FS_CardinalityType
    <3> HIDE DEF after
    <3>4. after <= GrabSlots
      BY <2>1, <3>2
    <3> QED BY <3>4 DEF SlotsHeld, after
  <2> QED BY <2>2, <2>3
<1>7. LookedAgain'
  BY DEF GrabsInv, LookedAgain, Slotted
<1>8. RoomLeft'
  <2> SUFFICES ASSUME NEW s \in Stills, NEW q \in Asks, ask'[q].at = "measuring", ask'[q].want = s
               PROVE  FilesOf(VideoOf(s))' < MaxGrabs
    BY DEF RoomLeft
  <2>1. FilesOf(VideoOf(s)) < MaxGrabs
    BY DEF GrabsInv, RoomLeft
  <2> QED BY <1>4, <2>1
<1> QED BY <1>2, <1>4, <1>5, <1>6, <1>7, <1>8 DEF GrabsInv

(* A new request.                                                           *)
LEMMA AskKeeps ==
    ASSUME GrabsInv, NEW r \in Asks, NEW s \in Stills, AskFor(r, s)
    PROVE  GrabsInv'
<1> DEFINE new == IF s \in stills THEN [at |-> "idle", want |-> s, answer |-> "still"]
                  ELSE [at |-> "waiting", want |-> s, answer |-> "none"]
<1>1. ask' = [ask EXCEPT ![r] = new] /\ ask[r].at = "idle"
  BY DEF AskFor
<1>2. grabBudget' \in 0..GrabIncidents
  BY GrabSettings DEF AskFor, GrabIncident, GrabsInv, DiskTypes
<1>3. /\ new \in AskRows /\ new.at \in {"idle", "waiting"}
      /\ new.at # "idle" => new.want \in Stills /\ new.answer = "none"
  BY DEF AskRows
<1>4. UNCHANGED <<stills, complete, leaked>>
  BY DEF AskFor
<1> HIDE DEF new
<1>5. ask' \in [Asks -> AskRows] /\ ask'[r] = new /\ \A q \in Asks \ {r} : ask'[q] = ask[q]
  BY <1>1, <1>3 DEF GrabsInv, AskTypes
<1> QED BY <1>1, <1>2, <1>3, <1>4, <1>5, GrabMoves

(* What a step of a request does to its row. *)
LEMMA GrabSteps ==
    ASSUME AskTypes, NEW r \in Asks
    PROVE  /\ \A at \in {"locked", "counting", "measuring", "writing"} :
                 Goes(r, at) => /\ ask' \in [Asks -> AskRows] /\ ask'[r].at = at
                                /\ ask'[r].want = ask[r].want /\ ask'[r].answer = ask[r].answer
                                /\ \A q \in Asks \ {r} : ask'[q] = ask[q]
           /\ \A answer \in {"still", "too many", "no space", "failed"} :
                 Answered(r, answer) => /\ ask' \in [Asks -> AskRows] /\ ask'[r].at = "idle"
                                        /\ ask'[r].want = ask[r].want /\ ask'[r].answer = answer
                                        /\ \A q \in Asks \ {r} : ask'[q] = ask[q]
<1>1. ASSUME NEW at \in {"locked", "counting", "measuring", "writing"}, Goes(r, at)
      PROVE  /\ ask' \in [Asks -> AskRows] /\ ask'[r].at = at
             /\ ask'[r].want = ask[r].want /\ ask'[r].answer = ask[r].answer
             /\ \A q \in Asks \ {r} : ask'[q] = ask[q]
  BY <1>1 DEF Goes, AskTypes, AskRows
<1>2. ASSUME NEW answer \in {"still", "too many", "no space", "failed"}, Answered(r, answer)
      PROVE  /\ ask' \in [Asks -> AskRows] /\ ask'[r].at = "idle"
             /\ ask'[r].want = ask[r].want /\ ask'[r].answer = answer
             /\ \A q \in Asks \ {r} : ask'[q] = ask[q]
  BY <1>2 DEF Answered, AskTypes, AskRows
<1> QED BY <1>1, <1>2

(* A request on its way to the space check.                                 *)
LEMMA LockKeeps ==
    ASSUME GrabsInv, NEW r \in Asks, TakeLock(r) \/ TakeSlot(r) \/ Count(r)
    PROVE  GrabsInv'
<1>1. /\ AskTypes /\ ask[r].at \in {"waiting", "locked", "counting"}
      /\ ask[r].want \in Stills /\ ask[r].answer = "none"
  BY DEF GrabsInv, AskTypes, TakeLock, TakeSlot, Count
<1>2. UNCHANGED <<stills, complete, leaked>> /\ grabBudget' \in 0..GrabIncidents
  BY DEF TakeLock, TakeSlot, Count, Unwritten, GrabsInv, DiskTypes
<1>3. CASE TakeLock(r)
  <2>1. Goes(r, "locked") /\ LockIsFree(VideoOf(ask[r].want))
    BY <1>3 DEF TakeLock
  <2> QED BY <1>1, <1>2, <2>1, GrabSteps, GrabMoves
<1>4. CASE TakeSlot(r)
  <2>1. r \in Locked /\ SlotIsFree
    BY <1>4 DEF TakeSlot, Locked
  <2>2. CASE ask[r].want \in stills
    <3>1. Answered(r, "still")
      BY <1>4, <2>2 DEF TakeSlot, WrittenMeanwhile
    <3> QED BY <1>1, <1>2, <3>1, GrabSteps, GrabMoves
  <2>3. CASE ask[r].want \notin stills
    <3>1. Goes(r, "counting")
      BY <1>4, <2>3 DEF TakeSlot, WrittenMeanwhile
    <3> QED BY <1>1, <1>2, <2>1, <2>3, <3>1, GrabSteps, GrabMoves
  <2> QED BY <2>2, <2>3
<1>5. CASE Count(r)
  <2>1. r \in Slotted /\ r \in Locked /\ ask[r].want \notin stills
    BY <1>5 DEF Count, Locked, Slotted, GrabsInv, LookedAgain
  <2>2. CASE FilesOf(VideoOf(ask[r].want)) >= MaxGrabs
    <3>1. Answered(r, "too many")
      BY <1>5, <2>2 DEF Count
    <3> QED BY <1>1, <1>2, <3>1, GrabSteps, GrabMoves
  <2>3. CASE ~ (FilesOf(VideoOf(ask[r].want)) >= MaxGrabs)
    <3>1. Goes(r, "measuring")
      BY <1>5, <2>3 DEF Count
    <3>2. FilesOf(VideoOf(ask[r].want)) \in Nat
      BY Counts DEF GrabsInv
    <3>3. FilesOf(VideoOf(ask[r].want)) < MaxGrabs
      BY <2>3, <3>2, GrabSettings
    <3> QED BY <1>1, <1>2, <2>1, <3>1, <3>3, GrabSteps, GrabMoves
  <2> QED BY <2>2, <2>3
<1> QED BY <1>3, <1>4, <1>5

(* An extraction begins: one file more of its video, and one more writer.   *)
LEMMA MeasureKeeps ==
    ASSUME GrabsInv, NEW r \in Asks, Measure(r)
    PROVE  GrabsInv'
<1>1. /\ AskTypes /\ ask[r].at = "measuring" /\ ask[r].want \in Stills /\ ask[r].answer = "none"
      /\ r \in Slotted /\ r \in Locked /\ r \notin Writing
  BY DEF GrabsInv, AskTypes, Measure, Slotted, Locked, Writing
<1>2. leaked' = leaked /\ grabBudget' = grabBudget /\ stills' = stills /\ complete' = complete
  BY DEF Measure, ExtractBeside
<1>3. CASE FreeUnits < FreeFloor
  <2>1. Answered(r, "no space")
    BY <1>3 DEF Measure
  <2>2. grabBudget' \in 0..GrabIncidents
    BY <1>2 DEF GrabsInv, DiskTypes
  <2> QED BY <1>1, <1>2, <2>1, <2>2, GrabSteps, GrabMoves
<1>4. CASE ~ (FreeUnits < FreeFloor)
  <2>1. /\ ask' \in [Asks -> AskRows] /\ ask'[r].at = "writing"
        /\ ask'[r].want = ask[r].want /\ ask'[r].answer = ask[r].answer
        /\ \A q \in Asks \ {r} : ask'[q] = ask[q]
    BY <1>1, <1>4, GrabSteps DEF Measure
  <2>2. AskTypes' /\ DiskTypes'
    BY <1>1, <1>2, <2>1 DEF GrabsInv, AskTypes, DiskTypes
  <2>3. Locked' = Locked /\ Slotted' = Slotted /\ Writing' = Writing \cup {r}
    BY <1>1, <2>1 DEF Locked, Slotted, Writing
  <2>4. OneEach' /\ SlotsHeld' /\ LookedAgain'
    <3>1. \A q \in Asks : ask'[q].want = ask[q].want
      BY <2>1
    <3>2. Locked \subseteq Asks /\ Slotted \subseteq Asks
      BY DEF Locked, Slotted
    <3> QED BY <1>2, <2>3, <3>1, <3>2 DEF GrabsInv, OneEach, SlotsHeld, LookedAgain, VideoOf
  <2>5. ASSUME NEW v
        PROVE  /\ v = VideoOf(ask[r].want) => FilesOf(v)' = FilesOf(v) + 1
               /\ v # VideoOf(ask[r].want) => FilesOf(v)' = FilesOf(v)
    <3>1. InPlace(v)' = InPlace(v) /\ Lost(v)' = Lost(v)
      BY <1>2 DEF InPlace, Lost
    <3>2. ask[r].want \notin stills
      BY <1>1 DEF GrabsInv, LookedAgain
    <3>3. CASE v = VideoOf(ask[r].want)
      <4>1. Coming(v)' = Coming(v) \cup {r} /\ r \notin Coming(v)
        BY <1>1, <1>2, <2>1, <2>3, <3>2, <3>3 DEF Coming, Writing
      <4>2. Cardinality(Coming(v)') = Cardinality(Coming(v)) + 1
        BY <4>1, Counts, FS_AddElement DEF GrabsInv
      <4> QED BY <3>1, <3>3, <4>2, FilesThen, Counts DEF GrabsInv
    <3>4. CASE v # VideoOf(ask[r].want)
      <4>1. Coming(v)' = Coming(v)
        BY <1>1, <1>2, <2>1, <2>3, <3>4 DEF Coming, Writing
      <4> QED BY <3>1, <3>4, <4>1, FilesThen, Counts DEF GrabsInv
    <3> QED BY <3>3, <3>4
  <2>6. FilesOf(VideoOf(ask[r].want)) < MaxGrabs
    BY <1>1 DEF GrabsInv, RoomLeft
  <2>7. CapHeld'
    <3> SUFFICES ASSUME NEW s \in Stills PROVE FilesOf(VideoOf(s))' <= MaxGrabs
      BY DEF CapHeld, VideoOf
    <3> DEFINE v == VideoOf(s)
    <3>1. FilesOf(v) \in Nat /\ FilesOf(v) <= MaxGrabs
      BY Counts DEF GrabsInv, CapHeld
    <3>2. v = VideoOf(ask[r].want) => FilesOf(v) < MaxGrabs
      BY <2>6
    <3>3. FilesOf(v)' = FilesOf(v) + 1 \/ FilesOf(v)' = FilesOf(v)
      BY <2>5
    <3>4. v # VideoOf(ask[r].want) => FilesOf(v)' = FilesOf(v)
      BY <2>5
    <3> HIDE DEF v
    <3> QED BY <3>1, <3>2, <3>3, <3>4, GrabSettings DEF v
  <2>8. RoomLeft'
    <3> SUFFICES ASSUME NEW s \in Stills, NEW q \in Asks, ask'[q].at = "measuring", ask'[q].want = s
                 PROVE  FilesOf(VideoOf(s))' < MaxGrabs
      BY DEF RoomLeft
    <3>1. q # r /\ ask[q].at = "measuring" /\ ask[q].want = s
      BY <2>1
    <3>2. q \in Locked
      BY <3>1 DEF Locked, Slotted
    <3>3. VideoOf(s) # VideoOf(ask[r].want)
      BY <1>1, <3>1, <3>2 DEF GrabsInv, OneEach
    <3>4. FilesOf(VideoOf(s)) < MaxGrabs
      BY <3>1 DEF GrabsInv, RoomLeft
    <3> QED BY <2>5, <3>3, <3>4
  <2>9. FloorHeld'
    <3> DEFINE after == Cardinality(Writing')
    <3>1. Writing' \subseteq Slotted
      BY <1>1, <2>3 DEF Writing, Slotted
    <3>2. after <= Cardinality(Slotted) /\ after \in Nat /\ Cardinality(Slotted) \in Nat
      BY <3>1, Counts, FS_Subset, FS_CardinalityType DEF GrabsInv
    <3>3. FreeUnits' = FreeUnits /\ FreeUnits \in Int
      BY <1>2, Counts DEF FreeUnits, GrabsInv
    <3>4. Cardinality(Slotted) <= GrabSlots
      BY DEF GrabsInv, SlotsHeld
    <3> HIDE DEF after
    <3>5. FreeUnits - after >= FreeFloor - GrabSlots
      BY <1>4, <3>2, <3>3, <3>4, GrabSettings
    <3> QED BY <3>3, <3>5 DEF FloorHeld, after
  <2> QED BY <2>2, <2>4, <2>7, <2>8, <2>9 DEF GrabsInv
<1> QED BY <1>3, <1>4

(* A writer leaves, with a still or without one. *)
LEMMA WriterLeaves ==
    ASSUME GrabsInv, NEW r \in Asks, Extracted(r) \/ ExtractionFails(r)
    PROVE  GrabsInv'
<1> DEFINE still == ask[r].want
<1>1. /\ AskTypes /\ ask[r].at = "writing" /\ still \in Stills
      /\ r \in Slotted /\ r \in Locked /\ r \in Writing /\ still \notin stills
  BY DEF GrabsInv, AskTypes, Extracted, ExtractionFails, Slotted, Locked, Writing, LookedAgain
<1>2. /\ ask' \in [Asks -> AskRows] /\ ask'[r].at = "idle" /\ ask'[r].want = still
      /\ \A q \in Asks \ {r} : ask'[q] = ask[q]
  BY <1>1, GrabSteps DEF Extracted, ExtractionFails
<1>3. leaked' = leaked /\ grabBudget' = grabBudget
  BY DEF Extracted, ExtractionFails, Unwritten
<1>4. \/ stills' = stills \cup {still} /\ complete' = complete \cup {still}
      \/ stills' = stills /\ complete' = complete
  BY DEF Extracted, ExtractionFails, Unwritten
<1>5. AskTypes' /\ DiskTypes'
  BY <1>1, <1>2, <1>3, <1>4 DEF GrabsInv, AskTypes, DiskTypes
<1>6. Locked' = Locked \ {r} /\ Slotted' = Slotted \ {r} /\ Writing' = Writing \ {r}
  BY <1>1, <1>2 DEF Locked, Slotted, Writing
<1>7. Locked \subseteq Asks /\ Slotted \subseteq Locked /\ Writing \subseteq Slotted
  BY DEF Locked, Slotted, Writing
<1>8. \A q \in Locked \ {r} : VideoOf(ask[q].want) # VideoOf(still)
  BY <1>1 DEF GrabsInv, OneEach
<1>9. OneEach'
  BY <1>2, <1>6, <1>7 DEF GrabsInv, OneEach, VideoOf
<1>10. SlotsHeld'
  <2> DEFINE after == Cardinality(Slotted')
  <2>1. after <= Cardinality(Slotted) /\ after \in Nat /\ Cardinality(Slotted) \in Nat
    BY <1>6, Counts, FS_Subset, FS_CardinalityType DEF GrabsInv
  <2>2. Cardinality(Slotted) <= GrabSlots
    BY DEF GrabsInv, SlotsHeld
  <2> HIDE DEF after
  <2>3. after <= GrabSlots
    BY <2>1, <2>2, GrabSettings
  <2> QED BY <2>3 DEF SlotsHeld, after
<1>11. \A q \in Slotted \ {r} : ask[q].want # still
  BY <1>7, <1>8
<1>12. LookedAgain'
  BY <1>2, <1>4, <1>6, <1>7, <1>11 DEF GrabsInv, LookedAgain
<1>13. ASSUME NEW v
       PROVE  /\ v # VideoOf(still) => FilesOf(v)' = FilesOf(v)
              /\ FilesOf(v)' <= FilesOf(v) /\ FilesOf(v)' \in Nat
  <2>1. Lost(v)' = Lost(v)
    BY <1>3 DEF Lost
  <2>2. CASE v # VideoOf(still)
    <3>1. InPlace(v)' = InPlace(v)
      BY <1>4, <2>2 DEF InPlace
    <3>2. Coming(v)' = Coming(v)
      <4>1. \A q \in Writing \ {r} : ask'[q].want = ask[q].want /\ ask[q].want # still
        BY <1>2, <1>7, <1>11
      <4>2. VideoOf(ask[r].want) # v
        BY <2>2
      <4> QED BY <1>4, <1>6, <4>1, <4>2 DEF Coming, VideoOf
    <3> QED BY <2>1, <3>1, <3>2, FilesThen, Counts DEF GrabsInv
  <2>3. CASE v = VideoOf(still)
    <3>1. Coming(v)' = Coming(v) \ {r} /\ r \in Coming(v)
      <4>1. \A q \in Writing \ {r} : ask'[q].want = ask[q].want /\ ask[q].want # still
        BY <1>2, <1>7, <1>11
      <4> QED BY <1>1, <1>4, <1>6, <2>3, <4>1 DEF Coming, VideoOf
    <3>2. Cardinality(Coming(v)') = Cardinality(Coming(v)) - 1
      BY <3>1, Counts, FS_RemoveElement DEF GrabsInv
    <3>3. Cardinality(Coming(v)) - 1 \in Nat
      <4>1. Cardinality(Coming(v)') \in Nat
        BY <3>1, Counts, FS_RemoveElement, FS_CardinalityType DEF GrabsInv
      <4> QED BY <3>2, <4>1
    <3>4. Cardinality(InPlace(v)') = Cardinality(InPlace(v)) + 1
          \/ Cardinality(InPlace(v)') = Cardinality(InPlace(v))
      <4>1. CASE stills' = stills \cup {still}
        <5>1. InPlace(v)' = InPlace(v) \cup {still} /\ still \notin InPlace(v)
          BY <1>1, <2>3, <4>1 DEF InPlace
        <5> QED BY <5>1, Counts, FS_AddElement DEF GrabsInv
      <4>2. CASE stills' = stills
        <5>1. InPlace(v)' = InPlace(v)
          BY <4>2 DEF InPlace
        <5> QED BY <5>1
      <4> QED BY <1>4, <4>1, <4>2
    <3> QED BY <2>1, <2>3, <3>2, <3>3, <3>4, FilesThen, Counts DEF GrabsInv
  <2> QED BY <2>2, <2>3
<1>14. CapHeld'
  <2> SUFFICES ASSUME NEW s \in Stills PROVE FilesOf(VideoOf(s))' <= MaxGrabs
    BY DEF CapHeld, VideoOf
  <2> DEFINE v == VideoOf(s)
             after == FilesOf(v)'
  <2>1. FilesOf(v) \in Nat /\ FilesOf(v) <= MaxGrabs
    BY Counts DEF GrabsInv, CapHeld
  <2>2. after <= FilesOf(v) /\ after \in Nat
    BY <1>13
  <2> HIDE DEF v, after
  <2>3. after <= MaxGrabs
    BY <2>1, <2>2, GrabSettings
  <2> QED BY <2>3 DEF v, after
<1>15. RoomLeft'
  <2> SUFFICES ASSUME NEW s \in Stills, NEW q \in Asks, ask'[q].at = "measuring", ask'[q].want = s
               PROVE  FilesOf(VideoOf(s))' < MaxGrabs
    BY DEF RoomLeft
  <2>1. q # r /\ ask[q].at = "measuring" /\ ask[q].want = s
    BY <1>2
  <2>2. q \in Locked
    BY <2>1 DEF Locked, Slotted
  <2>3. VideoOf(s) # VideoOf(still)
    BY <1>8, <2>1, <2>2
  <2>4. FilesOf(VideoOf(s)) < MaxGrabs
    BY <2>1 DEF GrabsInv, RoomLeft
  <2> QED BY <1>13, <2>3, <2>4
<1>16. FloorHeld'
  <2> DEFINE writers == Cardinality(Writing')
             place == Cardinality(stills')
  <2>1. writers = Cardinality(Writing) - 1
    BY <1>1, <1>6, Counts, FS_RemoveElement DEF GrabsInv
  <2>2. place = Cardinality(stills) + 1 \/ place = Cardinality(stills)
    BY <1>1, <1>4, Counts, FS_AddElement DEF GrabsInv
  <2>3. Cardinality(Writing) \in Nat /\ Cardinality(stills) \in Nat /\ Cardinality(leaked) \in Nat
    BY Counts DEF GrabsInv
  <2>4. DiskUnits - Cardinality(stills) - Cardinality(leaked) - Cardinality(Writing)
        >= FreeFloor - GrabSlots
    BY DEF GrabsInv, FloorHeld, FreeUnits
  <2> HIDE DEF writers, place
  <2>5. DiskUnits - place - Cardinality(leaked) - writers >= FreeFloor - GrabSlots
    BY <2>1, <2>2, <2>3, <2>4, GrabSettings
  <2> QED BY <1>3, <2>5 DEF FloorHeld, FreeUnits, writers, place
<1> QED BY <1>5, <1>9, <1>10, <1>12, <1>14, <1>15, <1>16 DEF GrabsInv

(* The process dies: one partial file of a video at most, as one was        *)
(* written at most.                                                         *)
LEMMA DeathKeeps ==
    ASSUME GrabsInv, GrabberDies
    PROVE  GrabsInv'
<1> DEFINE n == Cardinality(leaked) + 1
           dying == {q \in Writing : ask[q].want \notin stills}
           left == {<<VideoOf(ask[r].want), n>> : r \in dying}
<1>1. leaked' = leaked \cup left /\ stills' = stills /\ complete' = complete
  BY DEF GrabberDies
<1>2. ask' = [r \in Asks |-> NoAsk] /\ grabBudget' \in 0..GrabIncidents
  BY GrabSettings DEF GrabberDies, GrabIncident, GrabsInv, DiskTypes
<1>3. NoAsk \in AskRows /\ NoAsk.at = "idle"
  BY DEF NoAsk, AskRows
<1>4. ask' \in [Asks -> AskRows] /\ \A r \in Asks : ask'[r].at = "idle"
  BY <1>2, <1>3
<1>5. Locked' = {} /\ Slotted' = {} /\ Writing' = {}
  BY <1>4 DEF Locked, Slotted, Writing
<1>6. IsFiniteSet(dying) /\ Cardinality(dying) <= Cardinality(Writing) /\ Cardinality(dying) \in Nat
  BY Counts, FS_Subset, FS_CardinalityType DEF GrabsInv
<1>7. IsFiniteSet(left) /\ Cardinality(left) <= Cardinality(dying) /\ Cardinality(left) \in Nat
  <2> DEFINE f == [r \in dying |-> <<VideoOf(ask[r].want), n>>]
  <2>1. f \in Surjection(dying, left)
    BY DEF Surjection
  <2> HIDE DEF f, dying, left
  <2> QED BY <1>6, <2>1, FS_Surjection, FS_CardinalityType
<1>8. AskTypes' /\ DiskTypes'
  <2>1. IsFiniteSet(leaked')
    BY <1>1, <1>7, FS_Union DEF GrabsInv, DiskTypes
  <2> QED BY <1>1, <1>2, <1>4, <2>1 DEF GrabsInv, AskTypes, DiskTypes
<1>9. OneEach' /\ LookedAgain' /\ RoomLeft'
  BY <1>4, <1>5 DEF OneEach, LookedAgain, RoomLeft
<1>10. SlotsHeld'
  BY <1>5, FS_EmptySet, GrabSettings DEF SlotsHeld
<1>11. ASSUME NEW v PROVE FilesOf(v)' <= FilesOf(v) /\ FilesOf(v)' \in Nat
  <2>1. InPlace(v)' = InPlace(v) /\ Coming(v)' = {}
    BY <1>1, <1>5 DEF InPlace, Coming
  <2>2. IsFiniteSet(Lost(v)) /\ IsFiniteSet(Coming(v)) /\ Cardinality(Lost(v)) \in Nat
        /\ Cardinality(Coming(v)) \in Nat /\ Cardinality(InPlace(v)) \in Nat
        /\ FilesOf(v) = Cardinality(InPlace(v)) + Cardinality(Lost(v)) + Cardinality(Coming(v))
    BY Counts DEF GrabsInv
  <2> DEFINE lost == Cardinality(Lost(v)')
  <2>3. lost \in Nat /\ lost <= Cardinality(Lost(v)) + Cardinality(Coming(v))
    <3>1. CASE Coming(v) = {}
      <4>1. Lost(v)' = Lost(v)
        BY <1>1, <3>1 DEF Lost, Coming
      <4> QED BY <2>2, <4>1
    <3>2. CASE Coming(v) # {}
      <4>1. Lost(v)' \subseteq Lost(v) \cup {<<v, n>>}
        BY <1>1 DEF Lost
      <4>2. /\ IsFiniteSet(Lost(v) \cup {<<v, n>>})
            /\ Cardinality(Lost(v) \cup {<<v, n>>}) \in Nat
            /\ Cardinality(Lost(v) \cup {<<v, n>>}) <= Cardinality(Lost(v)) + 1
        <5> DEFINE one == <<v, n>>
                   more == Lost(v) \cup {one}
        <5> HIDE DEF one
        <5>1. /\ IsFiniteSet(more)
             /\ Cardinality(more) = IF one \in Lost(v) THEN Cardinality(Lost(v)) ELSE Cardinality(Lost(v)) + 1
          BY <2>2, FS_AddElement
        <5>2. Cardinality(more) \in Nat
          BY <5>1, FS_CardinalityType
        <5> HIDE DEF more
        <5>3. Cardinality(more) <= Cardinality(Lost(v)) + 1
          BY <2>2, <5>1, <5>2
        <5> QED BY <5>1, <5>2, <5>3 DEF one, more
      <4>3. lost \in Nat /\ lost <= Cardinality(Lost(v) \cup {<<v, n>>})
        BY <4>1, <4>2, FS_Subset, FS_CardinalityType
      <4>4. Cardinality(Coming(v)) # 0
        BY <2>2, <3>2, FS_EmptySet
      <4> DEFINE upper == Cardinality(Lost(v) \cup {<<v, n>>})
                 old == Cardinality(Lost(v))
                 coming == Cardinality(Coming(v))
      <4>5. /\ lost <= upper /\ upper <= old + 1 /\ coming # 0
            /\ old \in Nat /\ coming \in Nat /\ upper \in Nat /\ lost \in Nat
        BY <2>2, <4>2, <4>3, <4>4
      <4> HIDE DEF lost, n, upper, old, coming
      <4>6. lost <= old + coming
        BY <4>5
      <4> QED BY <4>5, <4>6 DEF old, coming
    <3> QED BY <3>1, <3>2
  <2>4. FilesOf(v)' = Cardinality(InPlace(v)) + lost
    <3>1. Cardinality({}) = 0
      BY FS_EmptySet
    <3>2. Cardinality(InPlace(v)') = Cardinality(InPlace(v)) /\ Cardinality(Coming(v)') = 0
      BY <2>1, <3>1
    <3> DEFINE place == Cardinality(InPlace(v)')
               coming == Cardinality(Coming(v)')
    <3>3. FilesOf(v)' = place + lost + coming
      BY FilesThen
    <3>4. place \in Nat /\ coming = 0 /\ place = Cardinality(InPlace(v))
      BY <2>2, <3>2
    <3> HIDE DEF place, coming, lost
    <3>5. FilesOf(v)' = place + lost
      BY <2>3, <3>3, <3>4
    <3> QED BY <3>4, <3>5
  <2> DEFINE after == FilesOf(v)'
  <2> HIDE DEF lost, after
  <2>5. after = Cardinality(InPlace(v)) + lost
    BY <2>4 DEF after
  <2>6. after <= FilesOf(v) /\ after \in Nat
    BY <2>2, <2>3, <2>5
  <2> QED BY <2>6 DEF after
<1>12. CapHeld'
  <2> SUFFICES ASSUME NEW s \in Stills PROVE FilesOf(VideoOf(s))' <= MaxGrabs
    BY DEF CapHeld, VideoOf
  <2> DEFINE v == VideoOf(s)
             after == FilesOf(v)'
  <2>1. FilesOf(v) \in Nat /\ FilesOf(v) <= MaxGrabs
    BY Counts DEF GrabsInv, CapHeld
  <2>2. after <= FilesOf(v) /\ after \in Nat
    BY <1>11
  <2> HIDE DEF v, after
  <2>3. after <= MaxGrabs
    BY <2>1, <2>2, GrabSettings
  <2> QED BY <2>3 DEF v, after
<1>13. FloorHeld'
  <2> DEFINE lost == Cardinality(leaked')
             now == Cardinality(leaked)
  <2>1. lost <= now + Cardinality(left) /\ lost \in Nat /\ now \in Nat
    <3>1. IsFiniteSet(leaked)
      BY DEF GrabsInv, DiskTypes
    <3>2. /\ IsFiniteSet(leaked \cup left)
          /\ Cardinality(leaked \cup left) = now + Cardinality(left) - Cardinality(leaked \cap left)
      BY <3>1, <1>7, FS_Union
    <3>3. Cardinality(leaked \cap left) \in Nat /\ now \in Nat /\ Cardinality(leaked \cup left) \in Nat
      BY <3>1, <3>2, FS_Intersection, FS_CardinalityType
    <3>4. lost = Cardinality(leaked \cup left)
      BY <1>1
    <3> HIDE DEF lost, now, left
    <3> QED BY <1>7, <3>2, <3>3, <3>4
  <2>2. Cardinality(Writing) \in Nat /\ Cardinality(stills) \in Nat
    BY Counts DEF GrabsInv
  <2>3. DiskUnits - Cardinality(stills) - now - Cardinality(Writing) >= FreeFloor - GrabSlots
    BY DEF GrabsInv, FloorHeld, FreeUnits
  <2> HIDE DEF lost, now, left, dying
  <2>4. DiskUnits - Cardinality(stills) - lost - 0 >= FreeFloor - GrabSlots
    BY <1>6, <1>7, <2>1, <2>2, <2>3, GrabSettings
  <2>5. Cardinality(Writing') = 0
    BY <1>5, FS_EmptySet
  <2> QED BY <1>1, <2>4, <2>5 DEF FloorHeld, FreeUnits, lost
<1> QED BY <1>8, <1>9, <1>10, <1>12, <1>13 DEF GrabsInv

(* What every step of the stills keeps. *)
LEMMA GrabsKept ==
    /\ GrabsInit => GrabsInv
    /\ GrabsInv /\ [GrabsNext]_grabVars => GrabsInv'
<1>1. ASSUME GrabsInit PROVE GrabsInv
  <2>1. ask \in [Asks -> AskRows] /\ \A r \in Asks : ask[r].at = "idle"
    BY <1>1 DEF GrabsInit, NoAsk, AskRows
  <2>2. Locked = {} /\ Slotted = {} /\ Writing = {}
    BY <2>1 DEF Locked, Slotted, Writing
  <2>3. AskTypes /\ DiskTypes
    BY <1>1, <2>1, FS_EmptySet, GrabSettings DEF GrabsInit, AskTypes, DiskTypes
  <2>4. OneEach /\ LookedAgain /\ RoomLeft
    BY <2>1, <2>2 DEF OneEach, LookedAgain, RoomLeft
  <2>5. SlotsHeld
    BY <2>2, FS_EmptySet, GrabSettings DEF SlotsHeld
  <2>6. CapHeld
    <3> SUFFICES ASSUME NEW s \in Stills PROVE FilesOf(VideoOf(s)) <= MaxGrabs
      BY DEF CapHeld
    <3> DEFINE v == VideoOf(s)
    <3>1. InPlace(v) = {} /\ Lost(v) = {} /\ Coming(v) = {}
      BY <1>1, <2>2 DEF GrabsInit, InPlace, Lost, Coming
    <3> HIDE DEF v
    <3>2. FilesOf(v) = 0
      BY <2>3, <3>1, Counts, FS_EmptySet
    <3> QED BY <3>2, GrabSettings DEF v
  <2>7. FloorHeld
    <3>1. DiskUnits - 0 - 0 - 0 >= FreeFloor - GrabSlots
      BY GrabSettings, GrabsAssumption DEF GrabsAssumption
    <3>2. Cardinality(stills) = 0 /\ Cardinality(leaked) = 0 /\ Cardinality(Writing) = 0
      BY <1>1, <2>2, FS_EmptySet DEF GrabsInit
    <3> QED BY <3>1, <3>2 DEF FloorHeld, FreeUnits
  <2> QED BY <2>3, <2>4, <2>5, <2>6, <2>7 DEF GrabsInv
<1>2. ASSUME GrabsInv, UNCHANGED grabVars PROVE GrabsInv'
  <2>1. Locked' = Locked /\ Slotted' = Slotted /\ Writing' = Writing
    BY <1>2 DEF grabVars, Locked, Slotted, Writing
  <2>2. /\ \A v : FilesOf(v)' = FilesOf(v)
        /\ CapHeld' /\ FloorHeld'
    BY <1>2, <2>1, NothingWritten DEF grabVars, GrabsInv
  <2>3. AskTypes' /\ DiskTypes' /\ OneEach' /\ SlotsHeld' /\ LookedAgain'
    BY <1>2, <2>1 DEF grabVars, GrabsInv, AskTypes, DiskTypes, OneEach, SlotsHeld, LookedAgain
  <2>4. RoomLeft'
    <3> SUFFICES ASSUME NEW s \in Stills, NEW q \in Asks, ask'[q].at = "measuring", ask'[q].want = s
                 PROVE  FilesOf(VideoOf(s))' < MaxGrabs
      BY DEF RoomLeft
    <3>1. FilesOf(VideoOf(s)) < MaxGrabs
      BY <1>2 DEF grabVars, GrabsInv, RoomLeft
    <3> QED BY <2>2, <3>1
  <2> QED BY <2>2, <2>3, <2>4 DEF GrabsInv
<1>3. ASSUME GrabsInv, GrabsNext PROVE GrabsInv'
  BY <1>3, AskKeeps, LockKeeps, MeasureKeeps, WriterLeaves, DeathKeeps DEF GrabsNext
<1> QED BY <1>1, <1>2, <1>3

(* An extraction begins only for a still that is not there.                 *)
LEMMA NeverTwice ==
    GrabsInv => \A r \in Asks :
        [GrabsNext]_grabVars /\ ask[r].at = "measuring" /\ ask'[r].at = "writing" => ask[r].want \notin stills
  BY DEF GrabsInv, LookedAgain, Slotted

(* What is answered is there, and what is there is whole.                   *)
LEMMA WholeWhenServed ==
    ASSUME GrabsInv, [GrabsNext]_grabVars, NEW r \in Asks, ask'[r].answer = "still", ask'[r] # ask[r]
    PROVE  ask'[r].want \in complete'
<1>1. GrabsNext
  BY DEF grabVars
<1>2. AskTypes /\ complete = stills
  BY DEF GrabsInv, DiskTypes
<1>3. ASSUME GrabberDies PROVE FALSE
  BY <1>3 DEF GrabberDies, NoAsk
<1>4. PICK q \in Asks : \/ \E s \in Stills : AskFor(q, s)
                        \/ TakeLock(q) \/ TakeSlot(q) \/ Count(q) \/ Measure(q)
                        \/ Extracted(q) \/ ExtractionFails(q)
  BY <1>1, <1>3 DEF GrabsNext
<1>5. CASE \E s \in Stills : AskFor(q, s)
  <2>1. PICK s \in Stills : AskFor(q, s)
    BY <1>5
  <2>2. q = r /\ s \in stills /\ ask'[r].want = s /\ complete' = complete
    BY <1>2, <2>1 DEF AskFor, AskTypes
  <2> QED BY <1>2, <2>2
<1>6. CASE TakeLock(q) \/ Count(q) \/ Measure(q) \/ ExtractionFails(q)
  <2>1. ask[q].at # "idle" /\ ask[q].answer = "none"
    BY <1>2, <1>6 DEF AskTypes, TakeLock, Count, Measure, ExtractionFails
  <2>2. \/ \E at \in {"locked", "counting", "measuring", "writing"} : Goes(q, at)
        \/ \E answer \in {"too many", "no space", "failed"} : Answered(q, answer)
    BY <1>6 DEF TakeLock, Count, Measure, ExtractionFails
  <2>3. ask'[q].answer # "still" /\ \A p \in Asks \ {q} : ask'[p] = ask[p]
    BY <1>2, <2>1, <2>2, GrabSteps
  <2> QED BY <2>3
<1>7. CASE TakeSlot(q)
  <2>1. ask[q].at # "idle" /\ ask[q].answer = "none" /\ complete' = complete
    BY <1>2, <1>7 DEF AskTypes, TakeSlot, Unwritten
  <2>2. CASE ask[q].want \in stills
    <3>1. Answered(q, "still")
      BY <1>7, <2>2 DEF TakeSlot, WrittenMeanwhile
    <3> QED BY <1>2, <2>1, <2>2, <3>1, GrabSteps
  <2>3. CASE ask[q].want \notin stills
    <3>1. Goes(q, "counting")
      BY <1>7, <2>3 DEF TakeSlot, WrittenMeanwhile
    <3>2. ask'[q].answer # "still" /\ \A p \in Asks \ {q} : ask'[p] = ask[p]
      BY <1>2, <2>1, <3>1, GrabSteps
    <3> QED BY <3>2
  <2> QED BY <2>2, <2>3
<1>8. CASE Extracted(q)
  <2>1. Answered(q, "still") /\ complete' = complete \cup {ask[q].want}
    BY <1>8 DEF Extracted
  <2> QED BY <1>2, <2>1, GrabSteps
<1> QED BY <1>4, <1>5, <1>6, <1>7, <1>8

(* The invariant says what the run checks of a state, a step of it what the *)
(* run checks of a step.                                                    *)
LEMMA GrabsShown == GrabsInv => GrabsTypeOK /\ CapHeld /\ FloorHeld
  BY DEF GrabsInv, AskTypes, AskRows, DiskTypes, GrabsTypeOK

(* In every behaviour of Front the stills of the panel (api/v1/panel.py,    *)
(* frame_grab) keep to the cap of a video and, but for one file a slot, to  *)
(* the free-space floor, however many requests run side by side and however *)
(* often the process dies; a still that is there is not extracted again,    *)
(* and one that is answered is whole.                                       *)
THEOREM GrabsHold == FrontSpec => GrabsCorrect
<1>1. FrontInit => GrabsInv
  BY GrabsKept DEF FrontInit
<1>2. [FrontNext]_frontVars => [GrabsNext]_grabVars
  BY DEF FrontNext, ItemsMove, AccountsMove, SearchMoves, GrabsMove, OrganizerMoves, CurateMoves, frontVars
<1>3. GrabsInv /\ [FrontNext]_frontVars => GrabsInv'
  BY <1>2, GrabsKept
<1>4. GrabsInv /\ [FrontNext]_frontVars =>
          [\A r \in Asks : ask[r].at = "measuring" /\ ask'[r].at = "writing" =>
                             ask[r].want \notin stills]_grabVars
  BY <1>2, NeverTwice
<1>5. GrabsInv /\ [FrontNext]_frontVars =>
          [\A r \in Asks : ask'[r].answer = "still" /\ ask'[r] # ask[r] =>
                             ask'[r].want \in complete']_grabVars
  BY <1>2, WholeWhenServed
<1> QED BY <1>1, <1>3, <1>4, <1>5, GrabsShown, PTL DEF FrontSpec, GrabsCorrect, NotGrabbedTwice, ServedIsWhole
-----------------------------------------------------------------------------
(* The names a file may have, what a folder may be named, and what a plan   *)
(* may hold.                                                                *)
NumberPrefixes == [index : Nat, room : Nat]
NamesOf(f) == [prefixes : {<< >>} \cup {<<p>> : p \in NumberPrefixes}, stem : {f}]
FileNames == UNION {NamesOf(f) : f \in Files}
Folders == {n \in [Files -> FileNames] : \A f \in Files : n[f] \in NamesOf(f)}
Entries == {e \in [file : Files, old : FileNames, new : FileNames] :
               e.old \in NamesOf(e.file) /\ e.new \in NamesOf(e.file)}
DriveRows == [pc : {"free", "shown", "rename", "upload", "remove", "restore"},
              plan : Seq(Entries), done : Seq(Entries), found : Nat, failed : BOOLEAN, before : Folders]
Manifests == [renames : Seq(Entries), before : Folders]

DriveTypes ==
    /\ names \in Folders /\ drive \in [Operators -> DriveRows]
    /\ newestId \in Nat /\ DOMAIN manifests \subseteq 1..newestId
    /\ manifests \in [DOMAIN manifests -> Manifests]
    /\ organizeBudget \in 0..OrganizeIncidents /\ organizes \in Nat
    /\ \A o \in Operators : drive[o].found <= newestId

Busy == {o \in Operators : drive[o].pc \notin {"free", "shown"}}

(* Without an overlap one request is at work.                               *)
OneBusy == "overlap" \notin muddled => \A o, p \in Busy : o = p

(* The manifest uploaded stays while an older one is removed.               *)
NewStays ==
    "overlap" \notin muddled =>
        \A o \in Operators : drive[o].pc = "remove" =>
            newestId \in DOMAIN manifests /\ drive[o].found < newestId

-----------------------------------------------------------------------------
(* What the constants are.                                                  *)
LEMMA OrganizerSettings ==
    /\ IsFiniteSet(Files) /\ Cardinality(Files) \in Nat
    /\ RoomRank \in [Files -> Nat] /\ OrganizeIncidents \in Nat
  BY OrganizerAssumption, FS_CardinalityType DEF OrganizerAssumption

(* A set of naturals has a least element.                                   *)
LEMMA Smallest ==
    ASSUME NEW U \in SUBSET Nat, U # {}
    PROVE  \E u \in U : \A w \in U : u <= w
<1>1. \E x \in U : \A y \in U : ~ (<<y, x>> \in OpToRel(<, Nat))
  BY NatLessThanWellFounded, WFMin
<1>2. PICK x \in U : \A y \in U : ~ (<<y, x>> \in OpToRel(<, Nat))
  BY <1>1
<1>3. \A y \in U : ~ (y < x)
  BY <1>2 DEF OpToRel
<1>4. \A y \in U : x <= y
  <2> TAKE y \in U
  <2>1. ~ (y < x) /\ x \in Nat /\ y \in Nat
    BY <1>3
  <2> QED BY <2>1
<1> QED BY <1>4

(* A set of naturals with a bound has a largest element.                    *)
LEMMA Largest ==
    ASSUME NEW n \in Nat, NEW S \in SUBSET (0..n), 0 \in S
    PROVE  Max(S) \in S /\ \A y \in S : y <= Max(S)
<1> DEFINE U == {u \in Nat : \A y \in S : y <= u}
<1>1. n \in U /\ U \in SUBSET Nat
  BY DEF U
<1>2. PICK u \in U : \A w \in U : u <= w
  <2> HIDE DEF U
  <2> QED BY <1>1, Smallest
<1>3. u \in S
  <2>1. SUFFICES ASSUME u \notin S PROVE FALSE
    OBVIOUS
  <2>2. u # 0 /\ u - 1 \in Nat
    BY <1>2, <2>1
  <2>3. \A y \in S : y <= u - 1
    BY <1>2, <2>1
  <2>4. u - 1 \in U
    BY <2>2, <2>3
  <2> QED BY <1>2, <2>2, <2>4
<1>4. \E x \in S : \A y \in S : x >= y
  BY <1>2, <1>3
<1>5. Max(S) \in S /\ \A y \in S : Max(S) >= y
  BY <1>4 DEF Max
<1> QED BY <1>5

(* The newest manifest is there when there is one.                          *)
LEMMA NewestIs ==
    DriveTypes => /\ Newest \in Nat /\ Newest <= newestId
                  /\ Newest # 0 => Newest \in DOMAIN manifests
                  /\ \A m \in DOMAIN manifests : m <= Newest
<1> SUFFICES ASSUME DriveTypes
             PROVE  /\ Newest \in Nat /\ Newest <= newestId
                    /\ Newest # 0 => Newest \in DOMAIN manifests
                    /\ \A m \in DOMAIN manifests : m <= Newest
  OBVIOUS
<1> DEFINE S == {0} \cup DOMAIN manifests
<1>1. newestId \in Nat /\ S \in SUBSET (0..newestId) /\ 0 \in S
  BY DEF DriveTypes
<1> HIDE DEF S
<1>2. Max(S) \in S /\ \A y \in S : y <= Max(S)
  BY <1>1, Largest
<1>3. Newest = Max(S)
  BY DEF Newest, S
<1> QED BY <1>1, <1>2, <1>3 DEF S

(* What is at the head of a sequence, and what is left and added.           *)
LEMMA Elements ==
    ASSUME NEW E, NEW s \in Seq(E)
    PROVE  /\ s # << >> => /\ Head(s) \in E /\ Tail(s) \in Seq(E)
                           /\ ToSet(s) = {Head(s)} \cup ToSet(Tail(s))
           /\ \A e \in E : Append(s, e) \in Seq(E) /\ ToSet(Append(s, e)) = ToSet(s) \cup {e}
           /\ ToSet(s) \subseteq E
           /\ s = << >> => ToSet(s) = {}
<1>1. ASSUME s # << >>
      PROVE  /\ Head(s) \in E /\ Tail(s) \in Seq(E)
             /\ ToSet(s) = {Head(s)} \cup ToSet(Tail(s))
  <2>1. Head(s) \in E /\ Tail(s) \in Seq(E) /\ Len(s) \in Nat /\ Len(s) > 0
    BY <1>1
  <2>2. Head(s) = s[1] /\ DOMAIN s = 1..Len(s)
    BY <1>1
  <2>3. DOMAIN Tail(s) = 1..(Len(s) - 1) /\ \A i \in 1..(Len(s) - 1) : Tail(s)[i] = s[i + 1]
    BY <1>1
  <2>4. \A i \in 1..Len(s) : i = 1 \/ i - 1 \in 1..(Len(s) - 1)
    BY <2>1
  <2>5. \A i \in 1..Len(s) : s[i] = Head(s) \/ (i - 1 \in DOMAIN Tail(s) /\ s[i] = Tail(s)[i - 1])
    BY <2>1, <2>2, <2>3, <2>4
  <2>6. \A i \in DOMAIN Tail(s) : i + 1 \in DOMAIN s /\ Tail(s)[i] = s[i + 1]
    BY <2>1, <2>2, <2>3
  <2>7. 1 \in DOMAIN s
    BY <2>1, <2>2
  <2> DEFINE t == Tail(s)
  <2> HIDE DEF t
  <2>8. ASSUME NEW x \in ToSet(s) PROVE x \in {Head(s)} \cup ToSet(t)
    BY <2>2, <2>5 DEF ToSet, t
  <2>9. ASSUME NEW x \in ToSet(t) PROVE x \in ToSet(s)
    BY <2>6 DEF ToSet, t
  <2>10. Head(s) \in ToSet(s)
    BY <2>2, <2>7 DEF ToSet
  <2> QED BY <2>1, <2>8, <2>9, <2>10 DEF t
<1>2. ASSUME NEW e \in E
      PROVE  Append(s, e) \in Seq(E) /\ ToSet(Append(s, e)) = ToSet(s) \cup {e}
  <2>1. /\ Append(s, e) \in Seq(E) /\ Len(s) \in Nat /\ DOMAIN s = 1..Len(s)
        /\ DOMAIN Append(s, e) = 1..(Len(s) + 1)
        /\ Append(s, e)[Len(s) + 1] = e
        /\ \A i \in 1..Len(s) : Append(s, e)[i] = s[i]
    OBVIOUS
  <2>2. \A i \in 1..(Len(s) + 1) : i \in 1..Len(s) \/ i = Len(s) + 1
    BY <2>1
  <2>3. Len(s) + 1 \in 1..(Len(s) + 1) /\ \A i \in 1..Len(s) : i \in 1..(Len(s) + 1)
    BY <2>1
  <2> QED BY <2>1, <2>2, <2>3 DEF ToSet
<1>3. ToSet(s) \subseteq E
  BY DEF ToSet
<1>4. s = << >> => ToSet(s) = {}
  BY DEF ToSet
<1> QED BY <1>1, <1>2, <1>3, <1>4

(* A name proposed is one the file may have.                                *)
LEMMA Proposed ==
    ASSUME DriveTypes, NEW f \in Files, NEW i \in Nat
    PROVE  [file |-> f, old |-> names[f], new |-> ProposedName(i, f)] \in Entries
<1>1. names[f] \in NamesOf(f)
  BY DEF DriveTypes, Folders
<1>2. PICK q \in {<< >>} \cup {<<p>> : p \in NumberPrefixes} : names[f] = [prefixes |-> q, stem |-> f]
  BY <1>1 DEF NamesOf
<1>3. OriginalStem(names[f]) = [prefixes |-> << >>, stem |-> f]
  <2>1. CASE q = << >>
    BY <1>2, <2>1 DEF OriginalStem
  <2>2. CASE q # << >>
    <3>1. PICK p \in NumberPrefixes : q = <<p>>
      BY <1>2, <2>2
    <3>2. Tail(q) = << >>
      BY <3>1
    <3> QED BY <1>2, <2>2, <3>2 DEF OriginalStem
  <2> QED BY <2>1, <2>2
<1> DEFINE p == [index |-> i, room |-> RoomRank[f]]
<1>4. p \in NumberPrefixes
  BY OrganizerSettings DEF NumberPrefixes
<1> HIDE DEF p
<1>5. <<p>> \o << >> = <<p>>
  OBVIOUS
<1>6. ProposedName(i, f) = [prefixes |-> <<p>>, stem |-> f]
  BY <1>3, <1>5 DEF ProposedName, p
<1>7. ProposedName(i, f) \in NamesOf(f)
  BY <1>4, <1>6 DEF NamesOf
<1> QED BY <1>1, <1>7 DEF Entries, FileNames

(* The entries of a plan, and what a request holds.                         *)
LEMMA RowFacts ==
    ASSUME DriveTypes, NEW o \in Operators
    PROVE  /\ drive[o] \in DriveRows /\ drive[o].plan \in Seq(Entries) /\ drive[o].done \in Seq(Entries)
           /\ drive[o].found \in Nat /\ drive[o].before \in Folders
           /\ drive[o].plan # << >> => /\ Head(drive[o].plan) \in Entries
                                       /\ Tail(drive[o].plan) \in Seq(Entries)
                                       /\ Append(drive[o].done, Head(drive[o].plan)) \in Seq(Entries)
<1>1. drive[o] \in DriveRows
  BY DEF DriveTypes
<1>2. /\ drive[o].plan \in Seq(Entries) /\ drive[o].done \in Seq(Entries)
      /\ drive[o].found \in Nat /\ drive[o].before \in Folders
  BY <1>1 DEF DriveRows
<1> QED BY <1>1, <1>2, Elements

(* A folder stays a folder when an entry is carried out or taken back.      *)
LEMMA Renamed ==
    ASSUME DriveTypes, NEW e \in Entries
    PROVE  /\ [names EXCEPT ![e.file] = e.new] \in Folders
           /\ [names EXCEPT ![e.file] = e.old] \in Folders
<1>1. e.file \in Files /\ e.old \in NamesOf(e.file) /\ e.new \in NamesOf(e.file)
      /\ e.old \in FileNames /\ e.new \in FileNames
  BY DEF Entries
<1> QED BY <1>1 DEF DriveTypes, Folders

(* A request that is over has a row of its type.                            *)
LEMMA NoRequestIs == NoRequest \in DriveRows /\ NoRequest.pc = "free" /\ NoRequest.found = 0
<1>1. Camera \in Folders
  BY DEF Camera, Folders, NamesOf, FileNames
<1>2. << >> \in Seq(Entries)
  OBVIOUS
<1> QED BY <1>1, <1>2 DEF NoRequest, DriveRows

(* A step of one request gives a row of its type.                           *)
LEMMA RowStep ==
    ASSUME DriveTypes, NEW o \in Operators, NEW row \in DriveRows, drive' = [drive EXCEPT ![o] = row],
           row.found <= newestId', newestId' \in Nat, newestId <= newestId'
    PROVE  /\ drive' \in [Operators -> DriveRows]
           /\ \A p \in Operators : drive'[p].found <= newestId'
<1>1. drive' \in [Operators -> DriveRows] /\ drive'[o] = row /\ \A p \in Operators \ {o} : drive'[p] = drive[p]
  BY DEF DriveTypes
<1>2. ASSUME NEW p \in Operators \ {o} PROVE drive'[p].found <= newestId'
  <2>1. drive[p].found <= newestId /\ drive[p].found \in Nat /\ newestId \in Nat
    BY RowFacts DEF DriveTypes
  <2> QED BY <1>1, <2>1
<1> QED BY <1>1, <1>2

(* Every step of the organiser keeps the types.                             *)
LEMMA DriveTyped ==
    ASSUME DriveTypes, OrganizerNext
    PROVE  DriveTypes'
<1>1. PICK o \in Operators :
        \/ Preview(o) \/ ApplyBegins(o) \/ RenameOne(o) \/ FindOld(o)
        \/ Upload(o) \/ UploadRefused(o) \/ RemoveOld(o)
        \/ UndoBegins(o) \/ RestoreOne(o) \/ UndoEnds(o) \/ ConnectionDrops(o)
  BY DEF OrganizerNext
<1> DEFINE d == drive[o]
<1>2. /\ d \in DriveRows /\ d.plan \in Seq(Entries) /\ d.done \in Seq(Entries)
      /\ d.found \in Nat /\ d.before \in Folders /\ d.found <= newestId
  BY RowFacts DEF DriveTypes
<1>3. /\ newestId \in Nat /\ names \in Folders /\ DOMAIN drive = Operators
      /\ organizes \in Nat /\ organizeBudget \in 0..OrganizeIncidents
  BY DEF DriveTypes
<1>4. /\ DOMAIN manifests \subseteq 1..newestId
      /\ manifests \in [DOMAIN manifests -> Manifests]
  BY DEF DriveTypes
<1>5. ASSUME NEW row \in DriveRows, drive' = [drive EXCEPT ![o] = row], row.found <= newestId,
             UNCHANGED <<names, newestId>>, organizes' \in Nat, organizeBudget' \in 0..OrganizeIncidents,
             \/ UNCHANGED manifests
             \/ \E id \in Nat : manifests' = Without(id)
      PROVE  DriveTypes'
  <2>1. /\ drive' \in [Operators -> DriveRows]
        /\ \A p \in Operators : drive'[p].found <= newestId'
    <3>1. newestId' = newestId /\ newestId' \in Nat /\ newestId <= newestId' /\ row.found <= newestId'
      BY <1>3, <1>5
    <3> QED BY <1>5, <3>1, RowStep
  <2>2. DOMAIN manifests' \subseteq 1..newestId' /\ manifests' \in [DOMAIN manifests' -> Manifests]
    BY <1>4, <1>5 DEF Without
  <2> QED BY <1>3, <1>5, <2>1, <2>2 DEF DriveTypes
<1>6. NoRequest \in DriveRows /\ NoRequest.found <= newestId
  BY <1>3, NoRequestIs
<1>7. CASE Preview(o)
  <2>0. PICK n \in 1..Cardinality(Files) : \E order \in [1..n -> Files] :
          drive' = [drive EXCEPT ![o].pc = "shown", ![o].plan =
                      [i \in 1..n |-> [file |-> order[i], old |-> names[order[i]],
                                       new |-> ProposedName(i, order[i])]]]
    BY <1>7 DEF Preview
  <2>1. PICK order \in [1..n -> Files] :
          drive' = [drive EXCEPT ![o].pc = "shown", ![o].plan =
                      [i \in 1..n |-> [file |-> order[i], old |-> names[order[i]],
                                       new |-> ProposedName(i, order[i])]]]
    BY <2>0
  <2> DEFINE plan == [i \in 1..n |-> [file |-> order[i], old |-> names[order[i]],
                                      new |-> ProposedName(i, order[i])]]
  <2>2. n \in Nat
    BY OrganizerSettings
  <2>3. \A i \in 1..n : order[i] \in Files /\ i \in Nat
    BY <2>2
  <2>4. \A i \in 1..n : plan[i] \in Entries
    BY <2>3, Proposed
  <2>5. plan \in Seq(Entries)
    BY <2>2, <2>4
  <2> HIDE DEF plan
  <2>6. drive' = [drive EXCEPT ![o] = [d EXCEPT !.pc = "shown", !.plan = plan]]
    BY <2>1 DEF plan
  <2>7. [d EXCEPT !.pc = "shown", !.plan = plan] \in DriveRows
    BY <1>2, <2>5 DEF DriveRows
  <2>8. [d EXCEPT !.pc = "shown", !.plan = plan].found <= newestId
    BY <1>2 DEF DriveRows
  <2>9. organizeBudget' \in 0..OrganizeIncidents
    BY <1>3, <1>7, OrganizerSettings DEF Preview
  <2> QED BY <1>3, <1>5, <1>7, <2>6, <2>7, <2>8, <2>9 DEF Preview
<1>8. CASE ApplyBegins(o)
  <2> DEFINE row == [d EXCEPT !.pc = "rename", !.before = names]
  <2>1. row \in DriveRows /\ row.found <= newestId
    BY <1>2, <1>3 DEF DriveRows
  <2>2. drive' = [drive EXCEPT ![o] = row]
    BY <1>8 DEF ApplyBegins
  <2>3. organizes' \in Nat /\ UNCHANGED <<names, newestId, manifests, organizeBudget>>
    BY <1>3, <1>8 DEF ApplyBegins
  <2> HIDE DEF row
  <2> QED BY <1>3, <1>5, <2>1, <2>2, <2>3
<1>9. CASE RenameOne(o)
  <2> DEFINE e == Head(d.plan)
             gone == [d EXCEPT !.plan = Tail(d.plan), !.done = Append(d.done, e)]
             skipped == [d EXCEPT !.plan = Tail(d.plan)]
  <2>1. e \in Entries /\ Tail(d.plan) \in Seq(Entries) /\ Append(d.done, e) \in Seq(Entries)
    BY <1>9, RowFacts DEF RenameOne
  <2>2. gone \in DriveRows /\ skipped \in DriveRows /\ gone.found <= newestId /\ skipped.found <= newestId
    BY <1>2, <2>1 DEF DriveRows
  <2>3. drive' = [drive EXCEPT ![o] = gone] \/ drive' = [drive EXCEPT ![o] = skipped]
    BY <1>9 DEF RenameOne
  <2>4. names' \in Folders
    BY <1>3, <1>9, <2>1, Renamed DEF RenameOne
  <2>5. /\ drive' \in [Operators -> DriveRows]
        /\ \A p \in Operators : drive'[p].found <= newestId'
    <3>1. newestId' = newestId
      BY <1>9 DEF RenameOne
    <3> HIDE DEF gone, skipped, d
    <3> QED BY <1>3, <2>2, <2>3, <3>1, RowStep
  <2> QED BY <1>3, <1>4, <1>9, <2>4, <2>5 DEF RenameOne, DriveTypes
<1>10. CASE FindOld(o)
  <2> DEFINE row == [d EXCEPT !.pc = "upload", !.found = Newest]
  <2>1. row \in DriveRows /\ row.found <= newestId
    BY <1>2, NewestIs DEF DriveRows
  <2>2. drive' = [drive EXCEPT ![o] = row] \/ drive' = [drive EXCEPT ![o] = NoRequest]
    BY <1>10 DEF FindOld
  <2> QED BY <1>3, <1>5, <1>6, <1>10, <2>1, <2>2 DEF FindOld
<1>11. CASE Upload(o)
  <2> DEFINE row == [d EXCEPT !.pc = "remove"]
  <2>1. newestId' = newestId + 1 /\ manifests' = Written(o) /\ names' = names
        /\ organizes' = organizes /\ organizeBudget' = organizeBudget
        /\ drive' = [drive EXCEPT ![o] = row]
    BY <1>11 DEF Upload
  <2>2. row \in DriveRows /\ row.found <= newestId'
    BY <1>2, <1>3, <2>1 DEF DriveRows
  <2>3. /\ drive' \in [Operators -> DriveRows]
        /\ \A p \in Operators : drive'[p].found <= newestId'
    <3>1. newestId' \in Nat /\ newestId <= newestId'
      BY <1>3, <2>1
    <3> HIDE DEF row
    <3> QED BY <2>1, <2>2, <3>1, RowStep
  <2>4. [renames |-> d.done, before |-> d.before] \in Manifests
    BY <1>2 DEF Manifests
  <2>5. DOMAIN manifests' \subseteq 1..newestId' /\ manifests' \in [DOMAIN manifests' -> Manifests]
    BY <1>3, <1>4, <2>1, <2>4 DEF Written
  <2> QED BY <1>3, <2>1, <2>3, <2>5 DEF DriveTypes
<1>12. CASE UploadRefused(o)
  BY <1>3, <1>5, <1>6, <1>12 DEF UploadRefused
<1>13. CASE RemoveOld(o)
  BY <1>2, <1>3, <1>5, <1>6, <1>13 DEF RemoveOld
<1>14. CASE UndoBegins(o)
  <2> DEFINE m == manifests[Newest]
             row == [NoRequest EXCEPT !.pc = "restore", !.found = Newest, !.before = m.before,
                                      !.plan = m.renames]
  <2>1. Newest \in DOMAIN manifests /\ Newest \in Nat /\ Newest <= newestId
    BY <1>14, NewestIs DEF UndoBegins, FindManifest
  <2>2. m.before \in Folders /\ m.renames \in Seq(Entries)
    BY <1>4, <2>1 DEF Manifests
  <2>3. row \in DriveRows /\ row.found <= newestId
    BY <2>1, <2>2, NoRequestIs DEF DriveRows
  <2>4. drive' = [drive EXCEPT ![o] = row]
    BY <1>14 DEF UndoBegins, FindManifest
  <2>5. organizeBudget' \in 0..OrganizeIncidents
    BY <1>3, <1>14, OrganizerSettings DEF UndoBegins
  <2> HIDE DEF row
  <2> QED BY <1>3, <1>5, <1>14, <2>3, <2>4, <2>5 DEF UndoBegins
<1>15. CASE RestoreOne(o)
  <2> DEFINE e == Head(d.plan)
             back == [d EXCEPT !.plan = Tail(d.plan)]
             failed == [d EXCEPT !.plan = Tail(d.plan), !.failed = TRUE]
  <2>1. e \in Entries /\ Tail(d.plan) \in Seq(Entries)
    BY <1>15, RowFacts DEF RestoreOne
  <2>2. back \in DriveRows /\ failed \in DriveRows /\ back.found <= newestId /\ failed.found <= newestId
    BY <1>2, <2>1 DEF DriveRows
  <2>3. drive' = [drive EXCEPT ![o] = back] \/ drive' = [drive EXCEPT ![o] = failed]
    BY <1>15 DEF RestoreOne
  <2>4. names' \in Folders
    BY <1>3, <1>15, <2>1, Renamed DEF RestoreOne
  <2>5. /\ drive' \in [Operators -> DriveRows]
        /\ \A p \in Operators : drive'[p].found <= newestId'
    <3>1. newestId' = newestId
      BY <1>15 DEF RestoreOne
    <3> HIDE DEF back, failed, d
    <3> QED BY <1>3, <2>2, <2>3, <3>1, RowStep
  <2> QED BY <1>3, <1>4, <1>15, <2>4, <2>5 DEF RestoreOne, DriveTypes
<1>16. CASE UndoEnds(o)
  BY <1>2, <1>3, <1>5, <1>6, <1>16 DEF UndoEnds
<1>17. CASE ConnectionDrops(o)
  BY <1>3, <1>5, <1>6, <1>17 DEF ConnectionDrops
<1> QED BY <1>1, <1>7, <1>8, <1>9, <1>10, <1>11, <1>12, <1>13, <1>14, <1>15, <1>16, <1>17

(* What a step is, and that it leaves the other requests alone.             *)
Moves(o) ==
    \/ Preview(o) \/ ApplyBegins(o) \/ RenameOne(o) \/ FindOld(o)
    \/ Upload(o) \/ UploadRefused(o) \/ RemoveOld(o)
    \/ UndoBegins(o) \/ RestoreOne(o) \/ UndoEnds(o) \/ ConnectionDrops(o)

(* A request's step leaves the other requests' rows.                        *)
LEMMA OthersStay ==
    ASSUME DriveTypes, NEW o \in Operators, Moves(o)
    PROVE  \A p \in Operators \ {o} : drive'[p] = drive[p]
<1>1. drive \in [Operators -> DriveRows]
  BY DEF DriveTypes
<1> QED BY <1>1 DEF Moves, Preview, ApplyBegins, RenameOne, FindOld, Upload, UploadRefused, RemoveOld,
                    UndoBegins, RestoreOne, UndoEnds, ConnectionDrops

(* What a step does to the row of its request, and to no other.             *)
LEMMA DriveSteps ==
    ASSUME DriveTypes, NEW o \in Operators
    PROVE  /\ Preview(o) => /\ drive[o].pc = "free" /\ drive'[o].pc = "shown"
                            /\ drive'[o].done = drive[o].done
           /\ ApplyBegins(o) => /\ drive[o].pc = "shown" /\ drive'[o].pc = "rename"
                                /\ drive'[o].plan = drive[o].plan /\ drive'[o].done = drive[o].done
                                /\ drive'[o].before = names
           /\ RenameOne(o) =>
                /\ drive[o].pc = "rename" /\ drive'[o].pc = "rename"
                /\ drive[o].plan # << >> /\ drive'[o].plan = Tail(drive[o].plan)
                /\ drive'[o].before = drive[o].before
                /\ \/ /\ drive'[o].done = Append(drive[o].done, Head(drive[o].plan))
                      /\ names' = [names EXCEPT ![Head(drive[o].plan).file] = Head(drive[o].plan).new]
                   \/ drive'[o].done = drive[o].done /\ names' = names
           /\ FindOld(o) =>
                /\ drive[o].pc = "rename"
                /\ \/ drive[o].done = << >> /\ drive'[o] = NoRequest
                   \/ /\ drive'[o].pc = "upload" /\ drive'[o].done = drive[o].done
                      /\ drive'[o].before = drive[o].before
           /\ Upload(o) => drive[o].pc = "upload" /\ drive'[o].pc = "remove"
                           /\ drive'[o].found = drive[o].found
           /\ RemoveOld(o) => drive[o].pc = "remove" /\ drive'[o] = NoRequest
           /\ UndoBegins(o) =>
                /\ drive[o].pc = "free" /\ drive'[o].pc = "restore"
                /\ drive'[o].found = Newest /\ Newest # 0
                /\ drive'[o].before = manifests[Newest].before
                /\ drive'[o].plan = manifests[Newest].renames
           /\ RestoreOne(o) =>
                /\ drive[o].pc = "restore" /\ drive'[o].pc = "restore"
                /\ drive[o].plan # << >> /\ drive'[o].plan = Tail(drive[o].plan)
                /\ drive'[o].found = drive[o].found
                /\ drive'[o].before = drive[o].before
                /\ \/ /\ ~drive'[o].failed => ~drive[o].failed
                      /\ names' = [names EXCEPT ![Head(drive[o].plan).file] = Head(drive[o].plan).old]
                   \/ drive'[o].failed /\ names' = names
           /\ UndoEnds(o) => drive[o].pc = "restore" /\ drive'[o] = NoRequest /\ drive[o].plan = << >>
           /\ UploadRefused(o) => drive[o].pc = "upload" /\ drive'[o] = NoRequest
           /\ ConnectionDrops(o) => /\ drive[o].pc \in {"rename", "upload", "remove", "restore"}
                                    /\ drive'[o] = NoRequest
<1>1. drive \in [Operators -> DriveRows] /\ drive[o] \in DriveRows
  BY DEF DriveTypes
<1>2. NoRequest \in DriveRows
  BY NoRequestIs
<1>4. Preview(o) => drive[o].pc = "free" /\ drive'[o].pc = "shown" /\ drive'[o].done = drive[o].done
  BY <1>1 DEF Preview, DriveRows
<1>5. ApplyBegins(o) => /\ drive[o].pc = "shown" /\ drive'[o].pc = "rename"
                        /\ drive'[o].plan = drive[o].plan /\ drive'[o].done = drive[o].done
                        /\ drive'[o].before = names
  BY <1>1 DEF ApplyBegins, DriveRows
<1>6. RenameOne(o) =>
        /\ drive[o].pc = "rename" /\ drive'[o].pc = "rename"
        /\ drive[o].plan # << >> /\ drive'[o].plan = Tail(drive[o].plan)
        /\ drive'[o].before = drive[o].before
        /\ \/ /\ drive'[o].done = Append(drive[o].done, Head(drive[o].plan))
              /\ names' = [names EXCEPT ![Head(drive[o].plan).file] = Head(drive[o].plan).new]
           \/ drive'[o].done = drive[o].done /\ names' = names
  BY <1>1 DEF RenameOne, DriveRows
<1>7. FindOld(o) =>
        /\ drive[o].pc = "rename"
        /\ \/ drive[o].done = << >> /\ drive'[o] = NoRequest
           \/ /\ drive'[o].pc = "upload" /\ drive'[o].done = drive[o].done
              /\ drive'[o].before = drive[o].before
  BY <1>1 DEF FindOld, DriveRows
<1>8. Upload(o) => drive[o].pc = "upload" /\ drive'[o].pc = "remove" /\ drive'[o].found = drive[o].found
  BY <1>1 DEF Upload, DriveRows
<1>9. RemoveOld(o) => drive[o].pc = "remove" /\ drive'[o] = NoRequest
  BY <1>1, <1>2 DEF RemoveOld
<1>10. UndoBegins(o) =>
         /\ drive[o].pc = "free" /\ drive'[o].pc = "restore"
         /\ drive'[o].found = Newest /\ Newest # 0
         /\ drive'[o].before = manifests[Newest].before
         /\ drive'[o].plan = manifests[Newest].renames
  BY <1>1 DEF UndoBegins, FindManifest, NoRequest
<1>11. RestoreOne(o) =>
         /\ drive[o].pc = "restore" /\ drive'[o].pc = "restore"
         /\ drive[o].plan # << >> /\ drive'[o].plan = Tail(drive[o].plan)
         /\ drive'[o].found = drive[o].found
         /\ drive'[o].before = drive[o].before
         /\ \/ /\ ~drive'[o].failed => ~drive[o].failed
               /\ names' = [names EXCEPT ![Head(drive[o].plan).file] = Head(drive[o].plan).old]
            \/ drive'[o].failed /\ names' = names
  <2>1. SUFFICES ASSUME RestoreOne(o)
                 PROVE  /\ drive[o].pc = "restore" /\ drive'[o].pc = "restore"
                        /\ drive[o].plan # << >> /\ drive'[o].plan = Tail(drive[o].plan)
                        /\ drive'[o].found = drive[o].found
                        /\ drive'[o].before = drive[o].before
                        /\ \/ /\ ~drive'[o].failed => ~drive[o].failed
                              /\ names' = [names EXCEPT ![Head(drive[o].plan).file] = Head(drive[o].plan).old]
                           \/ drive'[o].failed /\ names' = names
    OBVIOUS
  <2>2. drive[o].pc = "restore" /\ drive[o].plan # << >>
    BY <2>1 DEF RestoreOne
  <2>3. CASE /\ names' = [names EXCEPT ![Head(drive[o].plan).file] = Head(drive[o].plan).old]
             /\ drive' = [drive EXCEPT ![o].plan = Tail(@)]
    <3>1. drive'[o] = [drive[o] EXCEPT !.plan = Tail(@)]
      BY <1>1, <2>3
    <3>2. drive'[o].failed = drive[o].failed
      BY <1>1, <3>1 DEF DriveRows
    <3>3. /\ drive'[o].pc = "restore" /\ drive'[o].plan = Tail(drive[o].plan)
          /\ drive'[o].found = drive[o].found /\ drive'[o].before = drive[o].before
      BY <1>1, <2>2, <3>1 DEF DriveRows
    <3> QED BY <2>2, <2>3, <3>2, <3>3
  <2>4. CASE drive' = [drive EXCEPT ![o].plan = Tail(@), ![o].failed = TRUE] /\ UNCHANGED names
    <3>1. drive'[o] = [drive[o] EXCEPT !.plan = Tail(@), !.failed = TRUE]
      BY <1>1, <2>4
    <3>2. drive'[o].failed
      BY <1>1, <3>1 DEF DriveRows
    <3>3. /\ drive'[o].pc = "restore" /\ drive'[o].plan = Tail(drive[o].plan)
          /\ drive'[o].found = drive[o].found /\ drive'[o].before = drive[o].before
      BY <1>1, <2>2, <3>1 DEF DriveRows
    <3> QED BY <2>2, <2>4, <3>2, <3>3
  <2> QED BY <2>1, <2>3, <2>4 DEF RestoreOne
<1>12. UndoEnds(o) => drive[o].pc = "restore" /\ drive'[o] = NoRequest /\ drive[o].plan = << >>
  BY <1>1 DEF UndoEnds
<1>13. /\ UploadRefused(o) => drive[o].pc = "upload" /\ drive'[o] = NoRequest
       /\ ConnectionDrops(o) => /\ drive[o].pc \in {"rename", "upload", "remove", "restore"}
                                /\ drive'[o] = NoRequest
  BY <1>1, SMTT(30) DEF UploadRefused, ConnectionDrops
<1> QED BY <1>4, <1>5, <1>6, <1>7, <1>8, <1>9, <1>10, <1>11, <1>12, <1>13

(* What went wrong stays on record.                                         *)
LEMMA MuddleStays ==
    ASSUME OrganizerNext
    PROVE  muddled \subseteq muddled'
  BY DEF OrganizerNext, Preview, ApplyBegins, RenameOne, FindOld, Upload, UploadRefused, RemoveOld,
         UndoBegins, RestoreOne, UndoEnds, ConnectionDrops

(* An apply or undo beside another is an overlap.                           *)
LEMMA OneBusyKept ==
    ASSUME DriveTypes, OneBusy, OrganizerNext
    PROVE  OneBusy'
<1> SUFFICES ASSUME "overlap" \notin muddled' PROVE \A o, p \in Busy' : o = p
  BY DEF OneBusy
<1>1. \A o, p \in Busy : o = p
  BY MuddleStays DEF OneBusy
<1>2. PICK o \in Operators : Moves(o)
  BY DEF OrganizerNext, Moves
<1>3. \A p \in Operators \ {o} : drive'[p] = drive[p]
  BY <1>2, OthersStay
<1>4. CASE ApplyBegins(o) \/ UndoBegins(o)
  <2>1. Overlap = {}
    BY <1>4 DEF ApplyBegins, UndoBegins, Overlap
  <2>2. Busy = {}
    BY <2>1 DEF Overlap, Quiet, Busy
  <2>3. Busy' \subseteq {o}
    BY <1>3, <2>2 DEF Busy
  <2> QED BY <2>3
<1>5. CASE ~(ApplyBegins(o) \/ UndoBegins(o))
  <2>1. o \in Busy' => o \in Busy
    BY <1>2, <1>5, DriveSteps, NoRequestIs DEF Busy, Moves
  <2>2. Busy' \subseteq Busy
    BY <1>3, <2>1 DEF Busy
  <2> QED BY <1>1, <2>2
<1> QED BY <1>4, <1>5

(* Whoever removes an old manifest has uploaded a newer one.                *)
LEMMA NewStaysKept ==
    ASSUME DriveTypes, OneBusy, NewStays, OrganizerNext
    PROVE  NewStays'
<1> SUFFICES ASSUME "overlap" \notin muddled', NEW p \in Operators, drive'[p].pc = "remove"
             PROVE  newestId' \in DOMAIN manifests' /\ drive'[p].found < newestId'
  BY DEF NewStays
<1>1. /\ \A o, q \in Busy : o = q
      /\ \A q \in Operators : drive[q].pc = "remove" =>
            newestId \in DOMAIN manifests /\ drive[q].found < newestId
  BY MuddleStays DEF OneBusy, NewStays
<1>2. PICK o \in Operators : Moves(o)
  BY DEF OrganizerNext, Moves
<1>3. \A q \in Operators \ {o} : drive'[q] = drive[q]
  BY <1>2, OthersStay
<1>4. CASE p = o
  <2>1. Upload(o)
    BY <1>2, <1>4, DriveSteps, NoRequestIs DEF Moves
  <2>2. newestId' = newestId + 1 /\ manifests' = Written(o) /\ drive'[o].found = drive[o].found
    BY <2>1, DriveSteps DEF Upload
  <2>3. drive[o].found <= newestId /\ drive[o].found \in Nat /\ newestId \in Nat
    BY RowFacts DEF DriveTypes
  <2>4. newestId + 1 \in DOMAIN Written(o)
    BY DEF Written
  <2> QED BY <1>4, <2>2, <2>3, <2>4
<1>5. CASE p # o
  <2>1. drive[p].pc = "remove" /\ drive'[p].found = drive[p].found /\ p \in Busy
    BY <1>3, <1>5 DEF Busy
  <2>2. newestId \in DOMAIN manifests /\ drive[p].found < newestId
    BY <1>1, <2>1
  <2>3. drive[o].pc \in {"free", "shown"}
    BY <1>1, <1>5, <2>1 DEF Busy
  <2>4. ~ (ApplyBegins(o) \/ UndoBegins(o))
    <3>1. SUFFICES ASSUME ApplyBegins(o) \/ UndoBegins(o) PROVE FALSE
      OBVIOUS
    <3>2. Overlap = {}
      BY <3>1 DEF ApplyBegins, UndoBegins, Overlap
    <3> QED BY <2>1, <3>2 DEF Overlap, Quiet
  <2>5. Preview(o)
    BY <1>2, <2>3, <2>4, DriveSteps DEF Moves
  <2> QED BY <2>1, <2>2, <2>5 DEF Preview
<1> QED BY <1>4, <1>5

(* The manifests go only with an undo that has put everything back.         *)
LEMMA Survives ==
    ASSUME DriveTypes, NewStays, OrganizerNext, "overlap" \notin muddled,
           manifests # << >>, manifests' = << >>
    PROVE  \E o \in Operators : drive[o].pc = "restore" /\ drive[o].plan = << >> /\ ~drive[o].failed
<1>1. PICK o \in Operators : Moves(o)
  BY DEF OrganizerNext, Moves
<1>2. DOMAIN manifests' = {}
  OBVIOUS
<1>3. ~ Upload(o)
  <2>1. newestId + 1 \in DOMAIN Written(o)
    BY DEF Written
  <2> QED BY <1>2, <2>1 DEF Upload
<1>4. ~ RemoveOld(o)
  <2>1. SUFFICES ASSUME RemoveOld(o) PROVE FALSE
    OBVIOUS
  <2>2. newestId \in DOMAIN manifests /\ drive[o].found < newestId
    BY <2>1, DriveSteps DEF NewStays
  <2>3. drive[o].found \in Nat /\ newestId \in Nat
    BY RowFacts DEF DriveTypes
  <2>4. newestId \in DOMAIN Without(drive[o].found)
    BY <2>2, <2>3 DEF Without
  <2>5. manifests' = manifests \/ manifests' = Without(drive[o].found)
    BY <2>1, SMTT(30) DEF RemoveOld
  <2> QED BY <1>2, <2>2, <2>4, <2>5
<1>5. UndoEnds(o)
  BY <1>1, <1>3, <1>4 DEF Moves, Preview, ApplyBegins, RenameOne, FindOld, UploadRefused, UndoBegins,
                          RestoreOne, ConnectionDrops
<1> QED BY <1>5 DEF UndoEnds

-----------------------------------------------------------------------------
(* Undo: what the manifests and the requests at work say of the names.      *)
FilesIn(plan) == {e.file : e \in ToSet(plan)}
Matches(plan, before) == \A e \in ToSet(plan) : e.old = before[e.file]
Follows(m, n) == m < n /\ \A k \in DOMAIN manifests : ~ (m < k /\ k < n)
IsNewest(m) == \A k \in DOMAIN manifests : k <= m

(* A manifest's entries are of the names before its apply; other files were *)
(* as the next manifest found them.                                         *)
Told == \A m \in DOMAIN manifests : Matches(manifests[m].renames, manifests[m].before)
Chained ==
    \A m, n \in DOMAIN manifests : Follows(m, n) =>
        \A f \in Files \ FilesIn(manifests[m].renames) : manifests[m].before[f] = manifests[n].before[f]

(* Before the apply under way, or now, they are as the newest left them.    *)
Applying(o) == drive[o].pc \in {"rename", "upload"}
UpToDate ==
    \A m \in DOMAIN manifests : IsNewest(m) =>
        \A f \in Files \ FilesIn(manifests[m].renames) :
            /\ \A o \in Operators : Applying(o) => manifests[m].before[f] = drive[o].before[f]
            /\ (\A o \in Operators : ~ Applying(o)) => manifests[m].before[f] = names[f]

(* An apply knows what it has renamed, an undo what it has yet to restore.  *)
Applies(o) ==
    Applying(o) =>
        /\ Matches(drive[o].done, drive[o].before)
        /\ drive[o].pc = "rename" => Matches(drive[o].plan, drive[o].before)
        /\ \A f \in Files \ FilesIn(drive[o].done) : names[f] = drive[o].before[f]
Restores(o) ==
    drive[o].pc = "restore" =>
        /\ drive[o].found \in DOMAIN manifests /\ IsNewest(drive[o].found)
        /\ drive[o].before = manifests[drive[o].found].before
        /\ Matches(drive[o].plan, drive[o].before)
        /\ FilesIn(drive[o].plan) \subseteq FilesIn(manifests[drive[o].found].renames)
        /\ ~ drive[o].failed =>
              \A f \in Files \ FilesIn(drive[o].plan) : names[f] = drive[o].before[f]
AtRest(o) == drive[o].pc \in {"free", "shown"} => drive[o].done = << >>
Undone == lastUndo # NoUndo => names = lastUndo /\ Busy = {}

UndoInv ==
    muddled = {} => /\ Told /\ Chained /\ UpToDate /\ Undone
                    /\ \A o \in Operators : Applies(o) /\ Restores(o)

(* A request at rest has renamed nothing.                                   *)
LEMMA AtRestKept ==
    ASSUME DriveTypes, \A o \in Operators : AtRest(o), OrganizerNext
    PROVE  \A o \in Operators : AtRest(o)'
<1> SUFFICES ASSUME NEW p \in Operators, drive'[p].pc \in {"free", "shown"} PROVE drive'[p].done = << >>
  BY DEF AtRest
<1>1. PICK o \in Operators : Moves(o)
  BY DEF OrganizerNext, Moves
<1>2. CASE p # o
  BY <1>1, <1>2, OthersStay DEF AtRest
<1>3. CASE p = o
  <2>1. CASE Preview(o)
    BY <1>3, <2>1, DriveSteps DEF AtRest
  <2>2. CASE ~ Preview(o)
    <3>1. drive'[o] = NoRequest
      BY <1>1, <1>3, <2>2, DriveSteps DEF Moves
    <3> QED BY <1>3, <3>1 DEF NoRequest
  <2> QED BY <2>1, <2>2
<1> QED BY <1>2, <1>3

(* A request that goes on without muddle has the folder to itself.          *)
LEMMA Solo ==
    ASSUME DriveTypes, OneBusy, NEW o \in Operators, Moves(o), ~ Preview(o), muddled' = {}
    PROVE  /\ muddled = {}
           /\ \A p \in Operators \ {o} : drive'[p] = drive[p] /\ drive[p].pc \in {"free", "shown"}
<1>1. muddled = {}
  BY MuddleStays DEF OrganizerNext, Moves
<1>2. CASE ApplyBegins(o) \/ UndoBegins(o)
  <2>1. Overlap = {}
    BY <1>2 DEF ApplyBegins, UndoBegins
  <2>2. \A p \in Operators : drive[p].pc \in {"free", "shown"}
    BY <2>1 DEF Overlap, Quiet
  <2> QED BY <1>1, <2>2, OthersStay
<1>3. CASE ~ (ApplyBegins(o) \/ UndoBegins(o))
  <2>1. o \in Busy
    BY <1>3, DriveSteps DEF Moves, Busy
  <2>2. \A p \in Busy : p = o
    BY <1>1, <2>1 DEF OneBusy
  <2> QED BY <1>1, <2>2, OthersStay DEF Busy
<1> QED BY <1>2, <1>3

(* A preview disturbs nothing.                                              *)
LEMMA UndoPreview ==
    ASSUME DriveTypes, UndoInv, NEW o \in Operators, Preview(o)
    PROVE  UndoInv'
<1> SUFFICES ASSUME muddled' = {}
             PROVE  /\ Told' /\ Chained' /\ UpToDate' /\ Undone'
                    /\ \A p \in Operators : Applies(p)' /\ Restores(p)'
  BY DEF UndoInv
<1>1. UNCHANGED <<names, manifests, newestId, lastUndo, muddled>>
  BY DEF Preview
<1>2. /\ Told /\ Chained /\ UpToDate /\ Undone
      /\ \A p \in Operators : Applies(p) /\ Restores(p)
  BY <1>1 DEF UndoInv
<1>3. drive[o].pc = "free" /\ drive'[o].pc = "shown" /\ \A p \in Operators \ {o} : drive'[p] = drive[p]
  BY DriveSteps, OthersStay DEF Moves
<1>4. \A p \in Operators : Applying(p)' <=> Applying(p)
  BY <1>3 DEF Applying
<1>5. Told' /\ Chained'
  BY <1>1, <1>2 DEF Told, Chained, Matches, Follows, FilesIn
<1>6. UpToDate'
  BY <1>1, <1>2, <1>3, <1>4 DEF UpToDate, IsNewest, FilesIn, Applying
<1>7. Undone'
  BY <1>1, <1>2, <1>3 DEF Undone, Busy
<1>8. ASSUME NEW p \in Operators PROVE Applies(p)' /\ Restores(p)'
  <2>1. CASE p = o
    BY <1>3, <2>1 DEF Applies, Restores, Applying
  <2>2. CASE p # o
    BY <1>1, <1>2, <1>3, <2>2 DEF Applies, Restores, Applying, Matches, FilesIn, IsNewest
  <2> QED BY <2>1, <2>2
<1> QED BY <1>5, <1>6, <1>7, <1>8

(* An apply begins from the names as they are.                              *)
LEMMA UndoApply ==
    ASSUME DriveTypes, OneBusy, UndoInv, \A p \in Operators : AtRest(p), NEW o \in Operators, ApplyBegins(o)
    PROVE  UndoInv'
<1> SUFFICES ASSUME muddled' = {}
             PROVE  /\ Told' /\ Chained' /\ UpToDate' /\ Undone'
                    /\ \A p \in Operators : Applies(p)' /\ Restores(p)'
  BY DEF UndoInv
<1>1. UNCHANGED <<names, manifests>> /\ lastUndo' = NoUndo
  BY SMTT(30) DEF ApplyBegins
<1>2. /\ muddled = {}
      /\ \A p \in Operators \ {o} : drive'[p] = drive[p] /\ drive[p].pc \in {"free", "shown"}
      /\ drive[o].pc = "shown"
  BY Solo, DriveSteps DEF Moves, ApplyBegins, Preview
<1>3. Told /\ Chained /\ UpToDate
  BY <1>2 DEF UndoInv
<1>4. /\ drive'[o].pc = "rename" /\ drive'[o].plan = drive[o].plan /\ drive'[o].done = << >>
      /\ drive'[o].before = names
  BY <1>2, DriveSteps DEF AtRest
<1>5. Matches(drive[o].plan, names)
  <2>1. {"stale" : e \in {e \in ToSet(drive[o].plan) : e.old # names[e.file]}} = {}
    BY DEF ApplyBegins
  <2> QED BY <2>1 DEF Matches
<1>6. Told' /\ Chained'
  BY <1>1, <1>3 DEF Told, Chained, Matches, Follows, FilesIn
<1>7. UpToDate'
  <2>1. \A p \in Operators : ~ Applying(p)
    BY <1>2 DEF Applying
  <2>2. \A p \in Operators : Applying(p)' => drive'[p].before = names
    BY <1>2, <1>4 DEF Applying
  <2>3. Applying(o)'
    BY <1>4 DEF Applying
  <2>4. \A m \in DOMAIN manifests : IsNewest(m) =>
          \A f \in Files \ FilesIn(manifests[m].renames) : manifests[m].before[f] = names[f]
    BY <1>3, <2>1 DEF UpToDate
  <2> QED BY <1>1, <2>2, <2>3, <2>4 DEF UpToDate, IsNewest, FilesIn
<1>8. Undone'
  BY <1>1 DEF Undone
<1>9. ASSUME NEW p \in Operators PROVE Applies(p)' /\ Restores(p)'
  <2>1. CASE p = o
    <3>1. Matches(drive'[o].plan, drive'[o].before)
      BY <1>4, <1>5
    <3>2. Matches(drive'[o].done, drive'[o].before)
      BY <1>4 DEF Matches, ToSet
    <3>3. \A f \in Files : names'[f] = drive'[o].before[f]
      BY <1>1, <1>4
    <3> QED BY <1>4, <2>1, <3>1, <3>2, <3>3 DEF Applies, Restores, Applying, Matches
  <2>2. CASE p # o
    BY <1>2, <2>2 DEF Applies, Restores, Applying
  <2> QED BY <2>1, <2>2
<1> QED BY <1>6, <1>7, <1>8, <1>9

(* A file renamed is one of those done.                                     *)
LEMMA UndoRename ==
    ASSUME DriveTypes, OneBusy, UndoInv, NEW o \in Operators, RenameOne(o)
    PROVE  UndoInv'
<1> SUFFICES ASSUME muddled' = {}
             PROVE  /\ Told' /\ Chained' /\ UpToDate' /\ Undone'
                    /\ \A p \in Operators : Applies(p)' /\ Restores(p)'
  BY DEF UndoInv
<1>1. UNCHANGED <<manifests, lastUndo>>
  BY SMTT(60) DEF RenameOne
<1> DEFINE e == Head(drive[o].plan)
<1>2. /\ muddled = {}
      /\ \A p \in Operators \ {o} : drive'[p] = drive[p] /\ drive[p].pc \in {"free", "shown"}
      /\ drive[o].pc = "rename" /\ drive'[o].pc = "rename"
      /\ drive'[o].plan = Tail(drive[o].plan) /\ drive'[o].before = drive[o].before
      /\ \/ drive'[o].done = Append(drive[o].done, e) /\ names' = [names EXCEPT ![e.file] = e.new]
         \/ drive'[o].done = drive[o].done /\ names' = names
  BY Solo, DriveSteps DEF Moves, RenameOne, Preview
<1>3. Told /\ Chained /\ UpToDate /\ Undone /\ Applies(o)
  BY <1>2 DEF UndoInv
<1>4. /\ e \in ToSet(drive[o].plan) /\ ToSet(Tail(drive[o].plan)) \subseteq ToSet(drive[o].plan)
      /\ ToSet(Append(drive[o].done, e)) = ToSet(drive[o].done) \cup {e}
  <2>1. drive[o].plan \in Seq(Entries) /\ drive[o].done \in Seq(Entries) /\ drive[o].plan # << >>
    BY RowFacts DEF RenameOne
  <2> QED BY <2>1, Elements
<1>5. Told' /\ Chained'
  BY <1>1, <1>3 DEF Told, Chained, Matches, Follows, FilesIn
<1>6. UpToDate'
  <2>1. \A p \in Operators : Applying(p)' => Applying(p) /\ drive'[p].before = drive[p].before
    BY <1>2 DEF Applying
  <2>2. Applying(o)'
    BY <1>2 DEF Applying
  <2> QED BY <1>1, <1>3, <2>1, <2>2 DEF UpToDate, IsNewest, FilesIn
<1>7. Undone'
  BY <1>1, <1>2, <1>3 DEF Undone, Busy
<1>8. Applies(o)'
  <2>1. /\ Matches(drive[o].done, drive[o].before) /\ Matches(drive[o].plan, drive[o].before)
        /\ \A f \in Files \ FilesIn(drive[o].done) : names[f] = drive[o].before[f]
    BY <1>2, <1>3 DEF Applies, Applying
  <2>2. Matches(drive'[o].plan, drive'[o].before)
    BY <1>2, <1>4, <2>1 DEF Matches
  <2>3. CASE drive'[o].done = Append(drive[o].done, e) /\ names' = [names EXCEPT ![e.file] = e.new]
    <3>1. Matches(drive'[o].done, drive'[o].before)
      BY <1>2, <1>4, <2>1, <2>3 DEF Matches
    <3>2. FilesIn(drive'[o].done) = FilesIn(drive[o].done) \cup {e.file}
      BY <1>4, <2>3 DEF FilesIn
    <3>3. \A f \in Files \ FilesIn(drive'[o].done) : names'[f] = drive'[o].before[f]
      BY <1>2, <2>1, <2>3, <3>2 DEF DriveTypes, Folders
    <3> QED BY <2>2, <3>1, <3>3 DEF Applies, Matches, FilesIn
  <2>4. CASE drive'[o].done = drive[o].done /\ names' = names
    BY <1>2, <2>1, <2>2, <2>4 DEF Applies, Matches, FilesIn
  <2> QED BY <1>2, <2>3, <2>4
<1>9. ASSUME NEW p \in Operators PROVE Applies(p)' /\ Restores(p)'
  <2>1. CASE p = o
    BY <1>2, <1>8, <2>1 DEF Restores
  <2>2. CASE p # o
    BY <1>2, <2>2 DEF Applies, Restores, Applying
  <2> QED BY <2>1, <2>2
<1> QED BY <1>5, <1>6, <1>7, <1>9

(* An apply that renamed nothing has left the names as they were.           *)
LEMMA UndoFind ==
    ASSUME DriveTypes, OneBusy, UndoInv, NEW o \in Operators, FindOld(o)
    PROVE  UndoInv'
<1> SUFFICES ASSUME muddled' = {}
             PROVE  /\ Told' /\ Chained' /\ UpToDate' /\ Undone'
                    /\ \A p \in Operators : Applies(p)' /\ Restores(p)'
  BY DEF UndoInv
<1>1. UNCHANGED <<names, manifests, lastUndo>>
  BY SMTT(30) DEF FindOld
<1>2. /\ muddled = {}
      /\ \A p \in Operators \ {o} : drive'[p] = drive[p] /\ drive[p].pc \in {"free", "shown"}
      /\ drive[o].pc = "rename"
      /\ \/ drive[o].done = << >> /\ drive'[o].pc = "free"
         \/ /\ drive'[o].pc = "upload" /\ drive'[o].done = drive[o].done
            /\ drive'[o].before = drive[o].before
  BY Solo, DriveSteps, NoRequestIs DEF Moves, FindOld, Preview
<1>3. Told /\ Chained /\ UpToDate /\ Undone /\ Applies(o)
  BY <1>2 DEF UndoInv
<1>4. Told' /\ Chained'
  BY <1>1, <1>3 DEF Told, Chained, Matches, Follows, FilesIn
<1>5. Undone'
  BY <1>1, <1>2, <1>3 DEF Undone, Busy
<1>6. /\ Matches(drive[o].done, drive[o].before)
      /\ \A f \in Files \ FilesIn(drive[o].done) : names[f] = drive[o].before[f]
  BY <1>2, <1>3 DEF Applies, Applying
<1>7. \A m \in DOMAIN manifests : IsNewest(m) =>
        \A f \in Files \ FilesIn(manifests[m].renames) : manifests[m].before[f] = drive[o].before[f]
  BY <1>2, <1>3 DEF UpToDate, Applying
<1>8. CASE drive[o].done = << >> /\ drive'[o].pc = "free"
  <2>1. \A f \in Files : names[f] = drive[o].before[f]
    BY <1>6, <1>8 DEF FilesIn, ToSet
  <2>2. \A p \in Operators : ~ Applying(p)'
    BY <1>2, <1>8 DEF Applying
  <2>3. UpToDate'
    BY <1>1, <1>7, <2>1, <2>2 DEF UpToDate, IsNewest, FilesIn
  <2>4. \A p \in Operators : Applies(p)' /\ Restores(p)'
    BY <1>2, <1>8 DEF Applies, Restores, Applying
  <2> QED BY <1>4, <1>5, <2>3, <2>4
<1>9. CASE /\ drive'[o].pc = "upload" /\ drive'[o].done = drive[o].done
           /\ drive'[o].before = drive[o].before
  <2>1. Applying(o)' /\ \A p \in Operators \ {o} : ~ Applying(p)'
    BY <1>2, <1>9 DEF Applying
  <2>2. UpToDate'
    BY <1>1, <1>7, <1>9, <2>1 DEF UpToDate, IsNewest, FilesIn
  <2>3. ASSUME NEW p \in Operators PROVE Applies(p)' /\ Restores(p)'
    <3>1. CASE p = o
      BY <1>1, <1>6, <1>9, <3>1 DEF Applies, Restores, Applying, Matches, FilesIn
    <3>2. CASE p # o
      BY <1>2, <3>2 DEF Applies, Restores, Applying
    <3> QED BY <3>1, <3>2
  <2> QED BY <1>4, <1>5, <2>2, <2>3
<1> QED BY <1>2, <1>8, <1>9

(* The manifest written tells what was done, and links to the one before.   *)
LEMMA UndoUpload ==
    ASSUME DriveTypes, OneBusy, UndoInv, NEW o \in Operators, Upload(o)
    PROVE  UndoInv'
<1> SUFFICES ASSUME muddled' = {}
             PROVE  /\ Told' /\ Chained' /\ UpToDate' /\ Undone'
                    /\ \A p \in Operators : Applies(p)' /\ Restores(p)'
  BY DEF UndoInv
<1>1. names' = names /\ lastUndo' = lastUndo /\ manifests' = Written(o)
  BY DEF Upload
<1>2. /\ muddled = {}
      /\ \A p \in Operators \ {o} : drive'[p] = drive[p] /\ drive[p].pc \in {"free", "shown"}
      /\ drive[o].pc = "upload" /\ drive'[o].pc = "remove"
  BY Solo, DriveSteps DEF Moves, Upload, Preview
<1>3. Told /\ Chained /\ UpToDate /\ Undone /\ Applies(o)
  BY <1>2 DEF UndoInv
<1>4. /\ Matches(drive[o].done, drive[o].before)
      /\ \A f \in Files \ FilesIn(drive[o].done) : names[f] = drive[o].before[f]
  BY <1>2, <1>3 DEF Applies, Applying
<1>5. PICK id \in Nat : id = newestId + 1 /\ id \notin DOMAIN manifests
                         /\ \A m \in DOMAIN manifests : m \in Nat /\ m < id
  BY DEF DriveTypes
<1>6. /\ DOMAIN manifests' = DOMAIN manifests \cup {id}
      /\ \A m \in DOMAIN manifests : manifests'[m] = manifests[m]
      /\ manifests'[id] = [renames |-> drive[o].done, before |-> drive[o].before]
  BY <1>1, <1>5 DEF Written
<1>7. \A m \in DOMAIN manifests : Follows(m, id)' => IsNewest(m)
  BY <1>5, <1>6 DEF Follows, IsNewest
<1>8. \A m, n \in DOMAIN manifests : Follows(m, n)' => Follows(m, n)
  BY <1>6 DEF Follows
<1>9. Told'
  BY <1>3, <1>4, <1>6 DEF Told, Matches
<1>10. Chained'
  <2> SUFFICES ASSUME NEW m \in DOMAIN manifests', NEW n \in DOMAIN manifests', Follows(m, n)',
                      NEW f \in Files, f \notin FilesIn(manifests'[m].renames)
               PROVE  manifests'[m].before[f] = manifests'[n].before[f]
    BY DEF Chained, FilesIn
  <2>1. m < n
    BY DEF Follows
  <2>2. m # id
    <3>1. SUFFICES ASSUME m = id PROVE FALSE
      OBVIOUS
    <3>2. n = id \/ (n < id /\ n \in Nat)
      BY <1>5, <1>6
    <3> QED BY <1>5, <2>1, <3>1, <3>2
  <2>3. m \in DOMAIN manifests /\ manifests'[m] = manifests[m]
    BY <1>6, <2>2
  <2>4. CASE n = id
    <3>1. IsNewest(m)
      BY <1>7, <2>3, <2>4
    <3>2. f \notin FilesIn(manifests[m].renames)
      BY <2>3
    <3>3. manifests[m].before[f] = drive[o].before[f]
      BY <1>2, <1>3, <2>3, <3>1, <3>2 DEF UpToDate, Applying
    <3> QED BY <1>6, <2>3, <2>4, <3>3
  <2>5. CASE n # id
    <3>1. n \in DOMAIN manifests /\ manifests'[n] = manifests[n] /\ Follows(m, n)
      BY <1>6, <1>8, <2>3, <2>5
    <3> QED BY <1>3, <2>3, <3>1 DEF Chained
  <2> QED BY <2>4, <2>5
<1>11. UpToDate'
  <2>1. \A p \in Operators : ~ Applying(p)'
    BY <1>2 DEF Applying
  <2>2. ASSUME NEW m \in DOMAIN manifests', IsNewest(m)' PROVE m = id
    <3>1. id <= m
      BY <1>6, <2>2 DEF IsNewest
    <3>2. m = id \/ (m < id /\ m \in Nat)
      BY <1>5, <1>6
    <3> QED BY <1>5, <3>1, <3>2
  <2>3. \A f \in Files \ FilesIn(manifests'[id].renames) : manifests'[id].before[f] = names'[f]
    BY <1>1, <1>4, <1>6
  <2> QED BY <2>1, <2>2, <2>3 DEF UpToDate, FilesIn
<1>12. Undone'
  BY <1>1, <1>2, <1>3 DEF Undone, Busy
<1>13. \A p \in Operators : Applies(p)' /\ Restores(p)'
  BY <1>2 DEF Applies, Restores, Applying
<1> QED BY <1>9, <1>10, <1>11, <1>12, <1>13

(* An old manifest goes without a gap, so it was the oldest.                *)
LEMMA UndoRemove ==
    ASSUME DriveTypes, OneBusy, NewStays, UndoInv, NEW o \in Operators, RemoveOld(o)
    PROVE  UndoInv'
<1> SUFFICES ASSUME muddled' = {}
             PROVE  /\ Told' /\ Chained' /\ UpToDate' /\ Undone'
                    /\ \A p \in Operators : Applies(p)' /\ Restores(p)'
  BY DEF UndoInv
<1> DEFINE old == drive[o].found
<1>1. names' = names /\ lastUndo' = lastUndo
  BY DEF RemoveOld
<1>2. /\ muddled = {}
      /\ \A p \in Operators \ {o} : drive'[p] = drive[p] /\ drive[p].pc \in {"free", "shown"}
      /\ drive[o].pc = "remove" /\ drive'[o].pc = "free"
  BY Solo, DriveSteps, NoRequestIs DEF Moves, RemoveOld, Preview
<1>3. Told /\ Chained /\ UpToDate /\ Undone
  BY <1>2 DEF UndoInv
<1>4. \A p \in Operators : ~ Applying(p) /\ ~ Applying(p)' /\ drive'[p].pc \in {"free", "shown"}
  BY <1>2 DEF Applying
<1>5. newestId \in DOMAIN manifests /\ old < newestId /\ old \in Nat /\ newestId \in Nat
      /\ DOMAIN manifests \subseteq Nat
  BY <1>2, RowFacts DEF NewStays, DriveTypes
<1>6. \/ manifests' = manifests
      \/ manifests' = Without(old) /\ \A m \in DOMAIN manifests : ~ (m < old)
  <2>1. CASE manifests' = Without(old)
             /\ muddled' = muddled \cup {"gap" : m \in {m \in DOMAIN manifests : m < old}}
    <3>1. {"gap" : m \in {m \in DOMAIN manifests : m < old}} = {}
      BY <2>1
    <3> QED BY <2>1, <3>1
  <2> QED BY <2>1 DEF RemoveOld
<1>7. /\ DOMAIN manifests' \subseteq DOMAIN manifests
      /\ \A m \in DOMAIN manifests' : manifests'[m] = manifests[m]
      /\ \A k \in DOMAIN manifests \ DOMAIN manifests' : k = old /\ \A m \in DOMAIN manifests : ~ (m < k)
      /\ newestId \in DOMAIN manifests'
  BY <1>5, <1>6 DEF Without
<1>8. \A m, n \in DOMAIN manifests' : Follows(m, n)' => Follows(m, n)
  BY <1>7 DEF Follows
<1>9. \A m \in DOMAIN manifests' : IsNewest(m)' => IsNewest(m)
  <2> SUFFICES ASSUME NEW m \in DOMAIN manifests', IsNewest(m)', NEW k \in DOMAIN manifests
               PROVE  k <= m
    BY DEF IsNewest
  <2>1. CASE k \in DOMAIN manifests'
    BY <2>1 DEF IsNewest
  <2>2. CASE k \notin DOMAIN manifests'
    <3>1. ~ (m < k) /\ m \in Nat /\ k \in Nat
      BY <1>5, <1>7, <2>2
    <3> QED BY <3>1
  <2> QED BY <2>1, <2>2
<1>10. Told'
  BY <1>3, <1>7 DEF Told, Matches
<1>11. Chained'
  BY <1>3, <1>7, <1>8 DEF Chained, FilesIn
<1>12. UpToDate'
  BY <1>1, <1>3, <1>4, <1>7, <1>9 DEF UpToDate, FilesIn
<1>13. Undone'
  BY <1>1, <1>2, <1>3 DEF Undone, Busy
<1>14. \A p \in Operators : Applies(p)' /\ Restores(p)'
  BY <1>4 DEF Applies, Restores, Applying
<1> QED BY <1>10, <1>11, <1>12, <1>13, <1>14

(* An undo begins with the newest manifest, which tells the names.          *)
LEMMA UndoUndo ==
    ASSUME DriveTypes, OneBusy, UndoInv, NEW o \in Operators, UndoBegins(o)
    PROVE  UndoInv'
<1> SUFFICES ASSUME muddled' = {}
             PROVE  /\ Told' /\ Chained' /\ UpToDate' /\ Undone'
                    /\ \A p \in Operators : Applies(p)' /\ Restores(p)'
  BY DEF UndoInv
<1>1. UNCHANGED <<names, manifests>> /\ lastUndo' = NoUndo
  BY DEF UndoBegins
<1>2. /\ muddled = {}
      /\ \A p \in Operators \ {o} : drive'[p] = drive[p] /\ drive[p].pc \in {"free", "shown"}
      /\ drive[o].pc = "free" /\ drive'[o].pc = "restore" /\ Newest # 0
      /\ drive'[o].found = Newest /\ drive'[o].before = manifests[Newest].before
      /\ drive'[o].plan = manifests[Newest].renames
  BY Solo, DriveSteps DEF Moves, UndoBegins, Preview
<1>3. Told /\ Chained /\ UpToDate
  BY <1>2 DEF UndoInv
<1>4. Newest \in DOMAIN manifests /\ IsNewest(Newest)
  BY <1>2, NewestIs DEF IsNewest
<1>5. \A p \in Operators : ~ Applying(p) /\ ~ Applying(p)'
  BY <1>2 DEF Applying
<1>6. \A f \in Files \ FilesIn(manifests[Newest].renames) : manifests[Newest].before[f] = names[f]
  BY <1>3, <1>4, <1>5 DEF UpToDate
<1>7. Matches(manifests[Newest].renames, manifests[Newest].before)
  BY <1>3, <1>4 DEF Told
<1>8. Told' /\ Chained'
  BY <1>1, <1>3 DEF Told, Chained, Matches, Follows, FilesIn
<1>9. UpToDate'
  BY <1>1, <1>3, <1>5 DEF UpToDate, IsNewest, FilesIn
<1>10. Undone'
  BY <1>1 DEF Undone
<1>11. Restores(o)'
  <2> DEFINE new == Newest
  <2> HIDE DEF new
  <2>1. /\ drive'[o].found = new /\ drive'[o].before = manifests[new].before
        /\ drive'[o].plan = manifests[new].renames
        /\ new \in DOMAIN manifests /\ IsNewest(new)
        /\ Matches(manifests[new].renames, manifests[new].before)
        /\ \A f \in Files \ FilesIn(manifests[new].renames) : manifests[new].before[f] = names[f]
    BY <1>2, <1>4, <1>6, <1>7 DEF new
  <2> QED BY <1>1, <2>1 DEF Restores, IsNewest, Matches, FilesIn
<1>12. ASSUME NEW p \in Operators PROVE Applies(p)' /\ Restores(p)'
  <2>1. CASE p = o
    BY <1>2, <1>11, <2>1 DEF Applies, Applying
  <2>2. CASE p # o
    BY <1>2, <2>2 DEF Applies, Restores, Applying
  <2> QED BY <2>1, <2>2
<1> QED BY <1>8, <1>9, <1>10, <1>12

(* A file restored, or counted as failed.                                   *)
LEMMA UndoRestore ==
    ASSUME DriveTypes, OneBusy, UndoInv, NEW o \in Operators, RestoreOne(o)
    PROVE  UndoInv'
<1> SUFFICES ASSUME muddled' = {}
             PROVE  /\ Told' /\ Chained' /\ UpToDate' /\ Undone'
                    /\ \A p \in Operators : Applies(p)' /\ Restores(p)'
  BY DEF UndoInv
<1>1. UNCHANGED <<manifests, lastUndo>>
  BY SMTT(60) DEF RestoreOne
<1> DEFINE e == Head(drive[o].plan)
<1>2. /\ muddled = {}
      /\ \A p \in Operators \ {o} : drive'[p] = drive[p] /\ drive[p].pc \in {"free", "shown"}
      /\ drive[o].pc = "restore" /\ drive'[o].pc = "restore"
      /\ drive'[o].plan = Tail(drive[o].plan) /\ drive'[o].before = drive[o].before
      /\ drive'[o].found = drive[o].found
      /\ \/ /\ ~drive'[o].failed => ~drive[o].failed
            /\ names' = [names EXCEPT ![e.file] = e.old]
         \/ drive'[o].failed /\ names' = names
  BY Solo, DriveSteps DEF Moves, RestoreOne, Preview
<1>3. Told /\ Chained /\ UpToDate /\ Undone /\ Restores(o)
  BY <1>2 DEF UndoInv
<1>4. /\ drive[o].found \in DOMAIN manifests /\ IsNewest(drive[o].found)
      /\ drive[o].before = manifests[drive[o].found].before
      /\ Matches(drive[o].plan, drive[o].before)
      /\ FilesIn(drive[o].plan) \subseteq FilesIn(manifests[drive[o].found].renames)
      /\ ~ drive[o].failed =>
            \A f \in Files \ FilesIn(drive[o].plan) : names[f] = drive[o].before[f]
  BY <1>2, <1>3 DEF Restores
<1>5. ToSet(drive[o].plan) = {e} \cup ToSet(Tail(drive[o].plan))
  <2>1. drive[o].plan \in Seq(Entries) /\ drive[o].plan # << >>
    BY RowFacts DEF RestoreOne
  <2> QED BY <2>1, Elements
<1>6. FilesIn(drive[o].plan) = {e.file} \cup FilesIn(Tail(drive[o].plan))
  BY <1>5 DEF FilesIn
<1>7. e.old = drive[o].before[e.file] /\ Matches(Tail(drive[o].plan), drive[o].before)
  BY <1>4, <1>5 DEF Matches
<1>8. \A f \in Files : f # e.file => names'[f] = names[f]
  BY <1>2 DEF DriveTypes, Folders
<1>9. \A p \in Operators : ~ Applying(p) /\ ~ Applying(p)'
  BY <1>2 DEF Applying
<1>10. Told' /\ Chained'
  BY <1>1, <1>3 DEF Told, Chained, Matches, Follows, FilesIn
<1>11. UpToDate'
  <2>1. ASSUME NEW m \in DOMAIN manifests, IsNewest(m) PROVE m = drive[o].found
    <3>1. m <= drive[o].found /\ drive[o].found <= m
      BY <1>4, <2>1 DEF IsNewest
    <3>2. m \in Nat /\ drive[o].found \in Nat
      BY RowFacts DEF DriveTypes
    <3> QED BY <3>1, <3>2
  <2> DEFINE m == drive[o].found
  <2>2. \A f \in Files \ FilesIn(manifests[m].renames) : manifests[m].before[f] = names[f]
    BY <1>3, <1>4, <1>9 DEF UpToDate
  <2>3. e.file \in FilesIn(manifests[m].renames)
    BY <1>4, <1>6
  <2>4. \A f \in Files \ FilesIn(manifests[m].renames) : manifests[m].before[f] = names'[f]
    BY <1>8, <2>2, <2>3
  <2> HIDE DEF m
  <2>5. \A k \in DOMAIN manifests : IsNewest(k) => k = m
    BY <2>1 DEF m
  <2> QED BY <1>1, <1>9, <2>4, <2>5 DEF UpToDate, IsNewest, FilesIn
<1>12. Undone'
  BY <1>1, <1>2, <1>3 DEF Undone, Busy
<1>13. Restores(o)'
  <2>1. FilesIn(drive'[o].plan) \subseteq FilesIn(manifests[drive[o].found].renames)
    BY <1>2, <1>4, <1>6
  <2>2. Matches(drive'[o].plan, drive'[o].before)
    BY <1>2, <1>7
  <2>3. ASSUME ~ drive'[o].failed, NEW f \in Files, f \notin FilesIn(Tail(drive[o].plan))
        PROVE  names'[f] = drive[o].before[f]
    <3>1. ~ drive[o].failed /\ names' = [names EXCEPT ![e.file] = e.old]
      BY <1>2, <2>3
    <3>2. CASE f = e.file
      BY <1>7, <3>1, <3>2 DEF DriveTypes, Folders
    <3>3. CASE f # e.file
      <4>1. f \notin FilesIn(drive[o].plan)
        BY <1>6, <2>3, <3>3
      <4> QED BY <1>4, <1>8, <3>1, <3>3, <4>1
    <3> QED BY <3>2, <3>3
  <2>4. ~ drive'[o].failed =>
          \A f \in Files \ FilesIn(drive'[o].plan) : names'[f] = drive'[o].before[f]
    BY <1>2, <2>3
  <2> QED BY <1>1, <1>2, <1>4, <2>1, <2>2, <2>4 DEF Restores, IsNewest, Matches, FilesIn
<1>14. ASSUME NEW p \in Operators PROVE Applies(p)' /\ Restores(p)'
  <2>1. CASE p = o
    BY <1>2, <1>13, <2>1 DEF Applies, Applying
  <2>2. CASE p # o
    BY <1>2, <2>2 DEF Applies, Restores, Applying
  <2> QED BY <2>1, <2>2
<1> QED BY <1>10, <1>11, <1>12, <1>14

(* An undo without failures has put back all of the newest manifest, and    *)
(* leaves what the one before it left.                                      *)
LEMMA UndoEnd ==
    ASSUME DriveTypes, OneBusy, UndoInv, NEW o \in Operators, UndoEnds(o)
    PROVE  UndoInv'
<1> SUFFICES ASSUME muddled' = {}
             PROVE  /\ Told' /\ Chained' /\ UpToDate' /\ Undone'
                    /\ \A p \in Operators : Applies(p)' /\ Restores(p)'
  BY DEF UndoInv
<1>1. names' = names
  BY DEF UndoEnds
<1>2. /\ muddled = {}
      /\ \A p \in Operators \ {o} : drive'[p] = drive[p] /\ drive[p].pc \in {"free", "shown"}
      /\ drive[o].pc = "restore" /\ drive'[o].pc = "free" /\ drive[o].plan = << >>
  BY Solo, DriveSteps, NoRequestIs DEF Moves, UndoEnds, Preview
<1>3. Told /\ Chained /\ UpToDate /\ Undone /\ Restores(o)
  BY <1>2 DEF UndoInv
<1>4. \A p \in Operators : ~ Applying(p) /\ ~ Applying(p)' /\ drive'[p].pc \in {"free", "shown"}
  BY <1>2 DEF Applying
<1>5. Busy' = {}
  BY <1>4 DEF Busy
<1>6. \A p \in Operators : Applies(p)' /\ Restores(p)'
  BY <1>4 DEF Applies, Restores, Applying
<1>7. CASE drive[o].failed
  <2>1. UNCHANGED <<manifests, lastUndo>>
    BY <1>7 DEF UndoEnds
  <2>2. Told' /\ Chained'
    BY <1>3, <2>1 DEF Told, Chained, Matches, Follows, FilesIn
  <2>3. UpToDate'
    BY <1>1, <1>3, <1>4, <2>1 DEF UpToDate, IsNewest, FilesIn
  <2>4. Undone'
    BY <1>1, <1>3, <1>5, <2>1 DEF Undone
  <2> QED BY <1>6, <2>2, <2>3, <2>4
<1>8. CASE ~ drive[o].failed
  <2>1. manifests' = Without(drive[o].found) /\ lastUndo' = drive[o].before
    BY <1>8 DEF UndoEnds
  <2>2. PICK top \in DOMAIN manifests : top = drive[o].found
    BY <1>2, <1>3 DEF Restores
  <2>3. IsNewest(top) /\ drive[o].before = manifests[top].before
    BY <1>2, <1>3, <2>2 DEF Restores
  <2>4. \A f \in Files : names[f] = manifests[top].before[f]
    BY <1>2, <1>3, <1>8, <2>3 DEF Restores, FilesIn, ToSet
  <2>5. DOMAIN manifests \subseteq Nat
    BY DEF DriveTypes
  <2>6. /\ DOMAIN manifests' = DOMAIN manifests \ {top}
        /\ \A m \in DOMAIN manifests' : manifests'[m] = manifests[m]
    BY <2>1, <2>2 DEF Without
  <2>7. \A m, n \in DOMAIN manifests' : Follows(m, n)' => Follows(m, n)
    <3> SUFFICES ASSUME NEW m \in DOMAIN manifests', NEW n \in DOMAIN manifests', Follows(m, n)'
                 PROVE  Follows(m, n)
      OBVIOUS
    <3>1. n <= top /\ n \in Nat /\ top \in Nat
      BY <2>3, <2>5, <2>6 DEF IsNewest
    <3>2. ~ (m < top /\ top < n)
      BY <3>1
    <3> QED BY <2>6, <3>2 DEF Follows
  <2>8. \A m \in DOMAIN manifests' : IsNewest(m)' => Follows(m, top)
    <3> SUFFICES ASSUME NEW m \in DOMAIN manifests', IsNewest(m)' PROVE Follows(m, top)
      OBVIOUS
    <3>1. m <= top /\ m # top /\ m \in Nat /\ top \in Nat
      BY <2>3, <2>5, <2>6 DEF IsNewest
    <3>2. ASSUME NEW k \in DOMAIN manifests, m < k, k < top PROVE FALSE
      <4>1. k \in Nat /\ k \in DOMAIN manifests'
        BY <2>5, <2>6, <3>1, <3>2
      <4>2. k <= m
        BY <4>1 DEF IsNewest
      <4> QED BY <3>1, <3>2, <4>1, <4>2
    <3> QED BY <3>1, <3>2 DEF Follows
  <2>9. Told'
    BY <1>3, <2>6 DEF Told, Matches
  <2>10. Chained'
    BY <1>3, <2>6, <2>7 DEF Chained, FilesIn
  <2>11. UpToDate'
    <3>1. ASSUME NEW m \in DOMAIN manifests', IsNewest(m)', NEW f \in Files,
                 f \notin FilesIn(manifests[m].renames)
          PROVE  manifests[m].before[f] = names[f]
      <4>1. Follows(m, top) /\ m \in DOMAIN manifests
        BY <2>6, <2>8, <3>1
      <4>2. manifests[m].before[f] = manifests[top].before[f]
        BY <1>3, <3>1, <4>1 DEF Chained
      <4> QED BY <2>4, <4>2
    <3> QED BY <1>1, <1>4, <2>6, <3>1 DEF UpToDate, FilesIn
  <2>12. Undone'
    <3>1. names \in Folders /\ manifests[top].before \in Folders
      BY DEF DriveTypes, Manifests
    <3>2. names = manifests[top].before
      BY <2>4, <3>1 DEF Folders
    <3> QED BY <1>1, <1>5, <2>1, <2>3, <3>2 DEF Undone
  <2> QED BY <1>6, <2>9, <2>10, <2>11, <2>12
<1> QED BY <1>7, <1>8

OrganizerInv == DriveTypes /\ OneBusy /\ NewStays /\ UndoInv /\ \A o \in Operators : AtRest(o)

(* Every step of the organiser keeps what undo rests on.                    *)
LEMMA UndoInvKept ==
    ASSUME OrganizerInv, OrganizerNext
    PROVE  UndoInv'
<1>1. PICK o \in Operators : Moves(o)
  BY DEF OrganizerNext, Moves
<1>2. CASE UploadRefused(o) \/ ConnectionDrops(o)
  BY <1>2 DEF UploadRefused, ConnectionDrops, UndoInv
<1> QED BY <1>1, <1>2, UndoPreview, UndoApply, UndoRename, UndoFind, UndoUpload, UndoRemove, UndoUndo,
           UndoRestore, UndoEnd DEF Moves, OrganizerInv

(* The invariant holds at first and is kept by every step.                  *)
LEMMA OrganizerKept ==
    /\ OrganizerInit => OrganizerInv
    /\ OrganizerInv /\ [OrganizerNext]_organizerVars => OrganizerInv'
<1>1. ASSUME OrganizerInit PROVE OrganizerInv
  <2>1. \A o \in Operators : drive[o] = NoRequest
    BY <1>1 DEF OrganizerInit
  <2>2. Camera \in Folders
    BY NoRequestIs DEF DriveRows, NoRequest
  <2>3. DOMAIN manifests = {}
    BY <1>1 DEF OrganizerInit
  <2>4. DriveTypes
    <3>1. drive \in [Operators -> DriveRows] /\ \A o \in Operators : drive[o].found <= newestId
      BY <1>1, NoRequestIs DEF OrganizerInit
    <3>2. manifests \in [DOMAIN manifests -> Manifests]
      BY <1>1, <2>3 DEF OrganizerInit
    <3> QED BY <1>1, <2>2, <2>3, <3>1, <3>2, OrganizerSettings DEF OrganizerInit, DriveTypes
  <2>5. Busy = {} /\ \A o \in Operators : AtRest(o) /\ ~ Applying(o) /\ drive[o].pc = "free"
    BY <2>1, NoRequestIs DEF Busy, AtRest, Applying, NoRequest
  <2>6. OneBusy /\ NewStays
    BY <2>5 DEF OneBusy, NewStays
  <2>7. UndoInv
    BY <1>1, <2>3, <2>5 DEF OrganizerInit, UndoInv, Told, Chained, UpToDate, Undone, Applies, Restores
  <2> QED BY <2>4, <2>5, <2>6, <2>7 DEF OrganizerInv
<1>2. ASSUME OrganizerInv, UNCHANGED organizerVars PROVE OrganizerInv'
  <2>1. DriveTypes'
    BY <1>2 DEF OrganizerInv, organizerVars, DriveTypes
  <2>2. OneBusy' /\ NewStays' /\ \A o \in Operators : AtRest(o)'
    BY <1>2 DEF OrganizerInv, organizerVars, OneBusy, NewStays, AtRest, Busy
  <2>3. UndoInv'
    <3> SUFFICES ASSUME muddled = {}
                 PROVE  /\ Told' /\ Chained' /\ UpToDate' /\ Undone'
                        /\ \A o \in Operators : Applies(o)' /\ Restores(o)'
      BY <1>2 DEF UndoInv, organizerVars
    <3>1. /\ Told /\ Chained /\ UpToDate /\ Undone
          /\ \A o \in Operators : Applies(o) /\ Restores(o)
      BY <1>2 DEF OrganizerInv, UndoInv
    <3>2. UNCHANGED <<names, manifests, drive, lastUndo>>
      BY <1>2 DEF organizerVars
    <3>3. Told' /\ Chained'
      BY <3>1, <3>2 DEF Told, Chained, Matches, Follows, FilesIn
    <3>4. UpToDate' /\ Undone'
      BY <3>1, <3>2 DEF UpToDate, Undone, Applying, Busy, FilesIn, IsNewest
    <3>5. \A o \in Operators : Applies(o)' /\ Restores(o)'
      BY <3>1, <3>2 DEF Applies, Restores, Applying, Matches, FilesIn, IsNewest
    <3> QED BY <3>3, <3>4, <3>5
  <2> QED BY <2>1, <2>2, <2>3 DEF OrganizerInv
<1>3. ASSUME OrganizerInv, OrganizerNext PROVE OrganizerInv'
  BY <1>3, DriveTyped, OneBusyKept, NewStaysKept, UndoInvKept, AtRestKept DEF OrganizerInv
<1> QED BY <1>1, <1>2, <1>3

(* The invariant says what the run checks of a state.                       *)
LEMMA OrganizerShown == OrganizerInv => OrganizerTypeOK /\ StemKept /\ UndoRestores
<1> SUFFICES ASSUME OrganizerInv PROVE OrganizerTypeOK /\ StemKept /\ UndoRestores
  OBVIOUS
<1>1. DriveTypes
  BY DEF OrganizerInv
<1>2. OrganizerTypeOK
  BY <1>1 DEF DriveTypes, DriveRows, Folders, OrganizerTypeOK
<1>3. StemKept
  <2> SUFFICES ASSUME NEW f \in Files PROVE names[f].stem = f /\ Len(names[f].prefixes) <= 1
    BY DEF StemKept
  <2>1. names[f] \in NamesOf(f)
    BY <1>1 DEF DriveTypes, Folders
  <2>2. names[f].stem = f /\ names[f].prefixes \in {<< >>} \cup {<<p>> : p \in NumberPrefixes}
    BY <2>1 DEF NamesOf
  <2>3. \A p : Len(<<p>>) = 1
    OBVIOUS
  <2>4. Len(<< >>) = 0
    OBVIOUS
  <2>5. CASE names[f].prefixes = << >>
    BY <2>2, <2>4, <2>5
  <2>6. ASSUME NEW p \in NumberPrefixes, names[f].prefixes = <<p>>
        PROVE  names[f].stem = f /\ Len(names[f].prefixes) <= 1
    BY <2>2, <2>3, <2>6
  <2> QED BY <2>2, <2>5, <2>6
<1>4. UndoRestores
  BY DEF OrganizerInv, UndoInv, Undone, UndoRestores
<1> QED BY <1>2, <1>3, <1>4

(* In every behaviour of Front the organiser of Drive folders               *)
(* (integrations/organize.py, api/v1/gdrive.py) keeps the camera's stem in  *)
(* every name under one prefix at most; an undo without failures gives back *)
(* the names as they were before the apply it undoes, unless requests       *)
(* overlapped, a plan was out of date, a manifest was lost or one was       *)
(* removed between others; and without an overlap the last manifest of a    *)
(* folder goes only with an undo that has restored every name in it.        *)
THEOREM OrganizerHolds == FrontSpec => OrganizerCorrect
<1>1. FrontInit => OrganizerInv
  BY OrganizerKept DEF FrontInit
<1>2. [FrontNext]_frontVars => [OrganizerNext]_organizerVars
  BY DEF FrontNext, ItemsMove, AccountsMove, SearchMoves, GrabsMove, OrganizerMoves, CurateMoves, frontVars
<1>3. OrganizerInv /\ [FrontNext]_frontVars => OrganizerInv'
  BY <1>2, OrganizerKept
<1>4. OrganizerInv /\ [FrontNext]_frontVars =>
          ["overlap" \notin muddled /\ manifests # << >> /\ manifests' = << >> =>
             \E o \in Operators : drive[o].pc = "restore" /\ drive[o].plan = << >> /\ ~drive[o].failed
          ]_organizerVars
  BY <1>2, Survives DEF OrganizerInv
<1> QED BY <1>1, <1>3, <1>4, OrganizerShown, PTL DEF FrontSpec, OrganizerCorrect, ManifestSurvives

-----------------------------------------------------------------------------
(* The photographs of a listing.  A gallery is what rows there are; a hand  *)
(* holds what its request read and what it will write.                      *)
Shots == [pos : Nat, room : DOMAIN RoomOrder, source : {"suggested", "confirmed"}, score : Nat]
Gallery(g) == DOMAIN g \subseteq Assets /\ \A a \in DOMAIN g : g[a] \in Shots
Apart(g) == \A a, b \in DOMAIN g : g[a].pos = g[b].pos => a = b

HandShape(d) ==
    /\ d \in [pc : {"idle", "write", "classify", "arrange"},
             op : {"none", "add", "classify", "arrange", "reorder", "room"},
             seen : {d.seen}, target : {d.target}, arrange : {d.arrange}]
    /\ Gallery(d.seen) /\ Gallery(d.target)

(* What a request is about to write, by what it does: positions alone, or   *)
(* rooms alone, and a classification no room that it read as confirmed.     *)
Writes(d) ==
    d.pc = "write" =>
        /\ d.op # "none"
        /\ d.op # "add" => DOMAIN d.target = DOMAIN d.seen
        /\ d.op \in {"classify", "room"} => \A a \in DOMAIN d.seen : d.target[a].pos = d.seen[a].pos
        /\ d.op = "classify" =>
             \A a \in DOMAIN d.seen : d.seen[a].source = "confirmed" => d.target[a] = d.seen[a]
        /\ d.op \in {"arrange", "reorder"} =>
             /\ Apart(d.target)
             /\ \A a \in DOMAIN d.seen : d.target[a].room = d.seen[a].room

(* As long as no two requests overlapped, what one read is still what there *)
(* is, and what it adds follows it.                                         *)
Extends(new) ==
    /\ Apart(new) /\ DOMAIN new \cap Listed = {}
    /\ \A a \in DOMAIN new, b \in Listed : new[a].pos > items[b].pos
Fresh(d) ==
    d.pc = "write" => IF d.op = "add" THEN Extends(d.target) ELSE d.seen = items
InTurn ==
    /\ Apart(items)
    /\ \A g, h \in Hands : hand[g].pc # "idle" /\ hand[h].pc # "idle" => g = h
    /\ \A h \in Hands : Fresh(hand[h])

ItemsTyped ==
    /\ listing \in {"absent", "there", "deleted"}
    /\ listing # "there" => items = << >>
    /\ Gallery(items)
    /\ itemBudget \in 0..ItemIncidents
    /\ hand = [h \in Hands |-> hand[h]]
    /\ \A h \in Hands : HandShape(hand[h]) /\ Writes(hand[h])
ItemsInv == ItemsTyped /\ (~ lapped => InTurn)

-----------------------------------------------------------------------------
(* A request that comes in spends one of those there are, and alone if no   *)
(* two have overlapped.                                                     *)
LEMMA RequestsAlone ==
    ASSUME ItemsTyped, NEW h \in Hands, Requested(h)
    PROVE  /\ itemBudget' \in 0..ItemIncidents
           /\ hand[h].pc = "idle"
           /\ ~ lapped' => ~ lapped /\ \A g \in Hands : hand[g].pc = "idle"
<1>0. ItemIncidents \in Nat
  BY ItemsAssumption DEF ItemsAssumption
<1>1. \A b \in 0..ItemIncidents : b > 0 => b - 1 \in 0..ItemIncidents
  BY <1>0
<1> QED BY <1>1 DEF ItemsTyped, Requested

(* A step that leaves the rows and gives one hand another record.           *)
LEMMA HandMoves ==
    ASSUME ItemsInv, NEW h \in Hands, NEW f, hand' = [hand EXCEPT ![h] = f],
           HandShape(f), Writes(f), Fresh(f), UNCHANGED <<listing, items>>,
           itemBudget' \in 0..ItemIncidents,
           ~ lapped' => ~ lapped /\ \A g \in Hands \ {h} : hand[g].pc = "idle"
    PROVE  ItemsInv'
<1>1. /\ hand'[h] = f /\ \A g \in Hands \ {h} : hand'[g] = hand[g]
      /\ hand' = [g \in Hands |-> hand'[g]]
  BY DEF ItemsInv, ItemsTyped
<1>2. ItemsTyped'
  <2>1. \A g \in Hands : HandShape(hand'[g]) /\ Writes(hand'[g])
    BY <1>1 DEF ItemsInv, ItemsTyped
  <2>2. Gallery(items)'
    BY DEF ItemsInv, ItemsTyped, Gallery
  <2> QED BY <1>1, <2>1, <2>2 DEF ItemsInv, ItemsTyped
<1>3. ASSUME ~ lapped' PROVE InTurn'
  <2>1. InTurn /\ \A g \in Hands \ {h} : hand'[g].pc = "idle"
    BY <1>1, <1>3 DEF ItemsInv
  <2>2. Apart(items)'
    BY <2>1 DEF InTurn, Apart
  <2>3. \A g, k \in Hands : hand'[g].pc # "idle" /\ hand'[k].pc # "idle" => g = k
    BY <2>1
  <2>4. ASSUME NEW g \in Hands PROVE Fresh(hand[g])'
    <3>1. CASE g = h
      BY <1>1, <3>1 DEF Fresh, Extends, Listed
    <3>2. CASE g # h
      BY <2>1, <3>2 DEF Fresh
    <3> QED BY <3>1, <3>2
  <2> QED BY <2>2, <2>3, <2>4 DEF InTurn
<1> QED BY <1>2, <1>3 DEF ItemsInv

(* Taking what is to be written.                                            *)
LEMMA TakesUp ==
    ASSUME ItemsInv, NEW h \in Hands, NEW op \in {"add", "classify", "arrange", "reorder", "room"},
           NEW target, Take(h, op, target), Gallery(target), UNCHANGED <<listing, items>>,
           itemBudget' \in 0..ItemIncidents,
           ~ lapped' => ~ lapped /\ \A g \in Hands \ {h} : hand[g].pc = "idle",
           op # "add" => DOMAIN target = Listed,
           op \in {"classify", "room"} => \A a \in Listed : target[a].pos = items[a].pos,
           op = "classify" =>
             \A a \in Listed : items[a].source = "confirmed" => target[a] = items[a],
           op \in {"arrange", "reorder"} =>
             Apart(target) /\ \A a \in Listed : target[a].room = items[a].room,
           op = "add" => Extends(target)
    PROVE  ItemsInv'
<1> DEFINE d == hand[h]
           f == [d EXCEPT !.pc = "write", !.op = op, !.seen = items, !.target = target]
<1>1. /\ hand' = [hand EXCEPT ![h] = f] /\ HandShape(d) /\ Gallery(items)
  BY DEF Take, ItemsInv, ItemsTyped
<1>2. /\ f \in [pc : {"write"}, op : {op}, seen : {items}, target : {target}, arrange : {d.arrange}]
      /\ f.pc = "write" /\ f.op = op /\ f.seen = items /\ f.target = target /\ f.arrange = d.arrange
  BY <1>1 DEF HandShape
<1> HIDE DEF f
<1>3. HandShape(f)
  BY <1>1, <1>2 DEF HandShape
<1>4. Writes(f)
  BY <1>2 DEF Writes, Listed
<1>5. Fresh(f)
  BY <1>2 DEF Fresh
<1> QED BY <1>1, <1>3, <1>4, <1>5, HandMoves

-----------------------------------------------------------------------------
(* Where the photographs that are added go.  Of some rows one is the last:  *)
(* were there rows without one, there would be fewest of them, and all but  *)
(* one of those would have a last row.                                      *)
LEMMA LastRow ==
    ASSUME NEW g, Gallery(g), NEW S \in SUBSET DOMAIN g, S # {}
    PROVE  \E a \in S : \A b \in S : g[b].pos <= g[a].pos
<1> DEFINE Lacks(R) == R # {} /\ ~ \E a \in R : \A b \in R : g[b].pos <= g[a].pos
           T == {n \in Nat : \E R \in SUBSET DOMAIN g : Cardinality(R) = n /\ Lacks(R)}
<1>1. /\ IsFiniteSet(Assets) /\ DOMAIN g \in SUBSET Assets
      /\ \A a \in DOMAIN g : g[a].pos \in Nat
  BY ItemsAssumption DEF ItemsAssumption, Gallery, Shots
<1>2. \A R \in SUBSET DOMAIN g : IsFiniteSet(R) /\ Cardinality(R) \in Nat
  BY <1>1, FS_Subset, FS_CardinalityType
<1> SUFFICES ASSUME Lacks(S) PROVE FALSE
  OBVIOUS
<1>3. Cardinality(S) \in T /\ T \in SUBSET Nat
  BY <1>2
<1>4. PICK n \in T : \A m \in T : n <= m
  <2> HIDE DEF T
  <2> QED BY <1>3, Smallest
<1>5. PICK R \in SUBSET DOMAIN g : Cardinality(R) = n /\ Lacks(R)
  BY <1>4
<1>6. PICK x \in R : TRUE
  BY <1>5
<1>7. /\ R \ {x} \in SUBSET DOMAIN g
      /\ Cardinality(R \ {x}) \in Nat /\ Cardinality(R \ {x}) < n
  <2>1. Cardinality(R \ {x}) = Cardinality(R) - 1
    BY <1>2, <1>6, FS_RemoveElement
  <2> QED BY <1>2, <1>5, <2>1
<1>8. ~ Lacks(R \ {x})
  <2> SUFFICES ASSUME Lacks(R \ {x}) PROVE FALSE
    OBVIOUS
  <2>1. Cardinality(R \ {x}) \in T
    <3> HIDE DEF Lacks
    <3> QED BY <1>7
  <2>2. n <= Cardinality(R \ {x}) /\ n \in Nat
    <3> HIDE DEF Lacks
    <3> QED BY <1>4, <2>1
  <2> QED BY <1>7, <2>2
<1>9. CASE R \ {x} = {}
  <2>1. R = {x}
    BY <1>6, <1>9
  <2> QED BY <1>1, <1>5, <2>1
<1>10. CASE R \ {x} # {}
  <2>1. PICK y \in R \ {x} : \A b \in R \ {x} : g[b].pos <= g[y].pos
    BY <1>8, <1>10
  <2>2. g[x].pos \in Nat /\ g[y].pos \in Nat /\ \A b \in R : g[b].pos \in Nat
    BY <1>1
  <2>3. CASE g[x].pos <= g[y].pos
    <3>1. \A b \in R : g[b].pos <= g[y].pos
      BY <2>1, <2>3
    <3> QED BY <1>5, <3>1
  <2>4. CASE ~ (g[x].pos <= g[y].pos)
    <3>1. \A b \in R : g[b].pos <= g[x].pos
      BY <2>1, <2>2, <2>4
    <3> QED BY <1>5, <3>1
  <2> QED BY <2>3, <2>4
<1> QED BY <1>9, <1>10

LEMMA TailIsLast ==
    ASSUME Gallery(items)
    PROVE  /\ LastPos \in Int /\ LastPos >= -1
           /\ \A a \in Listed : items[a].pos <= LastPos
<1> DEFINE S == {-1} \cup {items[a].pos : a \in Listed}
<1>1. \A a \in Listed : items[a].pos \in Nat
  BY DEF Gallery, Listed, Shots
<1>2. \E x \in S : \A y \in S : x >= y
  <2>1. CASE Listed = {}
    BY <2>1
  <2>2. CASE Listed # {}
    <3>1. PICK a \in Listed : \A b \in Listed : items[b].pos <= items[a].pos
      BY <2>2, LastRow DEF Listed
    <3>2. \A y \in S : items[a].pos >= y
      BY <1>1, <3>1
    <3> QED BY <3>2
  <2> QED BY <2>1, <2>2
<1>3. LastPos \in S /\ \A y \in S : LastPos >= y
  BY <1>2 DEF LastPos, Max
<1> QED BY <1>1, <1>3

LEMMA PlaceIsThere ==
    ASSUME NEW s, NEW a, \E i \in DOMAIN s : s[i] = a
    PROVE  PlaceIn(s, a) \in DOMAIN s /\ s[PlaceIn(s, a)] = a
BY DEF PlaceIn

(* The rows to be added follow the tail, one after the other.               *)
LEMMA AddFollows ==
    ASSUME Gallery(items), NEW wanted \in TupleOf(Assets, 1) \cup TupleOf(Assets, 2)
    PROVE  LET new == [a \in ToSet(wanted) \ Listed |-> Row(LastPos + Cardinality(UpTo(wanted, a)))]
           IN  Gallery(new) /\ Extends(new)
<1> DEFINE New == ToSet(wanted) \ Listed
           new == [a \in New |-> Row(LastPos + Cardinality(UpTo(wanted, a)))]
<1>1. /\ DOMAIN wanted \subseteq 1..2 /\ \A i \in DOMAIN wanted : wanted[i] \in Assets
      /\ \A a \in ToSet(wanted) : a \in Assets /\ \E i \in DOMAIN wanted : wanted[i] = a
  BY DEF TupleOf, ToSet
<1>2. \A a \in ToSet(wanted) : PlaceIn(wanted, a) \in 1..2 /\ wanted[PlaceIn(wanted, a)] = a
  BY <1>1, PlaceIsThere
<1>3. \A a \in New : UpTo(wanted, a) \in SUBSET Assets
  BY <1>1 DEF UpTo
<1>4. \A a \in New : a \in UpTo(wanted, a)
  BY <1>2 DEF UpTo
<1>5. IsFiniteSet(Assets)
  BY ItemsAssumption DEF ItemsAssumption
<1>6. \A S \in SUBSET Assets : IsFiniteSet(S) /\ Cardinality(S) \in Nat
  BY <1>5, FS_Subset, FS_CardinalityType
<1>7. \A a \in New : Cardinality(UpTo(wanted, a)) >= 1
  <2> TAKE a \in New
  <2>1. IsFiniteSet(UpTo(wanted, a)) /\ Cardinality(UpTo(wanted, a)) \in Nat
    BY <1>3, <1>6
  <2>2. Cardinality(UpTo(wanted, a)) # 0
    BY <1>4, <2>1, FS_EmptySet
  <2> QED BY <2>1, <2>2
<1>8. ASSUME NEW a \in New, NEW b \in New, PlaceIn(wanted, a) < PlaceIn(wanted, b)
      PROVE  Cardinality(UpTo(wanted, a)) < Cardinality(UpTo(wanted, b))
  <2>1. UpTo(wanted, a) \in SUBSET (UpTo(wanted, b) \ {b})
    BY <1>2, <1>8 DEF UpTo
  <2>2. IsFiniteSet(UpTo(wanted, b)) /\ b \in UpTo(wanted, b)
    BY <1>3, <1>4, <1>6
  <2>3. /\ IsFiniteSet(UpTo(wanted, b) \ {b})
        /\ Cardinality(UpTo(wanted, b) \ {b}) = Cardinality(UpTo(wanted, b)) - 1
    BY <2>2, FS_RemoveElement
  <2>4. Cardinality(UpTo(wanted, a)) <= Cardinality(UpTo(wanted, b) \ {b})
    BY <2>1, <2>3, FS_Subset
  <2>5. Cardinality(UpTo(wanted, a)) \in Nat /\ Cardinality(UpTo(wanted, b)) \in Nat
    BY <1>3, <1>6
  <2> QED BY <2>3, <2>4, <2>5
<1>9. LastPos \in Int /\ LastPos >= -1 /\ \A a \in Listed : items[a].pos <= LastPos
  BY TailIsLast
<1>10. \A a \in New : /\ LastPos + Cardinality(UpTo(wanted, a)) \in Nat
                      /\ LastPos + Cardinality(UpTo(wanted, a)) > LastPos
  <2> TAKE a \in New
  <2>1. Cardinality(UpTo(wanted, a)) \in Nat /\ Cardinality(UpTo(wanted, a)) >= 1
    BY <1>3, <1>6, <1>7
  <2> QED BY <1>9, <2>1
<1>11. \A a \in New : new[a] \in Shots /\ new[a].pos = LastPos + Cardinality(UpTo(wanted, a))
  <2>1. \A n \in Nat : Row(n) \in Shots /\ Row(n).pos = n
    <3>1. "" \in DOMAIN RoomOrder
      BY ItemsAssumption DEF ItemsAssumption
    <3> QED BY <3>1 DEF Row, Shots
  <2> QED BY <1>10, <2>1
<1>12. Gallery(new)
  BY <1>1, <1>11 DEF Gallery
<1>13. ASSUME NEW a \in New, NEW b \in New, new[a].pos = new[b].pos PROVE a = b
  <2>1. Cardinality(UpTo(wanted, a)) = Cardinality(UpTo(wanted, b))
    <3>1. Cardinality(UpTo(wanted, a)) \in Nat /\ Cardinality(UpTo(wanted, b)) \in Nat
      BY <1>3, <1>6
    <3>2. LastPos + Cardinality(UpTo(wanted, a)) = LastPos + Cardinality(UpTo(wanted, b))
      BY <1>11, <1>13
    <3> QED BY <1>9, <3>1, <3>2
  <2>2. /\ ~ (PlaceIn(wanted, a) < PlaceIn(wanted, b))
        /\ ~ (PlaceIn(wanted, b) < PlaceIn(wanted, a))
    <3>1. Cardinality(UpTo(wanted, a)) \in Nat /\ Cardinality(UpTo(wanted, b)) \in Nat
      BY <1>3, <1>6
    <3> QED BY <1>8, <2>1, <3>1
  <2>3. PlaceIn(wanted, a) = PlaceIn(wanted, b)
    BY <1>2, <2>2
  <2> QED BY <1>2, <2>3
<1>14. ASSUME NEW a \in New, NEW b \in Listed PROVE new[a].pos > items[b].pos
  <2>1. items[b].pos \in Nat /\ items[b].pos <= LastPos
    BY <1>9 DEF Gallery, Shots, Listed
  <2> QED BY <1>9, <1>10, <1>11, <2>1
<1>15. Extends(new)
  BY <1>13, <1>14 DEF Extends, Apart
<1> QED BY <1>12, <1>15

(* The walk-through: two rows never stand alike, so none have as many       *)
(* before them as another.                                                  *)
LEMMA WalkApart ==
    ASSUME Gallery(items)
    PROVE  /\ Gallery(WalkThrough) /\ DOMAIN WalkThrough = Listed /\ Apart(WalkThrough)
           /\ \A a \in Listed : WalkThrough[a].room = items[a].room
<1> DEFINE Earlier(a) == {b \in Listed : Before(b, a)}
<1>1. /\ IsFiniteSet(Assets) /\ Listed \in SUBSET Assets
      /\ FileOrder \in [Assets -> Nat] /\ RoomOrder \in [DOMAIN RoomOrder -> Nat]
      /\ \A a, b \in Assets : FileOrder[a] = FileOrder[b] => a = b
  BY ItemsAssumption DEF ItemsAssumption, Gallery, Listed, IsInjective
<1>2. \A a \in Listed : items[a] \in Shots
  BY DEF Gallery, Listed
<1>3. \A a \in Listed : /\ RoomOrder[items[a].room] \in Nat /\ items[a].score \in Nat
                        /\ FileOrder[a] \in Nat
  BY <1>1, <1>2 DEF Shots
<1>4. \A a, b \in Listed : a # b => Before(a, b) \/ Before(b, a)
  BY <1>1, <1>3 DEF Before
<1>5. \A a \in Listed : ~ Before(a, a)
  BY <1>3 DEF Before
<1>6. \A a, b, c \in Listed : Before(a, b) /\ Before(b, c) => Before(a, c)
  BY <1>3 DEF Before
<1>7. \A S \in SUBSET Listed : IsFiniteSet(S) /\ Cardinality(S) \in Nat
  BY <1>1, FS_Subset, FS_CardinalityType
<1>8. ASSUME NEW a \in Listed, NEW b \in Listed, Before(a, b)
      PROVE  Cardinality(Earlier(a)) # Cardinality(Earlier(b))
  <2>1. Earlier(a) \in SUBSET (Earlier(b) \ {a}) /\ a \in Earlier(b)
    BY <1>5, <1>6, <1>8
  <2>2. IsFiniteSet(Earlier(b)) /\ Cardinality(Earlier(b)) \in Nat /\ Cardinality(Earlier(a)) \in Nat
    BY <1>7
  <2> HIDE DEF Earlier
  <2>3. IsFiniteSet(Earlier(b) \ {a})
        /\ Cardinality(Earlier(b) \ {a}) = Cardinality(Earlier(b)) - 1
    BY <2>1, <2>2, FS_RemoveElement
  <2>4. Cardinality(Earlier(a)) <= Cardinality(Earlier(b) \ {a})
    BY <2>1, <2>3, FS_Subset
  <2> QED BY <2>2, <2>3, <2>4
<1>9. \A a \in Listed : Cardinality(Earlier(a)) \in Nat
  BY <1>7
<1>10. \A a \in Listed : WalkThrough[a] = [items[a] EXCEPT !.pos = Cardinality(Earlier(a))]
  BY DEF WalkThrough
<1>11. DOMAIN WalkThrough = Listed
  BY DEF WalkThrough
<1> HIDE DEF Earlier
<1>12. \A a \in Listed : /\ WalkThrough[a] \in Shots /\ WalkThrough[a].pos = Cardinality(Earlier(a))
                         /\ WalkThrough[a].room = items[a].room
  BY <1>2, <1>9, <1>10 DEF Shots
<1>13. Gallery(WalkThrough)
  BY <1>1, <1>11, <1>12 DEF Gallery
<1>14. Apart(WalkThrough)
  BY <1>4, <1>8, <1>11, <1>12 DEF Apart
<1> QED BY <1>11, <1>12, <1>13, <1>14

-----------------------------------------------------------------------------
(* A hand that is put down.                                                 *)
LEMMA IdleShape ==
    ASSUME NEW f, f.pc \in {"idle", "classify", "arrange"},
           f \in [pc : {f.pc}, op : {"none"}, seen : {<< >>}, target : {<< >>}, arrange : {f.arrange}]
    PROVE  HandShape(f) /\ Writes(f) /\ Fresh(f)
<1>1. Gallery(<< >>)
  BY DEF Gallery
<1>2. f.op = "none" /\ f.seen = << >> /\ f.target = << >>
  OBVIOUS
<1> QED BY <1>1, <1>2 DEF HandShape, Writes, Fresh

LEMMA IdleIs ==
    /\ HandShape(IdleHand) /\ Writes(IdleHand) /\ Fresh(IdleHand) /\ IdleHand.pc = "idle"
    /\ \A pc \in {"classify", "arrange"} : \A arrange :
         LET f == [IdleHand EXCEPT !.pc = pc, !.arrange = arrange]
         IN  HandShape(f) /\ Writes(f) /\ Fresh(f) /\ f.pc = pc
    /\ LET f == [IdleHand EXCEPT !.pc = "arrange"]
       IN  HandShape(f) /\ Writes(f) /\ Fresh(f) /\ f.pc = "arrange"
<1>1. IdleHand.pc = "idle"
      /\ IdleHand \in [pc : {"idle"}, op : {"none"}, seen : {<< >>}, target : {<< >>}, arrange : {FALSE}]
      /\ IdleHand.arrange = FALSE
  BY DEF IdleHand
<1>2. ASSUME NEW f, f = [IdleHand EXCEPT !.pc = "arrange"]
      PROVE  /\ f \in [pc : {"arrange"}, op : {"none"}, seen : {<< >>}, target : {<< >>}, arrange : {FALSE}]
             /\ f.pc = "arrange" /\ f.arrange = FALSE
  BY <1>1, <1>2
<1>3. HandShape(IdleHand) /\ Writes(IdleHand) /\ Fresh(IdleHand)
  BY <1>1, IdleShape
<1>4. ASSUME NEW pc \in {"classify", "arrange"}, NEW arrange,
             NEW f, f = [IdleHand EXCEPT !.pc = pc, !.arrange = arrange]
      PROVE  HandShape(f) /\ Writes(f) /\ Fresh(f) /\ f.pc = pc
  <2>1. /\ f.pc = pc
        /\ f.arrange = arrange
        /\ f \in [pc : {pc}, op : {"none"}, seen : {<< >>}, target : {<< >>}, arrange : {arrange}]
    BY <1>1, <1>4
  <2>2. f \in [pc : {f.pc}, op : {"none"}, seen : {<< >>}, target : {<< >>}, arrange : {f.arrange}]
    BY <2>1
  <2>3. f.pc \in {"idle", "classify", "arrange"}
    BY <2>1, <1>4
  <2> QED BY <2>1, <2>2, <2>3, IdleShape
<1>5. ASSUME NEW f, f = [IdleHand EXCEPT !.pc = "arrange"]
      PROVE  HandShape(f) /\ Writes(f) /\ Fresh(f) /\ f.pc = "arrange"
  <2>1. f.pc = "arrange" /\ f \in [pc : {f.pc}, op : {"none"}, seen : {<< >>}, target : {<< >>}, arrange : {f.arrange}]
    BY <1>2, <1>5
  <2> QED BY <2>1, IdleShape
<1> QED BY <1>1, <1>3, <1>4, <1>5

(* A request under way is the only one, if no two have overlapped.          *)
LEMMA BusyAlone ==
    ASSUME ItemsInv, NEW h \in Hands, hand[h].pc # "idle", UNCHANGED <<lapped, itemBudget>>
    PROVE  /\ itemBudget' \in 0..ItemIncidents
           /\ ~ lapped' => ~ lapped /\ \A g \in Hands \ {h} : hand[g].pc = "idle"
BY DEF ItemsInv, ItemsTyped, InTurn

(* A step that writes the rows and lets go of what it held.                 *)
LEMMA RowsMove ==
    ASSUME ItemsInv, NEW h \in Hands, NEW f, hand' = [hand EXCEPT ![h] = f],
           HandShape(f), Writes(f), f.pc # "write",
           Gallery(items'), listing' \in {"absent", "there", "deleted"},
           listing' # "there" => items' = << >>,
           itemBudget' \in 0..ItemIncidents,
           ~ lapped' => /\ ~ lapped /\ \A g \in Hands \ {h} : hand[g].pc = "idle"
                        /\ Apart(items')
    PROVE  ItemsInv'
<1>1. /\ hand'[h] = f /\ \A g \in Hands \ {h} : hand'[g] = hand[g]
      /\ hand' = [g \in Hands |-> hand'[g]]
  BY DEF ItemsInv, ItemsTyped
<1>2. ItemsTyped'
  <2>1. \A g \in Hands : HandShape(hand'[g]) /\ Writes(hand'[g])
    BY <1>1 DEF ItemsInv, ItemsTyped
  <2> QED BY <1>1, <2>1 DEF ItemsInv, ItemsTyped
<1>3. ASSUME ~ lapped' PROVE InTurn'
  <2>1. Apart(items') /\ \A g \in Hands \ {h} : hand'[g].pc = "idle"
    BY <1>1, <1>3
  <2>2. \A g \in Hands : hand'[g].pc # "write"
    BY <1>1, <2>1
  <2> QED BY <2>1, <2>2 DEF InTurn, Fresh
<1> QED BY <1>2, <1>3 DEF ItemsInv

(* Requests that read: what is to be added, arranged, reordered or labelled.*)
LEMMA AddTakes ==
    ASSUME ItemsInv, NEW h \in Hands, Add(h) \/ Create(h)
    PROVE  ItemsInv'
<1>1. Requested(h) /\ AddAt(h, LastPos) /\ UNCHANGED <<listing, items>>
  BY DEF Add, Create
<1>2. /\ itemBudget' \in 0..ItemIncidents
      /\ ~ lapped' => ~ lapped /\ \A g \in Hands : hand[g].pc = "idle"
  BY <1>1, RequestsAlone DEF ItemsInv
<1>3. PICK wanted \in TupleOf(Assets, 1) \cup TupleOf(Assets, 2) :
          Take(h, "add", [a \in ToSet(wanted) \ Listed |->
                            Row(LastPos + Cardinality(UpTo(wanted, a)))])
  BY <1>1 DEF AddAt
<1> DEFINE new == [a \in ToSet(wanted) \ Listed |-> Row(LastPos + Cardinality(UpTo(wanted, a)))]
<1>4. Gallery(items)
  BY DEF ItemsInv, ItemsTyped
<1>5. Gallery(new) /\ Extends(new)
  BY <1>4, AddFollows
<1>6. Take(h, "add", new)
  BY <1>3
<1> HIDE DEF new
<1> QED BY <1>1, <1>2, <1>5, <1>6, TakesUp

LEMMA ArrangeTakes ==
    ASSUME ItemsInv, NEW h \in Hands, Arrange(h) \/ ArrangeNew(h)
    PROVE  ItemsInv'
<1>1. Take(h, "arrange", WalkThrough) /\ UNCHANGED <<listing, items>>
  BY DEF Arrange, ArrangeNew
<1>2. Gallery(items)
  BY DEF ItemsInv, ItemsTyped
<1>3. /\ itemBudget' \in 0..ItemIncidents
      /\ ~ lapped' => ~ lapped /\ \A g \in Hands \ {h} : hand[g].pc = "idle"
  <2>1. CASE Arrange(h)
    BY <2>1, RequestsAlone DEF Arrange, ItemsInv
  <2>2. CASE ArrangeNew(h)
    BY <2>2, BusyAlone DEF ArrangeNew
  <2> QED BY <2>1, <2>2
<1>4. /\ Gallery(WalkThrough) /\ DOMAIN WalkThrough = Listed /\ Apart(WalkThrough)
      /\ \A a \in Listed : WalkThrough[a].room = items[a].room
  BY <1>2, WalkApart
<1> QED BY <1>1, <1>3, <1>4, TakesUp

LEMMA ReorderTakes ==
    ASSUME ItemsInv, NEW h \in Hands, Reorder(h)
    PROVE  ItemsInv'
<1>1. Requested(h) /\ UNCHANGED <<listing, items>>
  BY DEF Reorder
<1>2. PICK order \in Orders(Listed) :
          Take(h, "reorder", [a \in Listed |-> [items[a] EXCEPT !.pos = PlaceIn(order, a) - 1]])
  BY DEF Reorder
<1> DEFINE target == [a \in Listed |-> [items[a] EXCEPT !.pos = PlaceIn(order, a) - 1]]
<1>3. /\ itemBudget' \in 0..ItemIncidents
      /\ ~ lapped' => ~ lapped /\ \A g \in Hands \ {h} : hand[g].pc = "idle"
  BY <1>1, RequestsAlone DEF ItemsInv
<1>4. Gallery(items) /\ Listed \in SUBSET Assets /\ \A a \in Listed : items[a] \in Shots
  BY DEF ItemsInv, ItemsTyped, Gallery, Listed
<1>5. Cardinality(Listed) \in Nat
  BY <1>4, ItemsAssumption, FS_Subset, FS_CardinalityType DEF ItemsAssumption
<1>6. \A a \in Listed : /\ PlaceIn(order, a) \in 1..Cardinality(Listed)
                        /\ order[PlaceIn(order, a)] = a
  <2>1. /\ DOMAIN order = 1..Cardinality(Listed)
        /\ \A a \in Listed : \E i \in DOMAIN order : order[i] = a
    BY DEF Orders, TupleOf
  <2> QED BY <2>1, PlaceIsThere
<1>7. \A a \in Listed : PlaceIn(order, a) - 1 \in Nat
  BY <1>5, <1>6
<1>8. \A a \in Listed : target[a] \in Shots /\ target[a].pos = PlaceIn(order, a) - 1
                        /\ target[a].room = items[a].room
  <2>1. ASSUME NEW a \in Listed, NEW n \in Nat
        PROVE  LET r == [items[a] EXCEPT !.pos = n]
               IN  r \in Shots /\ r.pos = n /\ r.room = items[a].room
    BY <1>4 DEF Shots
  <2> QED BY <1>7, <2>1
<1>9. Gallery(target) /\ DOMAIN target = Listed
  BY <1>4, <1>8 DEF Gallery
<1>10. Apart(target)
  <2>1. ASSUME NEW a \in Listed, NEW b \in Listed, target[a].pos = target[b].pos PROVE a = b
    <3>1. PlaceIn(order, a) - 1 = PlaceIn(order, b) - 1
      BY <1>8, <2>1
    <3>2. PlaceIn(order, a) = PlaceIn(order, b)
      BY <1>5, <1>6, <3>1
    <3> QED BY <1>6, <3>2
  <2> QED BY <2>1 DEF Apart
<1>11. Take(h, "reorder", target)
  BY <1>2
<1>12. \A a \in Listed : target[a].room = items[a].room
  BY <1>8
<1> HIDE DEF target
<1> QED BY <1>1, <1>3, <1>9, <1>10, <1>11, <1>12, TakesUp

LEMMA SetRoomTakes ==
    ASSUME ItemsInv, NEW h \in Hands, SetRoom(h)
    PROVE  ItemsInv'
<1>1. Requested(h) /\ UNCHANGED <<listing, items>>
  BY DEF SetRoom
<1>2. PICK a \in Listed, room \in DOMAIN RoomOrder :
          Take(h, "room", [items EXCEPT ![a].room = room, ![a].source = "confirmed", ![a].score = 0])
  BY DEF SetRoom
<1> DEFINE target == [items EXCEPT ![a].room = room, ![a].source = "confirmed", ![a].score = 0]
<1>3. /\ itemBudget' \in 0..ItemIncidents
      /\ ~ lapped' => ~ lapped /\ \A g \in Hands \ {h} : hand[g].pc = "idle"
  BY <1>1, RequestsAlone DEF ItemsInv
<1>4. Listed \in SUBSET Assets /\ \A b \in Listed : items[b] \in Shots
  BY DEF ItemsInv, ItemsTyped, Gallery, Listed
<1>5. /\ DOMAIN target = Listed /\ \A b \in Listed \ {a} : target[b] = items[b]
      /\ target[a] = [items[a] EXCEPT !.room = room, !.source = "confirmed", !.score = 0]
  BY DEF Listed
<1>6. target[a] \in Shots /\ target[a].pos = items[a].pos
  <2>1. ASSUME NEW r \in Shots
        PROVE  LET e == [r EXCEPT !.room = room, !.source = "confirmed", !.score = 0]
               IN  e \in Shots /\ e.pos = r.pos
    BY DEF Shots
  <2>2. items[a] \in Shots
    BY <1>4
  <2> QED BY <1>5, <2>1, <2>2
<1>7. Take(h, "room", target)
  BY <1>2
<1> HIDE DEF target
<1>8. Gallery(target) /\ \A b \in Listed : target[b].pos = items[b].pos
  BY <1>4, <1>5, <1>6 DEF Gallery
<1> QED BY <1>1, <1>3, <1>5, <1>7, <1>8, TakesUp

LEMMA ClassifyTakes ==
    ASSUME ItemsInv, NEW h \in Hands, Classify(h)
    PROVE  ItemsInv'
<1> DEFINE rows == {a \in Listed : items[a].source # "confirmed"}
           target == Suggested(rows)
<1>1. /\ Take(h, "classify", target) /\ UNCHANGED <<listing, items, lapped, itemBudget>>
      /\ hand[h].pc = "classify"
  BY DEF Classify
<1>2. /\ itemBudget' \in 0..ItemIncidents
      /\ ~ lapped' => ~ lapped /\ \A g \in Hands \ {h} : hand[g].pc = "idle"
  BY <1>1, BusyAlone
<1>3. Listed \in SUBSET Assets /\ \A b \in Listed : items[b] \in Shots
  BY DEF ItemsInv, ItemsTyped, Gallery, Listed
<1>4. \A a \in DOMAIN Sees : Sees[a].room \in DOMAIN RoomOrder /\ Sees[a].score \in Nat
  BY ItemsAssumption DEF ItemsAssumption
<1>5. DOMAIN target = Listed
  BY DEF Suggested
<1>6. ASSUME NEW a \in Listed
      PROVE  /\ target[a] \in Shots /\ target[a].pos = items[a].pos
             /\ items[a].source = "confirmed" => target[a] = items[a]
  <2>1. CASE a \in rows \cap DOMAIN Sees
    <3>1. target[a] = [items[a] EXCEPT !.room = Sees[a].room, !.score = Sees[a].score,
                                       !.source = "suggested"]
      BY <2>1 DEF Suggested
    <3>2. target[a] \in Shots /\ target[a].pos = items[a].pos
      <4> HIDE DEF target, rows
      <4>1. a \in DOMAIN Sees
        BY <2>1
      <4> QED BY <1>3, <1>4, <3>1, <4>1 DEF Shots
    <3> QED BY <2>1, <3>2
  <2>2. CASE a \notin rows \cap DOMAIN Sees
    BY <1>3, <2>2 DEF Suggested
  <2> QED BY <2>1, <2>2
<1> HIDE DEF target
<1>7. Gallery(target)
  BY <1>3, <1>5, <1>6 DEF Gallery
<1> QED BY <1>1, <1>2, <1>5, <1>6, <1>7, TakesUp

(* Steps that only move a hand on.                                          *)
LEMMA HandsOver ==
    ASSUME ItemsInv, NEW h \in Hands, ClassifyUnavailable(h) \/ Reclassify(h)
    PROVE  ItemsInv'
<1>0. HandShape(hand[h])
  BY DEF ItemsInv, ItemsTyped
<1>1. UNCHANGED <<listing, items>>
  BY DEF ClassifyUnavailable, Reclassify
<1>2. ASSUME NEW pc \in {"classify", "arrange"}, NEW f, f = [hand[h] EXCEPT !.pc = pc]
      PROVE  HandShape(f) /\ Writes(f) /\ Fresh(f)
  <2>1. /\ f.pc = pc /\ f.seen = hand[h].seen /\ f.target = hand[h].target
        /\ f \in [pc : {pc}, op : {"none", "add", "classify", "arrange", "reorder", "room"},
                  seen : {hand[h].seen}, target : {hand[h].target}, arrange : {hand[h].arrange}]
    BY <1>0, <1>2 DEF HandShape
  <2> QED BY <1>0, <2>1 DEF HandShape, Writes, Fresh
<1>3. CASE Reclassify(h)
  <2>1. Requested(h) /\ hand' = [hand EXCEPT ![h] = [hand[h] EXCEPT !.pc = "classify"]]
    BY <1>3 DEF Reclassify
  <2>2. /\ itemBudget' \in 0..ItemIncidents
        /\ ~ lapped' => ~ lapped /\ \A g \in Hands \ {h} : hand[g].pc = "idle"
    BY <2>1, RequestsAlone DEF ItemsInv
  <2> QED BY <1>1, <1>2, <2>1, <2>2, HandMoves
<1>4. CASE ClassifyUnavailable(h)
  <2>1. /\ hand[h].pc = "classify" /\ UNCHANGED <<lapped, itemBudget>>
        /\ \/ hand' = [hand EXCEPT ![h] = [hand[h] EXCEPT !.pc = "arrange"]]
           \/ hand' = [hand EXCEPT ![h] = IdleHand]
    BY <1>4 DEF ClassifyUnavailable
  <2>2. /\ itemBudget' \in 0..ItemIncidents
        /\ ~ lapped' => ~ lapped /\ \A g \in Hands \ {h} : hand[g].pc = "idle"
    BY <2>1, BusyAlone
  <2>3. HandShape(IdleHand) /\ Writes(IdleHand) /\ Fresh(IdleHand)
    BY IdleIs
  <2> QED BY <1>1, <1>2, <2>1, <2>2, <2>3, HandMoves
<1> QED BY <1>3, <1>4

-----------------------------------------------------------------------------
(* Requests that write.  What was to be added is, or the constraint refuses.*)
LEMMA AddWrites ==
    ASSUME ItemsInv, NEW h \in Hands, CommitAdd(h)
    PROVE  ItemsInv'
<1> DEFINE new == hand[h].target
<1>1. /\ hand[h].pc = "write" /\ hand[h].op = "add" /\ UNCHANGED <<lapped, itemBudget>>
  BY DEF CommitAdd
<1>2. /\ itemBudget' \in 0..ItemIncidents
      /\ ~ lapped' => ~ lapped /\ \A g \in Hands \ {h} : hand[g].pc = "idle"
  BY <1>1, BusyAlone
<1>3. HandShape(IdleHand) /\ Writes(IdleHand) /\ Fresh(IdleHand)
  BY IdleIs
<1>4. CASE listing = "deleted" \/ DOMAIN hand[h].target \cap Listed # {}
  <2>1. hand' = [hand EXCEPT ![h] = IdleHand] /\ UNCHANGED <<listing, items>>
    BY <1>4 DEF CommitAdd
  <2> QED BY <1>2, <1>3, <2>1, HandMoves
<1>5. CASE ~ (listing = "deleted" \/ DOMAIN hand[h].target \cap Listed # {})
  <2> DEFINE arrange == (listing = "absent")
             f == [IdleHand EXCEPT !.pc = "classify", !.arrange = arrange]
  <2>1. /\ items' = [a \in Listed \cup DOMAIN new |-> IF a \in Listed THEN items[a] ELSE new[a]]
        /\ listing' = "there" /\ hand' = [hand EXCEPT ![h] = f]
    BY <1>5 DEF CommitAdd
  <2>2. HandShape(f) /\ Writes(f) /\ f.pc = "classify"
    <3> HIDE DEF arrange
    <3> QED BY IdleIs
  <2>3. Gallery(items) /\ Gallery(new)
    BY DEF ItemsInv, ItemsTyped, HandShape
  <2>4. Gallery(items')
    BY <2>1, <2>3 DEF Gallery, Listed
  <2>5. ASSUME ~ lapped' PROVE Apart(items')
    <3>1. Apart(items) /\ Extends(new)
      BY <1>1, <1>2, <2>5 DEF ItemsInv, InTurn, Fresh
    <3>2. ASSUME NEW a \in DOMAIN items', NEW b \in DOMAIN items', items'[a].pos = items'[b].pos
          PROVE  a = b
      <4>1. \A c \in DOMAIN new : new[c].pos \in Nat
        BY <2>3 DEF Gallery, Shots
      <4>2. \A c \in Listed : items[c].pos \in Nat
        BY <2>3 DEF Gallery, Shots, Listed
      <4>3. CASE a \in Listed /\ b \in Listed
        BY <2>1, <3>1, <3>2, <4>3 DEF Apart, Listed
      <4>4. CASE a \notin Listed /\ b \notin Listed
        BY <2>1, <3>1, <3>2, <4>4 DEF Extends, Apart
      <4>5. CASE a \notin Listed /\ b \in Listed
        <5>1. new[a].pos > items[b].pos /\ new[a].pos = items[b].pos
          BY <2>1, <3>1, <3>2, <4>5 DEF Extends
        <5> QED BY <2>1, <4>1, <4>2, <4>5, <5>1
      <4>6. CASE a \in Listed /\ b \notin Listed
        <5>1. new[b].pos > items[a].pos /\ new[b].pos = items[a].pos
          BY <2>1, <3>1, <3>2, <4>6 DEF Extends
        <5> QED BY <2>1, <4>1, <4>2, <4>6, <5>1
      <4> QED BY <4>3, <4>4, <4>5, <4>6
    <3> QED BY <3>2 DEF Apart
  <2> HIDE DEF f
  <2>6. f.pc # "write"
    BY <2>2
  <2> QED BY <1>2, <2>1, <2>2, <2>4, <2>5, <2>6, RowsMove
<1> QED BY <1>4, <1>5

(* What a commit leaves of a row: the columns it changed as it has them,    *)
(* the others as they are.                                                  *)
RowsAfter(h, a) ==
    [pos |-> Newer(hand[h].seen[a].pos, hand[h].target[a].pos, items[a].pos),
     room |-> Newer(hand[h].seen[a].room, hand[h].target[a].room, items[a].room),
     source |-> Newer(hand[h].seen[a].source, hand[h].target[a].source, items[a].source),
     score |-> Newer(hand[h].seen[a].score, hand[h].target[a].score, items[a].score)]

LEMMA WrittenRow ==
    ASSUME ItemsInv, NEW h \in Hands, hand[h].pc = "write", hand[h].op # "add",
           NEW a \in Listed, a \in DOMAIN hand[h].seen
    PROVE  /\ RowsAfter(h, a) \in Shots
           /\ hand[h].seen = items => RowsAfter(h, a).pos = hand[h].target[a].pos
           /\ RowsAfter(h, a).room # items[a].room =>
                RowsAfter(h, a).room = hand[h].target[a].room
                /\ hand[h].target[a].room # hand[h].seen[a].room
<1>1. items[a] \in Shots /\ hand[h].seen[a] \in Shots /\ hand[h].target[a] \in Shots
  <2>1. Gallery(items) /\ Gallery(hand[h].seen) /\ Gallery(hand[h].target)
        /\ DOMAIN hand[h].target = DOMAIN hand[h].seen
    BY DEF ItemsInv, ItemsTyped, HandShape, Writes
  <2> QED BY <2>1 DEF Gallery, Listed
<1>2. /\ Newer(hand[h].seen[a].pos, hand[h].target[a].pos, items[a].pos) \in Nat
      /\ Newer(hand[h].seen[a].room, hand[h].target[a].room, items[a].room) \in DOMAIN RoomOrder
      /\ Newer(hand[h].seen[a].source, hand[h].target[a].source, items[a].source)
           \in {"suggested", "confirmed"}
      /\ Newer(hand[h].seen[a].score, hand[h].target[a].score, items[a].score) \in Nat
  BY <1>1 DEF Newer, Shots
<1>3. RowsAfter(h, a) \in Shots
  BY <1>2 DEF RowsAfter, Shots
<1>4. /\ RowsAfter(h, a).pos = Newer(hand[h].seen[a].pos, hand[h].target[a].pos, items[a].pos)
      /\ RowsAfter(h, a).room = Newer(hand[h].seen[a].room, hand[h].target[a].room, items[a].room)
  BY DEF RowsAfter
<1> QED BY <1>3, <1>4 DEF Newer

LEMMA CommitWrites ==
    ASSUME ItemsInv, NEW h \in Hands, Commit(h)
    PROVE  ItemsInv'
<1>1. hand[h].pc = "write" /\ hand[h].op # "add" /\ UNCHANGED <<listing, lapped, itemBudget>>
  BY DEF Commit
<1>2. /\ itemBudget' \in 0..ItemIncidents
      /\ ~ lapped' => ~ lapped /\ \A g \in Hands \ {h} : hand[g].pc = "idle"
  BY <1>1, BusyAlone
<1>3. HandShape(IdleHand) /\ Writes(IdleHand) /\ Fresh(IdleHand) /\ IdleHand.pc = "idle"
  BY IdleIs
<1>4. CASE ~ (Changed(h) \subseteq Listed)
  <2>1. UNCHANGED items /\ hand' = [hand EXCEPT ![h] = IdleHand]
    BY <1>4 DEF Commit
  <2> QED BY <1>1, <1>2, <1>3, <2>1, HandMoves
<1>5. CASE Changed(h) \subseteq Listed
  <2>1. items' = [a \in Listed |-> IF a \in Changed(h) THEN RowsAfter(h, a) ELSE items[a]]
    BY <1>5 DEF Commit, RowsAfter
  <2>2. PICK f : /\ hand' = [hand EXCEPT ![h] = f]
                 /\ f = IdleHand \/ f = [IdleHand EXCEPT !.pc = "arrange"]
    BY <1>5 DEF Commit
  <2>3. HandShape(f) /\ Writes(f) /\ f.pc # "write"
    BY <2>2, IdleIs
  <2>4. Gallery(items) /\ Changed(h) \subseteq DOMAIN hand[h].seen
    BY DEF ItemsInv, ItemsTyped, Changed
  <2>5. Gallery(items')
    <3>1. DOMAIN items' = Listed
      BY <2>1
    <3>2. \A a \in Listed : items'[a] \in Shots
      <4> TAKE a \in Listed
      <4>1. CASE a \in Changed(h)
        BY <1>1, <2>1, <2>4, <4>1, WrittenRow
      <4>2. CASE a \notin Changed(h)
        BY <2>1, <2>4, <4>2 DEF Gallery, Listed
      <4> QED BY <4>1, <4>2
    <3> QED BY <2>4, <3>1, <3>2 DEF Gallery, Listed
  <2>6. listing' # "there" => items' = << >>
    <3> SUFFICES ASSUME listing' # "there" PROVE items' = << >>
      OBVIOUS
    <3>1. items = << >> /\ Listed = {}
      BY <1>1 DEF ItemsInv, ItemsTyped, Listed
    <3>2. items' = [a \in {} |-> items[a]]
      BY <2>1, <3>1
    <3> QED BY <3>2
  <2>7. ASSUME ~ lapped' PROVE Apart(items')
    <3>1. hand[h].seen = items /\ Apart(items) /\ DOMAIN hand[h].seen = Listed
      BY <1>1, <1>2, <2>7 DEF ItemsInv, InTurn, Fresh, Listed
    <3>2. \A a \in Listed : items'[a].pos = hand[h].target[a].pos
      <4> TAKE a \in Listed
      <4>1. CASE a \in Changed(h)
        BY <1>1, <2>1, <3>1, <4>1, WrittenRow
      <4>2. CASE a \notin Changed(h)
        BY <2>1, <3>1, <4>2 DEF Changed
      <4> QED BY <4>1, <4>2
    <3>3. hand[h].op \in {"classify", "arrange", "reorder", "room"}
      BY <1>1 DEF ItemsInv, ItemsTyped, HandShape, Writes
    <3>4. Writes(hand[h])
      BY DEF ItemsInv, ItemsTyped
    <3>5. DOMAIN items' = Listed
      BY <2>1
    <3>6. CASE hand[h].op \in {"classify", "room"}
      <4>1. \A a \in Listed : items'[a].pos = items[a].pos
        BY <1>1, <3>1, <3>2, <3>4, <3>6 DEF Writes
      <4> QED BY <3>1, <3>5, <4>1 DEF Apart, Listed
    <3>7. CASE hand[h].op \in {"arrange", "reorder"}
      <4>1. Apart(hand[h].target) /\ DOMAIN hand[h].target = Listed
        BY <1>1, <3>1, <3>4, <3>7 DEF Writes
      <4> QED BY <3>2, <3>5, <4>1 DEF Apart
    <3> QED BY <3>3, <3>6, <3>7
  <2>8. listing' \in {"absent", "there", "deleted"}
    BY <1>1 DEF ItemsInv, ItemsTyped
  <2> QED BY <1>2, <2>2, <2>3, <2>5, <2>6, <2>7, <2>8, RowsMove
<1> QED BY <1>4, <1>5

(* A photograph, or the listing with all of them, is taken away.            *)
LEMMA RowsGo ==
    ASSUME ItemsInv, NEW h \in Hands, RemoveItem(h) \/ Delete(h)
    PROVE  ItemsInv'
<1>1. Requested(h) /\ UNCHANGED hand /\ listing = "there"
  BY DEF RemoveItem, Delete
<1>2. /\ itemBudget' \in 0..ItemIncidents /\ hand[h].pc = "idle"
      /\ ~ lapped' => ~ lapped /\ \A g \in Hands \ {h} : hand[g].pc = "idle"
  BY <1>1, RequestsAlone DEF ItemsInv
<1>3. hand' = [hand EXCEPT ![h] = hand[h]] /\ HandShape(hand[h]) /\ Writes(hand[h])
  BY <1>1 DEF ItemsInv, ItemsTyped
<1>4. Gallery(items)
  BY DEF ItemsInv, ItemsTyped
<1>5. CASE RemoveItem(h)
  <2>1. PICK a \in Listed : items' = [b \in Listed \ {a} |-> items[b]]
    BY <1>5 DEF RemoveItem
  <2>2. listing' = "there"
    BY <1>1, <1>5 DEF RemoveItem
  <2>3. Gallery(items')
    BY <1>4, <2>1 DEF Gallery, Listed
  <2>4. ~ lapped' => Apart(items')
    BY <1>2, <2>1 DEF ItemsInv, InTurn, Apart, Listed
  <2> QED BY <1>2, <1>3, <2>2, <2>3, <2>4, RowsMove
<1>6. CASE Delete(h)
  <2>1. items' = << >> /\ listing' = "deleted"
    BY <1>6 DEF Delete
  <2>2. Gallery(items') /\ Apart(items')
    BY <2>1 DEF Gallery, Apart
  <2> QED BY <1>2, <1>3, <2>1, <2>2, RowsMove
<1> QED BY <1>5, <1>6

LEMMA ItemsInvStarts == ItemsInit => ItemsInv
<1> SUFFICES ASSUME ItemsInit PROVE ItemsInv
  OBVIOUS
<1>1. Gallery(items) /\ Apart(items)
  BY DEF ItemsInit, Gallery, Apart
<1>2. \A h \in Hands : HandShape(hand[h]) /\ Writes(hand[h]) /\ Fresh(hand[h])
                       /\ hand[h].pc = "idle"
  BY IdleIs DEF ItemsInit
<1>3. itemBudget \in 0..ItemIncidents
  <2>1. ItemIncidents \in Nat
    BY ItemsAssumption DEF ItemsAssumption
  <2> QED BY <2>1 DEF ItemsInit
<1> QED BY <1>1, <1>2, <1>3 DEF ItemsInit, ItemsInv, ItemsTyped, InTurn

LEMMA ItemsInvKept == ItemsInv /\ [ItemsNext]_itemVars => ItemsInv'
<1>1. ItemsInv /\ UNCHANGED itemVars => ItemsInv'
  <2> SUFFICES ASSUME ItemsInv, UNCHANGED itemVars PROVE ItemsInv'
    OBVIOUS
  <2>1. UNCHANGED <<listing, items, hand, lapped, itemBudget>>
    BY DEF itemVars
  <2>2. ItemsTyped'
    BY <2>1 DEF ItemsInv, ItemsTyped, Gallery
  <2>3. ~ lapped' => InTurn'
    BY <2>1 DEF ItemsInv, InTurn, Apart, Fresh, Extends, Listed
  <2> QED BY <2>2, <2>3 DEF ItemsInv
<1>2. ItemsInv /\ ItemsNext => ItemsInv'
  BY AddTakes, ArrangeTakes, ReorderTakes, SetRoomTakes, ClassifyTakes, HandsOver, AddWrites,
     CommitWrites, RowsGo DEF ItemsNext
<1> QED BY <1>1, <1>2

(* A step that gives a confirmed row another room is the commit of a room   *)
(* the operator set, or of a classification that had read it unconfirmed.   *)
LEMMA ConfirmedStays ==
    ASSUME ItemsInv, ItemsNext, NEW a \in Listed \cap DOMAIN items',
           items[a].source = "confirmed", items'[a].room # items[a].room
    PROVE  \E h \in Hands :
              /\ hand[h].pc = "write"
              /\ \/ hand[h].op = "room"
                 \/ /\ hand[h].op = "classify" /\ a \in DOMAIN hand[h].seen
                    /\ hand[h].seen[a].source # "confirmed"
<1>1. PICK h \in Hands :
        \/ Create(h) \/ Add(h) \/ CommitAdd(h)
        \/ Classify(h) \/ ClassifyUnavailable(h) \/ Reclassify(h)
        \/ Arrange(h) \/ ArrangeNew(h) \/ Reorder(h) \/ SetRoom(h) \/ Commit(h)
        \/ RemoveItem(h) \/ Delete(h)
  BY SMTT(30) DEF ItemsNext
<1>2. Create(h) \/ Add(h) \/ Classify(h) \/ ClassifyUnavailable(h) \/ Reclassify(h)
      \/ Arrange(h) \/ ArrangeNew(h) \/ Reorder(h) \/ SetRoom(h) => FALSE
  BY DEF Create, Add, Classify, ClassifyUnavailable, Reclassify, Arrange, ArrangeNew, Reorder, SetRoom
<1>3. CommitAdd(h) => FALSE
  BY DEF CommitAdd
<1>4. RemoveItem(h) => FALSE
  BY DEF RemoveItem
<1>5. Delete(h) => FALSE
  BY DEF Delete
<1>6. CASE Commit(h)
  <2>1. /\ hand[h].pc = "write" /\ hand[h].op # "add"
        /\ Changed(h) \subseteq Listed
        /\ items' = [b \in Listed |-> IF b \in Changed(h) THEN RowsAfter(h, b) ELSE items[b]]
    BY <1>6 DEF Commit, RowsAfter
  <2>2. a \in Changed(h) /\ items'[a] = RowsAfter(h, a)
    BY <2>1
  <2>3. a \in DOMAIN hand[h].seen /\ hand[h].target[a].room # hand[h].seen[a].room
    BY <2>1, <2>2, WrittenRow DEF Changed
  <2>4. Writes(hand[h]) /\ hand[h].op \in {"none", "add", "classify", "arrange", "reorder", "room"}
    BY DEF ItemsInv, ItemsTyped, HandShape
  <2>5. hand[h].op \in {"classify", "room"}
    BY <2>1, <2>3, <2>4 DEF Writes
  <2>6. hand[h].op = "classify" => hand[h].seen[a].source # "confirmed"
    BY <2>1, <2>3, <2>4 DEF Writes
  <2> QED BY <2>1, <2>3, <2>5, <2>6
<1> QED BY <1>1, <1>2, <1>3, <1>4, <1>5, <1>6

(* In every behaviour of Front, whatever requests are made of a listing     *)
(* (api/v1/listings.py): as long as no two overlapped no two photographs    *)
(* share a place, and, overlapping or not, a room the operator confirmed    *)
(* changes only by set_room or by a classification that had read the row    *)
(* before it was confirmed.                                                 *)
THEOREM ItemsHold == FrontSpec => ItemsCorrect
<1>1. FrontInit => ItemsInv
  BY ItemsInvStarts DEF FrontInit
<1>2. [FrontNext]_frontVars => [ItemsNext]_itemVars
  BY DEF FrontNext, ItemsMove, AccountsMove, SearchMoves, GrabsMove, OrganizerMoves, CurateMoves, frontVars
<1>3. ItemsInv /\ [FrontNext]_frontVars => ItemsInv'
  BY <1>2, ItemsInvKept
<1>4. ItemsInv => ItemsTypeOK /\ PositionsApart
  <2> SUFFICES ASSUME ItemsInv PROVE ItemsTypeOK /\ PositionsApart
    OBVIOUS
  <2>1. ItemsTypeOK
    BY DEF ItemsInv, ItemsTyped, Gallery, Shots, ItemsTypeOK
  <2>2. PositionsApart
    BY DEF ItemsInv, InTurn, Apart, Listed, PositionsApart
  <2> QED BY <2>1, <2>2
<1>5. ItemsInv /\ [FrontNext]_frontVars =>
        [\A a \in Listed \cap DOMAIN items' :
           items[a].source = "confirmed" /\ items'[a].room # items[a].room =>
              \E h \in Hands : /\ hand[h].pc = "write"
                               /\ \/ hand[h].op = "room"
                                  \/ /\ hand[h].op = "classify" /\ a \in DOMAIN hand[h].seen
                                     /\ hand[h].seen[a].source # "confirmed"]_itemVars
  BY <1>2, ConfirmedStays
<1> QED BY <1>1, <1>3, <1>4, <1>5, PTL DEF FrontSpec, ItemsCorrect, ConfirmedRoomHeld

-----------------------------------------------------------------------------
(* A set that goes on from m goes on to n. *)
LEMMA GoesOn ==
    ASSUME NEW m \in Nat, NEW n \in Nat, NEW S, m \in S,
           \A i \in m..n : i < n /\ i \in S => i + 1 \in S
    PROVE  \A i \in m..n : i \in S
<1> DEFINE others == {i \in Nat : i \in m..n /\ i \notin S}
<1>1. SUFFICES ASSUME others # {} PROVE FALSE
  BY DEF others
<1>2. PICK i \in others : \A j \in others : i <= j
  <2>1. others \in SUBSET Nat
    BY DEF others
  <2> QED BY <1>1, <2>1, Smallest
<1>3. i \in Nat /\ i \in m..n /\ i \notin S /\ i # m
  BY <1>2 DEF others
<1>4. i - 1 \in m..n /\ i - 1 < n /\ (i - 1) + 1 = i
  BY <1>3
<1>5. i - 1 \in S
  <2>1. i - 1 \in Nat /\ ~(i <= i - 1)
    BY <1>3, <1>4
  <2>2. i - 1 \notin others
    BY <1>2, <2>1
  <2> QED BY <1>4, <2>1, <2>2 DEF others
<1> QED BY <1>3, <1>4, <1>5

(* What is defined by recursion over the numbers to n is there. *)
Unfolding(n, V, first, step) ==
    {f \in [0..n -> V] : f[0] = first /\ \A i \in 1..n : f[i] = step[<<i, f[i - 1]>>]}
LEMMA Unfolds ==
    ASSUME NEW n \in Nat, NEW V, NEW first \in V, NEW step \in [(1..n) \X V -> V]
    PROVE  Unfolding(n, V, first, step) # {}
<1> DEFINE To(k, f) == f \in [0..k -> V] /\ \A i \in 0..k : f[i] = IF i = 0 THEN first ELSE step[<<i, f[i - 1]>>]
           S == {k \in 0..n : \E f \in [0..k -> V] : To(k, f)}
<1>1. 0 \in S
  <2> DEFINE f == [i \in 0..0 |-> first]
  <2>1. f \in [0..0 -> V] /\ To(0, f)
    OBVIOUS
  <2>2. 0 \in 0..n
    OBVIOUS
  <2> HIDE DEF f
  <2> QED BY <2>1, <2>2
<1>2. ASSUME NEW k \in 0..n, k < n, k \in S PROVE k + 1 \in S
  <2>1. PICK f \in [0..k -> V] : To(k, f)
    BY <1>2
  <2>2. k \in Nat /\ k + 1 \in 1..n
    BY <1>2
  <2>3. step[<<k + 1, f[k]>>] \in V
    <3>1. f[k] \in V
      BY <2>1, <2>2
    <3> QED BY <2>2, <3>1
  <2> DEFINE g == [i \in 0..k + 1 |-> IF i = k + 1 THEN step[<<k + 1, f[k]>>] ELSE f[i]]
  <2>4. g \in [0..k + 1 -> V]
    <3>1. ASSUME NEW i \in 0..k + 1 PROVE (IF i = k + 1 THEN step[<<k + 1, f[k]>>] ELSE f[i]) \in V
      <4>1. i # k + 1 => i \in 0..k
        BY <2>2
      <4> QED BY <2>1, <2>3, <4>1
    <3> QED BY <3>1
  <2>5. ASSUME NEW i \in 0..k + 1 PROVE g[i] = IF i = 0 THEN first ELSE step[<<i, g[i - 1]>>]
    <3>1. CASE i = k + 1
      <4>1. k \in 0..k + 1 /\ k # k + 1 /\ i - 1 = k /\ i # 0
        BY <2>2, <3>1
      <4>2. g[k] = f[k]
        BY <4>1
      <4> QED BY <3>1, <4>1, <4>2
    <3>2. CASE i # k + 1
      <4>1. i \in 0..k /\ (i # 0 => i - 1 \in 0..k + 1 /\ i - 1 # k + 1)
        BY <2>2, <3>2
      <4>2. f[i] = IF i = 0 THEN first ELSE step[<<i, f[i - 1]>>]
        BY <2>1, <4>1
      <4>3. g[i] = f[i] /\ (i # 0 => g[i - 1] = f[i - 1])
        BY <3>2, <4>1
      <4> QED BY <4>2, <4>3
    <3> QED BY <3>1, <3>2
  <2>6. To(k + 1, g)
    BY <2>4, <2>5
  <2>7. k + 1 \in 0..n
    BY <2>2
  <2> QED BY <2>4, <2>6, <2>7
<1>3. n \in S
  <2> HIDE DEF S
  <2>1. \A k \in 0..n : k < n /\ k \in S => k + 1 \in S
    BY <1>2
  <2>2. \A k \in 0..n : k \in S
    BY <1>1, <2>1, GoesOn
  <2> QED BY <2>2
<1>4. PICK f \in [0..n -> V] : To(n, f)
  BY <1>3
<1>5. 0 \in 0..n /\ \A i \in 1..n : i \in 0..n /\ i # 0
  OBVIOUS
<1> QED BY <1>4, <1>5 DEF Unfolding

(* Those, step by step. *)
StepsOf(list, places, f) ==
    /\ f[0] = << >>
    /\ \A i \in 1..Len(list) : f[i] = IF i \in places THEN Append(f[i - 1], list[i]) ELSE f[i - 1]
LEMMA ThoseSteps ==
    ASSUME NEW T, NEW list \in Seq(T), NEW places
    PROVE  \E f \in [0..Len(list) -> Seq(T)] : StepsOf(list, places, f) /\ Those(list, places) = f[Len(list)]
<1> DEFINE n == Len(list)
           V == Seq(T)
           step == [p \in (1..n) \X V |-> IF p[1] \in places THEN Append(p[2], list[p[1]]) ELSE p[2]]
           Is(f) == f = [i \in 0..n |-> IF i = 0 THEN << >>
                                        ELSE IF i \in places THEN Append(f[i - 1], list[i]) ELSE f[i - 1]]
<1>1. n \in Nat /\ << >> \in V
  OBVIOUS
<1>2. step \in [(1..n) \X V -> V]
  <2>1. ASSUME NEW p \in (1..n) \X V
        PROVE  (IF p[1] \in places THEN Append(p[2], list[p[1]]) ELSE p[2]) \in V
    <3>1. p[1] \in 1..n /\ p[2] \in Seq(T) /\ list[p[1]] \in T
      OBVIOUS
    <3> QED BY <3>1, AppendProperties
  <2> QED BY <2>1
<1>3. PICK f \in [0..n -> V] : f[0] = << >> /\ \A i \in 1..n : f[i] = step[<<i, f[i - 1]>>]
  <2> HIDE DEF n, V, step
  <2>1. Unfolding(n, V, << >>, step) # {}
    BY <1>1, <1>2, Unfolds
  <2> QED BY <2>1 DEF Unfolding
<1>4. \A i \in 1..n : step[<<i, f[i - 1]>>] = IF i \in places THEN Append(f[i - 1], list[i]) ELSE f[i - 1]
  <2> TAKE i \in 1..n
  <2>1. i - 1 \in 0..n
    BY <1>1
  <2>2. <<i, f[i - 1]>> \in (1..n) \X V
    BY <1>3, <2>1
  <2> QED BY <2>2
<1>5. Is(f)
  <2>1. \A i \in 0..n : f[i] = IF i = 0 THEN << >>
                               ELSE IF i \in places THEN Append(f[i - 1], list[i]) ELSE f[i - 1]
    <3> TAKE i \in 0..n
    <3>1. i # 0 => i \in 1..n
      BY <1>1
    <3>2. f[i] = IF i = 0 THEN << >> ELSE step[<<i, f[i - 1]>>]
      BY <1>3, <3>1
    <3> QED BY <1>4, <3>1, <3>2
  <2>2. f = [i \in 0..n |-> f[i]]
    BY <1>3
  <2> QED BY <2>1, <2>2
<1> DEFINE g == CHOOSE h : Is(h)
<1>6. Is(g)
  BY <1>5
<1>7. \A i \in 0..n : g[i] = f[i]
  <2>0. ASSUME NEW h, Is(h)
        PROVE  \A i \in 0..n : h[i] = IF i = 0 THEN << >>
                                       ELSE IF i \in places THEN Append(h[i - 1], list[i]) ELSE h[i - 1]
    BY <2>0
  <2> HIDE DEF g, Is
  <2> DEFINE S == {i \in 0..n : g[i] = f[i]}
  <2>1. 0 \in S
    <3>1. 0 \in 0..n
      BY <1>1
    <3>2. g[0] = << >> /\ f[0] = << >>
      BY <1>5, <1>6, <2>0, <3>1
    <3> QED BY <3>1, <3>2
  <2>2. \A i \in 0..n : i < n /\ i \in S => i + 1 \in S
    <3> SUFFICES ASSUME NEW i \in 0..n, i < n, g[i] = f[i] PROVE i + 1 \in 0..n /\ g[i + 1] = f[i + 1]
      OBVIOUS
    <3>1. i + 1 \in 0..n /\ i + 1 # 0 /\ (i + 1) - 1 = i
      BY <1>1
    <3>2. /\ g[i + 1] = IF i + 1 \in places THEN Append(g[i], list[i + 1]) ELSE g[i]
          /\ f[i + 1] = IF i + 1 \in places THEN Append(f[i], list[i + 1]) ELSE f[i]
      BY <1>5, <1>6, <2>0, <3>1
    <3> QED BY <3>1, <3>2
  <2> HIDE DEF S
  <2>3. \A i \in 0..n : i \in S
    BY <1>1, <2>1, <2>2, GoesOn
  <2> USE DEF S
  <2> QED BY <2>3
<1>8. Those(list, places) = g[n]
  BY DEF Those
<1>9. StepsOf(list, places, f)
  <2>1. f[0] = << >>
    BY <1>1, <1>5
  <2>2. \A i \in 1..n : i \in 0..n /\ i # 0
    BY <1>1
  <2> QED BY <1>5, <2>1, <2>2 DEF StepsOf
<1>10. Those(list, places) = f[n]
  <2>1. n \in 0..n
    BY <1>1
  <2> QED BY <1>7, <1>8, <2>1
<1> QED BY <1>3, <1>9, <1>10

(* Sequences. *)
LEMMA AppendHolds ==
    ASSUME NEW T, NEW s \in Seq(T), NEW x \in T
    PROVE  Len(Append(s, x)) = Len(s) + 1 /\ ToSet(Append(s, x)) = ToSet(s) \cup {x}
<1>1. PICK n \in Nat : n = Len(s)
  BY LenProperties
<1>2. Len(Append(s, x)) = n + 1 /\ \A i \in 1..n + 1 : Append(s, x)[i] = IF i = n + 1 THEN x ELSE s[i]
  BY <1>1, AppendProperties
<1>3. DOMAIN Append(s, x) = 1..n + 1 /\ DOMAIN s = 1..n
  BY <1>1, <1>2, AppendProperties, LenProperties
<1>4. 1..n + 1 = (1..n) \cup {n + 1} /\ n + 1 \notin 1..n
  OBVIOUS
<1>5. ToSet(Append(s, x)) = ToSet(s) \cup {x}
  BY <1>2, <1>3, <1>4 DEF ToSet
<1> QED BY <1>1, <1>2, <1>5
(* Those are what the list has there. *)
LEMMA ThoseAre ==
    ASSUME NEW T, NEW list \in Seq(T), NEW places
    PROVE  /\ Those(list, places) \in Seq(T)
           /\ Len(Those(list, places)) <= Len(list)
           /\ ToSet(Those(list, places)) = {list[i] : i \in places \cap (1..Len(list))}
<1>1. PICK f \in [0..Len(list) -> Seq(T)] : StepsOf(list, places, f) /\ Those(list, places) = f[Len(list)]
  BY ThoseSteps
<1>2. PICK n \in Nat : n = Len(list)
  BY LenProperties
<1> DEFINE S == {k \in 0..n : /\ Len(f[k]) <= k
                              /\ ToSet(f[k]) = {list[i] : i \in places \cap (1..k)}}
<1>3. 0 \in S
  BY <1>1 DEF StepsOf, ToSet
<1>4. ASSUME NEW k \in 0..n, k < n, k \in S PROVE k + 1 \in S
  <2>1. k + 1 \in 1..n /\ (k + 1) - 1 = k
    BY <1>4
  <2>2. f[k + 1] = IF k + 1 \in places THEN Append(f[k], list[k + 1]) ELSE f[k]
    BY <1>1, <1>2, <2>1 DEF StepsOf
  <2>3. /\ Len(f[k]) <= k /\ f[k] \in Seq(T) /\ list[k + 1] \in T /\ Len(f[k]) \in Nat
        /\ ToSet(f[k]) = {list[i] : i \in places \cap (1..k)}
    BY <1>1, <1>2, <1>4, <2>1, LenProperties
  <2>4. 1..k + 1 = (1..k) \cup {k + 1}
    OBVIOUS
  <2>5. CASE k + 1 \in places
    <3>1. /\ Len(f[k + 1]) = Len(f[k]) + 1
          /\ ToSet(f[k + 1]) = ToSet(f[k]) \cup {list[k + 1]}
      <4>1. PICK s \in Seq(T), x \in T : s = f[k] /\ x = list[k + 1]
        BY <2>3
      <4>2. Len(Append(s, x)) = Len(s) + 1 /\ ToSet(Append(s, x)) = ToSet(s) \cup {x}
        BY AppendHolds
      <4> QED BY <2>2, <2>5, <4>1, <4>2
    <3>2. {list[i] : i \in places \cap (1..k + 1)} = {list[i] : i \in places \cap (1..k)} \cup {list[k + 1]}
      BY <2>4, <2>5
    <3>3. PICK q \in Nat : q = Len(f[k])
      BY <2>3
    <3>4. q <= k /\ Len(f[k + 1]) = q + 1 /\ k \in Nat
      BY <2>3, <3>1, <3>3
    <3>5. Len(f[k + 1]) <= k + 1 /\ k + 1 \in 0..n
      BY <2>1, <3>4
    <3>6. ToSet(f[k + 1]) = {list[i] : i \in places \cap (1..k + 1)}
      BY <2>3, <3>1, <3>2
    <3> QED BY <3>5, <3>6
  <2>6. CASE k + 1 \notin places
    <3>1. {list[i] : i \in places \cap (1..k + 1)} = {list[i] : i \in places \cap (1..k)}
      BY <2>4, <2>6
    <3> QED BY <2>1, <2>2, <2>3, <2>6, <3>1
  <2> QED BY <2>5, <2>6
<1>5. n \in S
  <2> HIDE DEF S
  <2>1. \A k \in 0..n : k < n /\ k \in S => k + 1 \in S
    BY <1>4
  <2>2. \A k \in 0..n : k \in S
    BY <1>3, <2>1, GoesOn
  <2> QED BY <2>2
<1>6. f[n] \in Seq(T)
  BY <1>2
<1> QED BY <1>1, <1>2, <1>5, <1>6

(* What a list begins with is what Those begin with. *)
Begins(T, begin, list) == \E more \in Seq(T) : list = begin \o more
LEMMA ThoseFirst ==
    ASSUME NEW T, NEW list \in Seq(T), NEW m \in 0..Len(list), NEW begin \in Seq(T),
           Len(begin) = m, \A i \in 1..m : begin[i] = list[i],
           NEW places, NEW early, places \cap (1..m) = early \cap (1..m)
    PROVE  Begins(T, Those(begin, early), Those(list, places))
<1>1. PICK f \in [0..Len(list) -> Seq(T)] : StepsOf(list, places, f) /\ Those(list, places) = f[Len(list)]
  BY ThoseSteps
<1>2. PICK g \in [0..m -> Seq(T)] : StepsOf(begin, early, g) /\ Those(begin, early) = g[m]
  <2>1. \E g \in [0..Len(begin) -> Seq(T)] :
           StepsOf(begin, early, g) /\ Those(begin, early) = g[Len(begin)]
    BY ThoseSteps
  <2> QED BY <2>1
<1>3. PICK n \in Nat : n = Len(list) /\ m \in 0..n /\ m \in Nat
  BY LenProperties
<1>4. f[m] = g[m]
  <2> DEFINE S == {i \in 0..m : f[i] = g[i]}
  <2>1. 0 \in S
    BY <1>1, <1>2, <1>3 DEF StepsOf
  <2>2. ASSUME NEW i \in 0..m, i < m, i \in S PROVE i + 1 \in S
    <3>1. i + 1 \in 1..m /\ i + 1 \in 1..n /\ (i + 1) - 1 = i
      BY <1>3, <2>2
    <3>2. f[i + 1] = IF i + 1 \in places THEN Append(f[i], list[i + 1]) ELSE f[i]
      BY <1>1, <1>3, <3>1 DEF StepsOf
    <3>3. g[i + 1] = IF i + 1 \in early THEN Append(g[i], begin[i + 1]) ELSE g[i]
      BY <1>2, <3>1 DEF StepsOf
    <3>4. begin[i + 1] = list[i + 1] /\ (i + 1 \in places <=> i + 1 \in early)
      BY <3>1
    <3> QED BY <2>2, <3>1, <3>2, <3>3, <3>4
  <2> HIDE DEF S
  <2>3. \A i \in 0..m : i \in S
    BY <1>3, <2>1, <2>2, GoesOn
  <2> USE DEF S
  <2> QED BY <1>3, <2>3
<1>5. \E more \in Seq(T) : f[n] = f[m] \o more
  <2> DEFINE S == {i \in m..n : \E more \in Seq(T) : f[i] = f[m] \o more}
  <2>1. m \in S
    <3>1. << >> \in Seq(T) /\ m \in m..n /\ m \in 0..n
      BY <1>3
    <3>2. PICK s \in Seq(T) : s = f[m]
      BY <1>1, <1>3, <3>1
    <3>3. s = s \o << >>
      BY ConcatEmptySeq
    <3> QED BY <3>1, <3>2, <3>3
  <2>2. ASSUME NEW i \in m..n, i < n, i \in S PROVE i + 1 \in S
    <3>1. PICK more \in Seq(T) : f[i] = f[m] \o more
      BY <2>2
    <3>2. i + 1 \in 1..n /\ i + 1 \in m..n /\ (i + 1) - 1 = i /\ m \in 0..n
      BY <1>3, <2>2
    <3>3. f[i + 1] = IF i + 1 \in places THEN Append(f[i], list[i + 1]) ELSE f[i]
      BY <1>1, <1>3, <3>2 DEF StepsOf
    <3>4. CASE i + 1 \in places
      <4>1. PICK s \in Seq(T), x \in T : s = f[m] /\ x = list[i + 1]
        BY <1>1, <1>3, <3>2
      <4>2. Append(s \o more, x) = s \o Append(more, x)
        <5>0. << x >> \in Seq(T)
          OBVIOUS
        <5>1. PICK one \in Seq(T) : one = << x >>
          BY <5>0
        <5>2. Append(s \o more, x) = (s \o more) \o one /\ Append(more, x) = more \o one
          BY <5>1, AppendIsConcat, ConcatProperties
        <5>3. (s \o more) \o one = s \o (more \o one)
          BY ConcatAssociative, SMTT(30)
        <5> QED BY <5>2, <5>3
      <4>3. Append(more, x) \in Seq(T)
        BY AppendProperties
      <4> QED BY <3>1, <3>2, <3>3, <3>4, <4>1, <4>2, <4>3
    <3> QED BY <3>1, <3>2, <3>3, <3>4
  <2> HIDE DEF S
  <2>3. \A i \in m..n : i \in S
    BY <1>3, <2>1, <2>2, GoesOn
  <2> USE DEF S
  <2>4. n \in m..n
    BY <1>3
  <2> QED BY <2>3, <2>4
<1> QED BY <1>1, <1>2, <1>3, <1>4, <1>5 DEF Begins

-----------------------------------------------------------------------------
(* What a search keeps. *)
Clips == ToSet(Footage)
Passages == [id : Nat, asset : Clips, whole : BOOLEAN]
Stages == {"idle", "words", "any word", "names", "frames", "tags", "fuse", "load"}
Whys == {"tag", "suggested_tag", "visual", "transcript", "name"}
Hit == [asset : Clips, reasons : SUBSET Whys, moment : {"frame", "every word", "any word"}]
Widths == 0..(WidestWindow + Hits * NeighbourFrames)
Lookings ==
    [at : Stages, like : Clips \cup {"none"}, said : Seq(Passages), names : Seq(Clips), window : Widths,
     frames : Seq(Clips \X Nat), tags : Seq(Clips \X {"tag", "suggested_tag"}), results : Seq(Hit),
     changed : BOOLEAN]

(* Said as a whole nowhere in a clip that opens where some word was said. *)
NotWhole(a) == \A g \in ToSet(SaidOnline(TRUE)) : g.asset # a
Nearest(me) == Upto(BestFrames(Upto(Nearby(me.like), Max({me.window, WidestWindow}))), Hits)
(* What a search has found is of the catalogue as it is. *)
OfNow(me) ==
    /\ me.at = "any word" => me.said = Upto(SaidOnline(TRUE), Hits)
    /\ me.at \in {"words", "any word", "names", "frames"} => me.frames = << >>
    /\ me.at \in {"tags", "fuse"} => me.like = "none"
    /\ \A g \in ToSet(me.said) : g.asset \in online
    /\ \A a \in Clips : Moment(me, a) = "any word" => NotWhole(a)
    /\ ToSet(me.names) \subseteq online
    /\ me.like = "none" => \A f \in ToSet(me.frames) : f[1] \in online
    /\ me.frames # << >> => me.frames = Nearest(me)
    /\ \A t \in ToSet(me.tags) : t[1] \in online
    /\ \A r \in ToSet(me.results) : r.moment = "any word" => NotWhole(r.asset)

Sound(me) ==
    /\ Len(me.results) <= Hits /\ Len(me.said) <= Hits
    /\ me.at # "idle" => me.results = << >>
    /\ me.at = "any word" => Len(me.said) < Hits
    /\ ~me.changed => OfNow(me)

LookingInv ==
    /\ online \subseteq Clips /\ indexed \subseteq ToSet(NearestFrames)
    /\ looking \in [Searches -> Lookings] /\ searchBudget \in 0..SearchIncidents
    /\ \A s \in Searches : Sound(looking[s])
    /\ \A s \in Panels : looking[s].at \notin {"tags", "fuse"}

-----------------------------------------------------------------------------
LEMMA SearchSettings ==
    /\ Hits \in Nat /\ Hits > 0 /\ NeighbourFrames \in Nat /\ WidestWindow \in Nat /\ SearchIncidents \in Nat
    /\ Footage \in Seq(Clips) /\ Named \in Seq(Clips) /\ Tagged \in Seq(Clips)
    /\ NearestFrames \in Seq(Clips \X Nat) /\ Segments \in Seq(Passages)
    /\ Hits * NeighbourFrames \in Nat /\ "none" \notin Clips
<1>1. \A m, n \in Nat : m * n \in Nat
  OBVIOUS
<1> QED BY <1>1, SearchAssumption DEF SearchAssumption, Clips, Passages

(* Some of a list, in its order. *)
LEMMA UptoIs ==
    ASSUME NEW T, NEW list \in Seq(T), NEW n \in Nat
    PROVE  /\ Upto(list, n) \in Seq(T) /\ Len(Upto(list, n)) = Least(n, Len(list))
           /\ \A i \in 1..Least(n, Len(list)) : Upto(list, n)[i] = list[i]
           /\ ToSet(Upto(list, n)) \subseteq ToSet(list)
           /\ Len(list) <= n => Upto(list, n) = list
<1>1. PICK m \in Nat : m = Len(list)
  BY LenProperties
<1>2. PICK k \in Nat : k = Least(n, m) /\ k <= n /\ k <= m /\ (m <= n => k = m)
  BY DEF Least
<1>3. Upto(list, n) = SubSeq(list, 1, k)
  BY <1>1, <1>2 DEF Upto
<1>4. /\ SubSeq(list, 1, k) \in Seq(T) /\ Len(SubSeq(list, 1, k)) = k
      /\ \A i \in 1..k : SubSeq(list, 1, k)[i] = list[i]
  BY <1>1, <1>2
<1>5. ToSet(SubSeq(list, 1, k)) \subseteq ToSet(list)
  <2>1. DOMAIN SubSeq(list, 1, k) = 1..k /\ DOMAIN list = 1..m
    BY <1>1, <1>4, LenProperties
  <2>2. 1..k \subseteq 1..m
    BY <1>2
  <2> QED BY <1>4, <2>1, <2>2 DEF ToSet
<1>6. m <= n => SubSeq(list, 1, k) = list
  <2>1. SUFFICES ASSUME m <= n PROVE SubSeq(list, 1, m) = list
    BY <1>2
  <2> QED BY <1>1, <1>2, <1>4, <2>1, SeqEqual
<1> QED BY <1>1, <1>2, <1>3, <1>4, <1>5, <1>6

LEMMA ItemsOf ==
    ASSUME NEW T, NEW list \in Seq(T)
    PROVE  ToSet(list) = {list[i] : i \in 1..Len(list)} /\ ToSet(list) \subseteq T
  BY LenProperties DEF ToSet

LEMMA KeptAre ==
    ASSUME NEW T, NEW list \in Seq(T), NEW S
    PROVE  /\ Kept(list, S) \in Seq(T) /\ Kept(list, S) \in Seq(T \cap S)
           /\ Len(Kept(list, S)) <= Len(list)
           /\ ToSet(Kept(list, S)) = ToSet(list) \cap S
<1> DEFINE places == {i \in DOMAIN list : list[i] \in S}
<1>1. /\ Those(list, places) \in Seq(T) /\ Len(Those(list, places)) <= Len(list)
      /\ ToSet(Those(list, places)) = {list[i] : i \in places \cap (1..Len(list))}
  <2> HIDE DEF places
  <2> QED BY ThoseAre
<1>2. {list[i] : i \in places \cap (1..Len(list))} = ToSet(list) \cap S
  BY LenProperties DEF ToSet
<1>3. ASSUME NEW kept \in Seq(T), ToSet(kept) \subseteq S PROVE kept \in Seq(T \cap S)
  <2>1. \A i \in 1..Len(kept) : kept[i] \in T \cap S
    BY <1>3, ItemsOf
  <2> QED BY <2>1, LenProperties
<1> QED BY <1>1, <1>2, <1>3 DEF Kept

LEMMA SaidOnlineIs ==
    ASSUME NEW whole
    PROVE  /\ SaidOnline(whole) \in Seq(Passages)
           /\ ToSet(SaidOnline(whole)) \subseteq ToSet(Segments)
           /\ \A g \in ToSet(SaidOnline(whole)) : g.whole = whole /\ g.asset \in online
<1> DEFINE S == {g \in ToSet(Segments) : g.whole = whole /\ g.asset \in online}
<1>1. Segments \in Seq(Passages)
  BY SearchSettings
<1>2. Kept(Segments, S) \in Seq(Passages) /\ ToSet(Kept(Segments, S)) = ToSet(Segments) \cap S
  <2> HIDE DEF S
  <2> QED BY <1>1, KeptAre
<1>3. SaidOnline(whole) = Kept(Segments, S)
  BY DEF SaidOnline
<1> QED BY <1>2, <1>3

(* Where one list follows another. *)
LEMMA Joined ==
    ASSUME NEW T, NEW r \in Seq(T), NEW s \in Seq(T)
    PROVE  r \o s \in Seq(T) /\ ToSet(r \o s) = ToSet(r) \cup ToSet(s)
<1>1. PICK m \in Nat, n \in Nat : m = Len(r) /\ n = Len(s)
  BY LenProperties
<1>2. /\ r \o s \in Seq(T) /\ Len(r \o s) = m + n
      /\ \A i \in 1..m + n : (r \o s)[i] = IF i <= m THEN r[i] ELSE s[i - m]
  BY <1>1, ConcatProperties
<1>3. DOMAIN (r \o s) = 1..m + n /\ DOMAIN r = 1..m /\ DOMAIN s = 1..n
  BY <1>1, <1>2, LenProperties
<1>4. ASSUME NEW x \in ToSet(r \o s) PROVE x \in ToSet(r) \cup ToSet(s)
  <2>1. PICK i \in 1..m + n : x = (r \o s)[i]
    BY <1>3 DEF ToSet
  <2>2. CASE i <= m
    <3>1. i \in 1..m /\ x = r[i]
      BY <1>2, <2>1, <2>2
    <3> QED BY <1>3, <3>1 DEF ToSet
  <2>3. CASE ~(i <= m)
    <3>1. i - m \in 1..n /\ x = s[i - m]
      BY <1>2, <2>1, <2>3
    <3> QED BY <1>3, <3>1 DEF ToSet
  <2> QED BY <2>2, <2>3
<1>5. ASSUME NEW x \in ToSet(r) PROVE x \in ToSet(r \o s)
  <2>1. PICK i \in 1..m : x = r[i]
    BY <1>3 DEF ToSet
  <2>2. i \in 1..m + n /\ (r \o s)[i] = x
    BY <1>2, <2>1
  <2> QED BY <1>3, <2>2 DEF ToSet
<1>6. ASSUME NEW x \in ToSet(s) PROVE x \in ToSet(r \o s)
  <2>1. PICK i \in 1..n : x = s[i]
    BY <1>3 DEF ToSet
  <2>2. i + m \in 1..m + n /\ ~(i + m <= m) /\ (i + m) - m = i
    OBVIOUS
  <2>3. (r \o s)[i + m] = x
    BY <1>2, <2>1, <2>2
  <2> QED BY <1>3, <2>2, <2>3 DEF ToSet
<1> QED BY <1>2, <1>4, <1>5, <1>6

LEMMA KeptJoined ==
    ASSUME NEW T, NEW r \in Seq(T), NEW s \in Seq(T), NEW S
    PROVE  Begins(T, Kept(r, S), Kept(r \o s, S))
<1>1. PICK m \in Nat, n \in Nat : m = Len(r) /\ n = Len(s)
  BY LenProperties
<1>2. PICK list \in Seq(T) : list = r \o s
  BY ConcatProperties
<1>3. Len(list) = m + n /\ \A i \in 1..m + n : list[i] = IF i <= m THEN r[i] ELSE s[i - m]
  BY <1>1, <1>2, ConcatProperties
<1>4. DOMAIN list = 1..m + n /\ DOMAIN r = 1..m
  BY <1>1, <1>3, LenProperties
<1>5. 1..m \subseteq 1..m + n /\ m \in 0..m + n
  OBVIOUS
<1>6. \A i \in 1..m : r[i] = list[i]
  BY <1>3, <1>5
<1> DEFINE places == {i \in DOMAIN list : list[i] \in S}
           early == {i \in DOMAIN r : r[i] \in S}
<1>7. places \cap (1..m) = early \cap (1..m)
  BY <1>4, <1>5, <1>6
<1>8. Begins(T, Those(r, early), Those(list, places))
  <2> HIDE DEF places, early
  <2>1. m \in 0..Len(list) /\ Len(r) = m
    BY <1>1, <1>3, <1>5
  <2> QED BY <1>6, <1>7, <2>1, ThoseFirst
<1> QED BY <1>2, <1>8 DEF Kept

LEMMA FirstOf ==
    ASSUME NEW T, NEW list \in Seq(T), list # << >>
    PROVE  Head(list) = list[1] /\ list[1] \in ToSet(list) /\ Len(list) \in Nat /\ Len(list) > 0
<1>1. PICK n \in Nat : n = Len(list) /\ DOMAIN list = 1..n
  BY LenProperties
<1>2. n # 0
  BY <1>1, EmptySeq
<1>3. 1 \in 1..n
  BY <1>1, <1>2
<1>4. Head(list) = list[1]
  OBVIOUS
<1> QED BY <1>1, <1>2, <1>3, <1>4 DEF ToSet

LEMMA FirstJoined ==
    ASSUME NEW T, NEW r \in Seq(T), NEW s \in Seq(T), NEW x \in ToSet(r)
    PROVE  r # << >> /\ (r \o s)[1] = r[1]
<1>1. PICK m \in Nat, n \in Nat : m = Len(r) /\ n = Len(s) /\ DOMAIN r = 1..m
  BY LenProperties
<1>2. PICK i \in 1..m : x = r[i]
  BY <1>1 DEF ToSet
<1>3. 1 \in 1..m + n /\ 1 <= m /\ m # 0
  BY <1>1, <1>2
<1>4. \A k \in 1..m + n : (r \o s)[k] = IF k <= m THEN r[k] ELSE s[k - m]
  BY <1>1, ConcatProperties
<1>5. r # << >>
  BY <1>1, <1>3
<1> QED BY <1>3, <1>4, <1>5

(* A clip all of whose passages were said as a whole does not open where    *)
(* some word was said, and neither does one whose first was.                *)
LEMMA MomentOf ==
    ASSUME NEW me, me.said \in Seq(Passages), NEW a, Moment(me, a) = "any word"
    PROVE  LET there == Kept(me.said, {g \in ToSet(Segments) : g.asset = a})
           IN  there # << >> /\ ~there[1].whole /\ there[1] \in ToSet(me.said)
<1> DEFINE own == {g \in ToSet(Segments) : g.asset = a}
<1>1. PICK there \in Seq(Passages) :
        there = Kept(me.said, own) /\ ToSet(there) \subseteq ToSet(me.said)
  <2> HIDE DEF own
  <2> QED BY KeptAre
<1>2. there # << >> /\ ~Head(there).whole
  BY <1>1 DEF Moment
<1>3. Head(there) = there[1] /\ there[1] \in ToSet(there)
  BY <1>2, FirstOf
<1> QED BY <1>1, <1>2, <1>3

LEMMA WholeFirst ==
    ASSUME NEW me, me.said = Upto(SaidOnline(TRUE), Hits)
    PROVE  \A a : Moment(me, a) # "any word"
<1>1. PICK rows \in Seq(Passages) : rows = SaidOnline(TRUE) /\ \A g \in ToSet(rows) : g.whole = TRUE
  BY SaidOnlineIs
<1>2. Hits \in Nat
  BY SearchSettings
<1>3. Upto(rows, Hits) \in Seq(Passages) /\ ToSet(Upto(rows, Hits)) \subseteq ToSet(rows)
  BY <1>2, UptoIs
<1> SUFFICES ASSUME NEW a, Moment(me, a) = "any word" PROVE FALSE
  OBVIOUS
<1>4. me.said \in Seq(Passages) /\ ToSet(me.said) \subseteq ToSet(rows)
  BY <1>1, <1>3
<1>5. PICK g \in ToSet(me.said) : ~g.whole
  BY <1>4, MomentOf
<1> QED BY <1>1, <1>4, <1>5

LEMMA FilledUp ==
    ASSUME NEW me, NEW fill \in Seq(Passages), Len(SaidOnline(TRUE)) <= Hits,
           me.said = Upto(SaidOnline(TRUE), Hits) \o fill
    PROVE  \A a : Moment(me, a) = "any word" => NotWhole(a)
<1>1. PICK rows \in Seq(Passages) :
         /\ rows = SaidOnline(TRUE) /\ \A g \in ToSet(rows) : g.whole = TRUE
         /\ ToSet(rows) \subseteq ToSet(Segments)
  BY SaidOnlineIs
<1>2. Hits \in Nat /\ Len(rows) <= Hits
  BY <1>1, SearchSettings
<1>3. Upto(rows, Hits) = rows
  BY <1>2, UptoIs
<1>4. PICK said \in Seq(Passages) : said = rows \o fill /\ me.said = said
  BY <1>1, <1>3, Joined
<1> SUFFICES ASSUME NEW a, Moment(me, a) = "any word", NEW g \in ToSet(rows), g.asset = a
             PROVE  FALSE
  BY <1>1 DEF NotWhole
<1> DEFINE own == {h \in ToSet(Segments) : h.asset = a}
<1>5. g \in own
  BY <1>1
<1>6. ~Kept(said, own)[1].whole
  BY <1>4, MomentOf
<1> HIDE DEF own
<1>7. PICK first \in Seq(Passages) : first = Kept(rows, own) /\ ToSet(first) = ToSet(rows) \cap own
  BY KeptAre
<1>8. PICK more \in Seq(Passages) : Kept(rows \o fill, own) = first \o more
  <2>1. Begins(Passages, Kept(rows, own), Kept(rows \o fill, own))
    BY KeptJoined
  <2> QED BY <1>7, <2>1 DEF Begins
<1>9. g \in ToSet(first)
  BY <1>5, <1>7
<1>10. first # << >> /\ (first \o more)[1] = first[1]
  BY <1>9, FirstJoined
<1>11. first[1] \in ToSet(first)
  BY <1>10, FirstOf
<1> QED BY <1>1, <1>4, <1>6, <1>7, <1>8, <1>10, <1>11

(* Windows. *)
LEMMA UptoBegins ==
    ASSUME NEW T, NEW r \in Seq(T), NEW list \in Seq(T), Begins(T, r, list), NEW n \in Nat,
           Len(Upto(r, n)) >= n
    PROVE  Upto(list, n) = Upto(r, n)
<1>1. PICK more \in Seq(T) : list = r \o more
  BY DEF Begins
<1>2. PICK p \in Nat, q \in Nat : p = Len(r) /\ q = Len(more)
  BY LenProperties
<1>3. Len(list) = p + q /\ \A i \in 1..p + q : list[i] = IF i <= p THEN r[i] ELSE more[i - p]
  BY <1>1, <1>2, ConcatProperties
<1>4. /\ Upto(r, n) \in Seq(T) /\ Len(Upto(r, n)) = Least(n, p)
      /\ \A i \in 1..Least(n, p) : Upto(r, n)[i] = r[i]
  BY <1>2, UptoIs
<1>5. n <= p /\ Least(n, p) = n /\ Least(n, p + q) = n
  BY <1>2, <1>4 DEF Least
<1>6. /\ Upto(list, n) \in Seq(T) /\ Len(Upto(list, n)) = n
      /\ \A i \in 1..n : Upto(list, n)[i] = list[i]
  <2>1. /\ Upto(list, n) \in Seq(T) /\ Len(Upto(list, n)) = Least(n, Len(list))
        /\ \A i \in 1..Least(n, Len(list)) : Upto(list, n)[i] = list[i]
    BY UptoIs
  <2>2. Least(n, Len(list)) = n
    BY <1>3, <1>5
  <2> QED BY <2>1, <2>2
<1>7. \A i \in 1..n : list[i] = r[i]
  <2>1. \A i \in 1..n : i \in 1..p + q /\ i <= p
    BY <1>2, <1>5
  <2> QED BY <1>3, <2>1
<1>8. PICK a \in Seq(T), b \in Seq(T) : a = Upto(list, n) /\ b = Upto(r, n)
  BY <1>4, <1>6
<1>9. Len(a) = Len(b) /\ \A i \in 1..Len(a) : a[i] = b[i]
  BY <1>4, <1>5, <1>6, <1>7, <1>8
<1>10. a = b
  BY <1>9, SeqEqual
<1> QED BY <1>8, <1>10

Frames == Clips \X Nat
LEMMA BestFramesAre ==
    ASSUME NEW frames \in Seq(Frames)
    PROVE  BestFrames(frames) \in Seq(Frames) /\ ToSet(BestFrames(frames)) \subseteq ToSet(frames)
<1> DEFINE firsts == {i \in DOMAIN frames : \A j \in 1..(i - 1) : frames[j][1] # frames[i][1]}
<1>1. /\ Those(frames, firsts) \in Seq(Frames)
      /\ ToSet(Those(frames, firsts)) = {frames[i] : i \in firsts \cap (1..Len(frames))}
  <2> HIDE DEF firsts
  <2> QED BY ThoseAre
<1>2. BestFrames(frames) = Those(frames, firsts)
  BY DEF BestFrames
<1>3. ToSet(frames) = {frames[i] : i \in 1..Len(frames)}
  BY ItemsOf
<1> QED BY <1>1, <1>2, <1>3

LEMMA BestBegin ==
    ASSUME NEW frames \in Seq(Frames), NEW m \in 0..Len(frames), NEW begin \in Seq(Frames),
           Len(begin) = m, \A i \in 1..m : begin[i] = frames[i]
    PROVE  Begins(Frames, BestFrames(begin), BestFrames(frames))
<1> DEFINE places == {i \in DOMAIN frames : \A j \in 1..(i - 1) : frames[j][1] # frames[i][1]}
           early == {i \in DOMAIN begin : \A j \in 1..(i - 1) : begin[j][1] # begin[i][1]}
<1>1. PICK n \in Nat : n = Len(frames) /\ DOMAIN frames = 1..n /\ DOMAIN begin = 1..m /\ m \in 0..n
  BY LenProperties
<1>2. \A i \in 1..m : i \in 1..n /\ \A j \in 1..(i - 1) : j \in 1..m
  BY <1>1
<1>3. places \cap (1..m) = early \cap (1..m)
  BY <1>1, <1>2
<1>4. Begins(Frames, Those(begin, early), Those(frames, places))
  <2> HIDE DEF places, early
  <2> QED BY <1>1, <1>3, ThoseFirst
<1> QED BY <1>4 DEF BestFrames

LEMMA WidestIs ==
    ASSUME NEW m \in Nat, NEW n \in Nat
    PROVE  Max({m, n}) = IF m >= n THEN m ELSE n
<1> DEFINE most == IF m >= n THEN m ELSE n
<1>1. most \in {m, n} /\ \A y \in {m, n} : most >= y
  OBVIOUS
<1>2. \A x \in {m, n} : (\A y \in {m, n} : x >= y) => x = most
  OBVIOUS
<1> HIDE DEF most
<1>3. Max({m, n}) = most
  BY <1>1, <1>2 DEF Max
<1> QED BY <1>3 DEF most

LEMMA EnoughIsAll ==
    ASSUME NEW nearby \in Seq(Frames), NEW window \in Nat,
           Enough(Upto(BestFrames(Upto(nearby, window)), Hits), Len(Upto(nearby, window)), window)
    PROVE  Upto(BestFrames(Upto(nearby, window)), Hits) =
           Upto(BestFrames(Upto(nearby, Max({window, WidestWindow}))), Hits)
<1>1. PICK n \in Nat : n = Len(nearby)
  BY LenProperties
<1>2. PICK p \in Nat, w \in Nat :
         p = Least(window, n) /\ w = Max({window, WidestWindow}) /\ w = IF window >= WidestWindow THEN window ELSE WidestWindow
  BY SearchSettings, WidestIs DEF Least
<1>3. PICK few \in Seq(Frames) : few = Upto(nearby, window)
  BY UptoIs
<1>4. Len(few) = p /\ (\A i \in 1..p : few[i] = nearby[i]) /\ (n <= window => few = nearby)
  BY <1>1, <1>2, <1>3, UptoIs
<1>5. PICK many \in Seq(Frames), q \in Nat :
         many = Upto(nearby, w) /\ q = Least(w, n)
  BY <1>1, <1>2, UptoIs DEF Least
<1>6. Len(many) = q /\ (\A i \in 1..q : many[i] = nearby[i]) /\ (n <= w => many = nearby)
  BY <1>1, <1>2, <1>5, UptoIs
<1>7. p <= q /\ window <= w /\ (p < window => n <= window)
  BY <1>2, <1>5, SearchSettings DEF Least
<1>8. CASE window >= WidestWindow
  BY <1>2, <1>8
<1>9. CASE p < window
  BY <1>2, <1>3, <1>4, <1>5, <1>6, <1>7, <1>9
<1>10. CASE Len(Upto(BestFrames(few), Hits)) >= Hits
  <2>1. p \in 0..Len(many) /\ \A i \in 1..p : few[i] = many[i]
    BY <1>4, <1>6, <1>7
  <2>2. PICK best \in Seq(Frames), more \in Seq(Frames) : best = BestFrames(few) /\ more = BestFrames(many)
    BY BestFramesAre
  <2>3. Begins(Frames, best, more)
    BY <1>4, <2>1, <2>2, BestBegin
  <2>4. Upto(more, Hits) = Upto(best, Hits)
    BY <1>10, <2>2, <2>3, UptoBegins, SearchSettings
  <2> QED BY <1>2, <1>3, <1>5, <2>2, <2>4
<1> QED BY <1>3, <1>4, <1>8, <1>9, <1>10 DEF Enough

-----------------------------------------------------------------------------
(* Fusion. *)
LEMMA RankedIs ==
    ASSUME NEW lists, NEW T, NEW above \in Seq(T), NEW a \in T
    PROVE  Ranked(lists, above, a) \in Seq(T)
<1>1. PICK n \in Nat : n = Len(above) /\ DOMAIN above = 1..n
  BY LenProperties
<1> DEFINE better == {i \in DOMAIN above : Score(lists, above[i]) >= Score(lists, a)}
<1>2. PICK k \in Nat : k = Cardinality(better) /\ k <= n
  <2>1. 1 \in Int /\ n \in Int /\ (1 > n => n = 0) /\ (n - 1) + 1 = n
    BY <1>1
  <2>2. IsFiniteSet(1..n) /\ Cardinality(1..n) = IF 1 > n THEN 0 ELSE (n - 1) + 1
    BY <2>1, FS_Interval
  <2>3. IsFiniteSet(1..n) /\ Cardinality(1..n) = n
    BY <2>1, <2>2
  <2>4. better \in SUBSET (1..n)
    BY <1>1
  <2> HIDE DEF better
  <2>5. IsFiniteSet(better) /\ Cardinality(better) <= Cardinality(1..n)
    BY <2>3, <2>4, FS_Subset
  <2> QED BY <2>3, <2>5, FS_CardinalityType
<1>3. Ranked(lists, above, a) = SubSeq(above, 1, k) \o << a >> \o SubSeq(above, k + 1, Len(above))
  <2>1. Ranked(lists, above, a) = InsertAt(above, k + 1, a)
    BY <1>2 DEF Ranked
  <2>2. (k + 1) - 1 = k
    OBVIOUS
  <2> QED BY <2>1, <2>2 DEF InsertAt
<1>4. SubSeq(above, 1, k) \in Seq(T)
  <2>1. \A i \in 1..k : above[i] \in T
    <3>1. \A i \in 1..k : i \in 1..n
      BY <1>2
    <3> QED BY <1>1, <3>1
  <2> QED BY <1>2, <2>1, SubSeqProperties
<1>5. SubSeq(above, k + 1, Len(above)) \in Seq(T)
  <2>1. \A i \in k + 1..n : above[i] \in T
    <3>1. \A i \in k + 1..n : i \in 1..n
      BY <1>2
    <3> QED BY <1>1, <3>1
  <2> QED BY <1>1, <1>2, <2>1, SubSeqProperties
<1>6. << a >> \in Seq(T)
  OBVIOUS
<1>7. PICK r \in Seq(T), s \in Seq(T), one \in Seq(T) :
         r = SubSeq(above, 1, k) /\ s = SubSeq(above, k + 1, Len(above)) /\ one = << a >>
  BY <1>4, <1>5, <1>6
<1>8. r \o one \in Seq(T)
  BY ConcatProperties
<1>9. (r \o one) \o s \in Seq(T)
  BY <1>8, ConcatProperties
<1> QED BY <1>3, <1>7, <1>9

Found(lists) == {a \in Clips : Reasons(lists, a) # {}}
LEMMA FusedAre ==
    ASSUME NEW lists
    PROVE  Fused(lists) \in Seq(Found(lists))
<1>1. PICK found \in Seq(Found(lists)) : found = Kept(Footage, Found(lists))
  <2>1. Kept(Footage, Found(lists)) \in Seq(Clips \cap Found(lists)) /\ Clips \cap Found(lists) = Found(lists)
    BY KeptAre, SearchSettings DEF Found
  <2> QED BY <2>1
<1> DEFINE n == Len(found)
           V == Seq(Found(lists))
           step == [p \in (1..n) \X V |-> Ranked(lists, p[2], found[p[1]])]
           Is(f) == f = [i \in 0..n |-> IF i = 0 THEN << >> ELSE Ranked(lists, f[i - 1], found[i])]
<1>2. n \in Nat /\ << >> \in V
  OBVIOUS
<1>3. step \in [(1..n) \X V -> V]
  <2>1. ASSUME NEW p \in (1..n) \X V PROVE Ranked(lists, p[2], found[p[1]]) \in V
    <3>1. p[1] \in 1..n /\ p[2] \in Seq(Found(lists)) /\ found[p[1]] \in Found(lists)
      OBVIOUS
    <3> QED BY <3>1, RankedIs
  <2> QED BY <2>1
<1>4. PICK f \in [0..n -> V] : f[0] = << >> /\ \A i \in 1..n : f[i] = step[<<i, f[i - 1]>>]
  <2> HIDE DEF n, V, step
  <2>1. Unfolding(n, V, << >>, step) # {}
    BY <1>2, <1>3, Unfolds
  <2> QED BY <2>1 DEF Unfolding
<1>5. \A i \in 1..n : f[i] = Ranked(lists, f[i - 1], found[i])
  <2> TAKE i \in 1..n
  <2>1. i - 1 \in 0..n
    BY <1>2
  <2>2. <<i, f[i - 1]>> \in (1..n) \X V
    BY <1>4, <2>1
  <2>3. step[<<i, f[i - 1]>>] = Ranked(lists, f[i - 1], found[i])
    BY <2>2
  <2> QED BY <1>4, <2>3
<1>6. Is(f)
  <2>1. \A i \in 0..n : f[i] = IF i = 0 THEN << >> ELSE Ranked(lists, f[i - 1], found[i])
    <3> TAKE i \in 0..n
    <3>1. i # 0 => i \in 1..n
      BY <1>2
    <3> QED BY <1>4, <1>5, <3>1
  <2>2. f = [i \in 0..n |-> f[i]]
    BY <1>4
  <2> QED BY <2>1, <2>2
<1> DEFINE g == CHOOSE h : Is(h)
<1>7. Is(g)
  BY <1>6
<1>8. Fused(lists) = g[n]
  BY <1>1 DEF Fused, Found, Clips
<1>9. g[n] \in V
  <2>0. ASSUME NEW h, Is(h)
        PROVE  \A i \in 0..n : h[i] = IF i = 0 THEN << >> ELSE Ranked(lists, h[i - 1], found[i])
    BY <2>0
  <2> HIDE DEF g, Is
  <2> DEFINE S == {i \in 0..n : g[i] = f[i]}
  <2>1. 0 \in S
    <3>1. 0 \in 0..n
      BY <1>2
    <3>2. g[0] = << >>
      BY <1>7, <2>0, <3>1
    <3> QED BY <1>4, <3>1, <3>2
  <2>2. \A i \in 0..n : i < n /\ i \in S => i + 1 \in S
    <3> SUFFICES ASSUME NEW i \in 0..n, i < n, g[i] = f[i] PROVE i + 1 \in 0..n /\ g[i + 1] = f[i + 1]
      OBVIOUS
    <3>1. i + 1 \in 0..n /\ i + 1 \in 1..n /\ i + 1 # 0 /\ (i + 1) - 1 = i
      BY <1>2
    <3>2. g[i + 1] = Ranked(lists, g[i], found[i + 1])
      BY <1>7, <2>0, <3>1
    <3>3. f[i + 1] = Ranked(lists, f[i], found[i + 1])
      BY <1>5, <3>1
    <3> QED BY <3>1, <3>2, <3>3
  <2> HIDE DEF S
  <2>3. \A i \in 0..n : i \in S
    BY <1>2, <2>1, <2>2, GoesOn
  <2> USE DEF S
  <2>4. n \in 0..n
    BY <1>2
  <2> QED BY <1>4, <2>3, <2>4
<1> QED BY <1>8, <1>9

-----------------------------------------------------------------------------
(* The steps of a search. *)

(* What has been said of the catalogue is of the same catalogue. *)
LEMMA NowStays ==
    ASSUME UNCHANGED <<online, indexed>>, NEW me, OfNow(me)
    PROVE  OfNow(me)'
<1>1. SaidOnline(TRUE)' = SaidOnline(TRUE) /\ Nearby(me.like)' = Nearby(me.like)
  BY DEF SaidOnline, Nearby
<1>2. \A a : NotWhole(a)' = NotWhole(a)
  BY <1>1 DEF NotWhole
<1>3. Nearest(me)' = Nearest(me)
  BY <1>1 DEF Nearest
<1>4. \A a : Moment(me, a)' = Moment(me, a)
  BY DEF Moment
<1> QED BY <1>1, <1>2, <1>3, <1>4 DEF OfNow

LEMMA OneMoves ==
    ASSUME LookingInv, NEW s \in Searches, NEW me \in Lookings,
           looking' = [looking EXCEPT ![s] = me], Sound(me), s \in Panels => me.at \notin {"tags", "fuse"},
           UNCHANGED <<online, indexed>>, searchBudget' \in 0..SearchIncidents
    PROVE  LookingInv'
<1>1. looking' \in [Searches -> Lookings]
  BY DEF LookingInv
<1>2. ASSUME NEW r \in Searches PROVE Sound(looking[r])'
  <2>1. looking'[r] = IF r = s THEN me ELSE looking[r]
    BY DEF LookingInv
  <2>2. PICK x : x = looking'[r]
    OBVIOUS
  <2>3. Sound(x)
    BY <2>1, <2>2 DEF LookingInv
  <2>4. ~x.changed => OfNow(x)'
    BY <2>3, NowStays DEF Sound
  <2>5. Sound(x)'
    BY <2>3, <2>4 DEF Sound
  <2> QED BY <2>2, <2>5
<1>3. \A r \in Panels : looking'[r].at \notin {"tags", "fuse"}
  BY DEF LookingInv, Searches
<1> QED BY <1>1, <1>2, <1>3 DEF LookingInv

LEMMA NothingIn == ToSet(<< >>) = {} /\ Len(<< >>) = 0
<1>0. << >> \in Seq(Clips)
  OBVIOUS
<1>1. PICK list \in Seq(Clips) : list = << >>
  BY <1>0
<1>2. Len(list) = 0 /\ DOMAIN list = 1..Len(list)
  BY <1>1, LenProperties
<1> QED BY <1>1, <1>2 DEF ToSet

LEMMA Limits == Hits \in Nat /\ Hits > 0 /\ NeighbourFrames \in Nat /\ WidestWindow \in Nat
  BY SearchAssumption DEF SearchAssumption

LEMMA WindowFits == 0 \in Widths /\ Hits * NeighbourFrames \in Widths /\ WidestWindow \in Widths
<1>1. PICK p \in Nat : p = Hits * NeighbourFrames
  BY SearchSettings
<1>2. Widths = 0..(WidestWindow + p)
  BY <1>1 DEF Widths
<1>3. 0 \in 0..(WidestWindow + p) /\ p \in 0..(WidestWindow + p) /\ WidestWindow \in 0..(WidestWindow + p)
  BY Limits
<1> QED BY <1>1, <1>2, <1>3

LEMMA AtStart ==
    /\ NotLooking \in Lookings
    /\ \A a : Moment(NotLooking, a) # "any word"
<1>1. NotLooking \in Lookings
  <2>1. 0 \in Widths
    BY WindowFits
  <2> QED BY <2>1 DEF NotLooking, Lookings, Stages
<1>2. \A a : Moment(NotLooking, a) # "any word"
  <2>1. NotLooking.said = << >> /\ << >> \in Seq(Passages)
    BY DEF NotLooking
  <2> SUFFICES ASSUME NEW a, Moment(NotLooking, a) = "any word" PROVE FALSE
    OBVIOUS
  <2>2. PICK g : g \in ToSet(NotLooking.said)
    BY <2>1, MomentOf
  <2> QED BY <2>1, <2>2, NothingIn
<1> QED BY <1>1, <1>2

(* A search that has just begun. *)
LEMMA JustBegun ==
    ASSUME NEW me \in Lookings, me.said = << >>, me.names = << >>, me.frames = << >>, me.tags = << >>,
           me.results = << >>, me.at \in {"idle", "words", "names", "frames"}
    PROVE  Sound(me)
<1>1. \A a : Moment(me, a) # "any word"
  <2>1. me.said \in Seq(Passages)
    BY DEF Lookings
  <2> SUFFICES ASSUME NEW a, Moment(me, a) = "any word" PROVE FALSE
    OBVIOUS
  <2>2. PICK g : g \in ToSet(me.said)
    BY <2>1, MomentOf
  <2> QED BY <2>2, NothingIn
<1>2. ToSet(<< >>) = {} /\ Len(<< >>) = 0
  BY NothingIn
<1>3. OfNow(me)
  BY <1>1, <1>2 DEF OfNow
<1>4. Hits \in Nat /\ Hits > 0 /\ 0 <= Hits
  BY SearchSettings
<1>5. Len(me.results) <= Hits /\ Len(me.said) <= Hits
  BY <1>2, <1>4
<1> QED BY <1>3, <1>5 DEF Sound

LEMMA BeginKeeps ==
    ASSUME LookingInv, NEW s \in Searches, Begin(s)
    PROVE  LookingInv'
<1>1. PICK at \in {"names", "words"} : at = IF s \in Panels THEN "names" ELSE "words"
  OBVIOUS
<1>2. PICK me \in Lookings : me = [NotLooking EXCEPT !.at = at]
  BY AtStart DEF NotLooking, Lookings, Stages
<1>3. looking' = [looking EXCEPT ![s] = me] /\ UNCHANGED <<online, indexed>>
  BY <1>1, <1>2 DEF Begin, Onward
<1>4. searchBudget' \in 0..SearchIncidents
  BY SearchSettings DEF Begin, SearchIncident, LookingInv
<1>5. Sound(me)
  <2>1. /\ me.said = << >> /\ me.names = << >> /\ me.frames = << >> /\ me.tags = << >> /\ me.results = << >>
        /\ me.at = at
    BY <1>2 DEF NotLooking
  <2> QED BY <2>1, JustBegun
<1>6. me.at \notin {"tags", "fuse"}
  BY <1>2 DEF NotLooking
<1> QED BY <1>3, <1>4, <1>5, <1>6, OneMoves

LEMMA BeginAlikeKeeps ==
    ASSUME LookingInv, NEW s \in Pages, NEW a \in Clips, BeginAlike(s, a)
    PROVE  LookingInv'
<1>1. Hits * NeighbourFrames \in Widths
  BY WindowFits
<1>2. PICK me \in Lookings :
        me = [[NotLooking EXCEPT !.like = a, !.window = Hits * NeighbourFrames] EXCEPT !.at = "frames"]
  <2>1. [NotLooking EXCEPT !.like = a, !.window = Hits * NeighbourFrames] \in Lookings
    BY <1>1, AtStart DEF NotLooking, Lookings
  <2> QED BY <2>1 DEF Lookings, Stages
<1>3. looking' = [looking EXCEPT ![s] = me] /\ UNCHANGED <<online, indexed>> /\ s \in Searches
  BY <1>2 DEF BeginAlike, Onward, Searches
<1>4. searchBudget' \in 0..SearchIncidents
  BY SearchSettings DEF BeginAlike, SearchIncident, LookingInv
<1>5. Sound(me)
  <2>1. /\ me.said = << >> /\ me.names = << >> /\ me.frames = << >> /\ me.tags = << >> /\ me.results = << >>
        /\ me.at = "frames"
    BY <1>2 DEF NotLooking
  <2> QED BY <2>1, JustBegun
<1>6. me.at \notin {"tags", "fuse"}
  BY <1>2 DEF NotLooking
<1> QED BY <1>3, <1>4, <1>5, <1>6, OneMoves

(* The catalogue goes on: whoever is looking knows. *)
LEMMA ChangesKeep ==
    ASSUME LookingInv, online' \subseteq Clips, indexed' \subseteq ToSet(NearestFrames), SearchIncident,
           looking' = [s \in Searches |-> [looking[s] EXCEPT !.changed = looking[s] # NotLooking]]
    PROVE  LookingInv'
<1>1. searchBudget' \in 0..SearchIncidents
  BY SearchSettings DEF SearchIncident, LookingInv
<1>2. ASSUME NEW s \in Searches PROVE looking'[s] \in Lookings /\ Sound(looking[s])'
  <2>1. PICK me \in Lookings : me = looking[s] /\ Sound(me)
    BY DEF LookingInv
  <2>2. PICK new \in Lookings : new = looking'[s] /\ new = [me EXCEPT !.changed = me # NotLooking]
    <3>1. (me # NotLooking) \in BOOLEAN
      OBVIOUS
    <3>2. [me EXCEPT !.changed = me # NotLooking] \in Lookings
      BY <3>1 DEF Lookings
    <3> QED BY <2>1, <3>2
  <2>3. CASE me = NotLooking
    <3>1. new = NotLooking
      BY <2>2, <2>3 DEF NotLooking
    <3>2. \A x \in Lookings : x = NotLooking => Sound(x)'
      <4> SUFFICES ASSUME NEW x \in Lookings, x = NotLooking PROVE Sound(x)'
        OBVIOUS
      <4>1. \A a : Moment(x, a)' # "any word"
        BY AtStart DEF Moment
      <4>2. ToSet(<< >>) = {} /\ Len(<< >>) = 0
        BY DEF ToSet
      <4>3. OfNow(x)'
        BY <4>1, <4>2 DEF OfNow, NotLooking
      <4> QED BY <4>2, <4>3, SearchSettings DEF Sound, NotLooking
    <3> QED BY <2>2, <3>1, <3>2
  <2>4. CASE me # NotLooking
    <3>1. /\ new.changed /\ new.at = me.at /\ new.results = me.results /\ new.said = me.said
      BY <2>2, <2>4 DEF Lookings
    <3>2. Sound(new)'
      BY <2>1, <3>1 DEF Sound
    <3> QED BY <2>2, <3>2
  <2> QED BY <2>3, <2>4
<1>3. looking' \in [Searches -> Lookings]
  BY <1>2
<1>4. \A s \in Panels : looking'[s].at \notin {"tags", "fuse"}
  <2> SUFFICES ASSUME NEW s \in Panels PROVE looking'[s].at \notin {"tags", "fuse"}
    OBVIOUS
  <2>1. looking[s] \in Lookings /\ looking[s].at \notin {"tags", "fuse"} /\ s \in Searches
    BY DEF LookingInv, Searches
  <2>2. looking'[s].at = looking[s].at
    BY <2>1 DEF Lookings
  <2> QED BY <2>1, <2>2
<1> QED BY <1>1, <1>2, <1>3, <1>4 DEF LookingInv

LEMMA EveryWordKeeps ==
    ASSUME LookingInv, NEW s \in Searches, EveryWord(s)
    PROVE  LookingInv'
<1>1. PICK old \in Lookings : old = looking[s] /\ Sound(old)
  BY DEF LookingInv
<1>2. PICK whole \in Seq(Passages) :
        /\ whole = SaidOnline(TRUE) /\ \A g \in ToSet(whole) : g.whole = TRUE /\ g.asset \in online
  BY SaidOnlineIs
<1>3. PICK rows \in Seq(Passages) :
        /\ rows = Upto(whole, Hits) /\ Len(rows) <= Hits /\ ToSet(rows) \subseteq ToSet(whole)
  <2>1. PICK n \in Nat : n = Len(whole)
    BY LenProperties
  <2>2. Least(Hits, n) <= Hits
    BY <2>1, Limits DEF Least
  <2>3. /\ Upto(whole, Hits) \in Seq(Passages) /\ Len(Upto(whole, Hits)) = Least(Hits, Len(whole))
        /\ ToSet(Upto(whole, Hits)) \subseteq ToSet(whole)
    BY Limits, UptoIs
  <2> QED BY <2>1, <2>2, <2>3
<1>4. PICK at \in {"any word", "names"} : at = IF Len(rows) < Hits THEN "any word" ELSE "names"
  OBVIOUS
<1>5. PICK me \in Lookings : me = [[old EXCEPT !.said = rows] EXCEPT !.at = at]
  <2>1. [old EXCEPT !.said = rows] \in Lookings
    BY DEF Lookings
  <2> QED BY <2>1 DEF Lookings, Stages
<1>6. /\ me.said = rows /\ me.at = at /\ me.like = old.like /\ me.names = old.names /\ me.frames = old.frames
      /\ me.tags = old.tags /\ me.results = old.results /\ me.changed = old.changed /\ me.window = old.window
  BY <1>5 DEF Lookings
<1>7. /\ looking' = [looking EXCEPT ![s] = me] /\ UNCHANGED <<online, indexed>>
      /\ searchBudget' \in 0..SearchIncidents /\ old.at = "words"
  BY <1>1, <1>2, <1>3, <1>4, <1>5 DEF EveryWord, Onward, Still, LookingInv
<1>8. ~me.changed => OfNow(me)
  <2> SUFFICES ASSUME ~me.changed PROVE OfNow(me)
    OBVIOUS
  <2>1. OfNow(old)
    BY <1>1, <1>6 DEF Sound
  <2>2. \A a \in Clips : Moment(me, a) # "any word"
    BY <1>2, <1>3, <1>6, WholeFirst
  <2>3. old.frames = << >>
    BY <1>7, <2>1 DEF OfNow
  <2>4. \A g \in ToSet(me.said) : g.asset \in online
    BY <1>2, <1>3, <1>6
  <2> QED BY <1>2, <1>3, <1>4, <1>6, <1>7, <2>1, <2>2, <2>3, <2>4 DEF OfNow
<1>9. Sound(me)
  BY <1>1, <1>3, <1>4, <1>6, <1>7, <1>8 DEF Sound
<1>10. me.at \notin {"tags", "fuse"}
  BY <1>4, <1>6
<1> QED BY <1>7, <1>9, <1>10, OneMoves

LEMMA AnyWordKeeps ==
    ASSUME LookingInv, NEW s \in Searches, AnyWord(s)
    PROVE  LookingInv'
<1>1. PICK old \in Lookings : old = looking[s] /\ Sound(old)
  BY DEF LookingInv
<1> DEFINE new == {g \in ToSet(Segments) : \A r \in ToSet(old.said) : g.id # r.id}
<1>2. PICK some \in Seq(Passages) : some = SaidOnline(FALSE) /\ \A g \in ToSet(some) : g.asset \in online
  BY SaidOnlineIs
<1>3. PICK more \in Seq(Passages) : more = Kept(some, new) /\ ToSet(more) \subseteq ToSet(some)
  <2> HIDE DEF new
  <2> QED BY KeptAre
<1>4. looking[s].at = "any word" /\ Still /\ Onward(s, "names", [old EXCEPT !.said = FillUp(old.said, more)])
  BY <1>1, <1>2, <1>3 DEF AnyWord
<1>5. PICK k \in Nat : k = Hits - Len(old.said) /\ old.said \in Seq(Passages) /\ Len(old.said) + k = Hits
  <2>1. PICK n \in Nat : n = Len(old.said) /\ old.said \in Seq(Passages)
    BY LenProperties DEF Lookings
  <2>2. n < Hits
    BY <1>1, <1>4, <2>1 DEF Sound
  <2>3. Hits - n \in Nat /\ n + (Hits - n) = Hits
    BY <2>2, Limits
  <2> QED BY <2>1, <2>3
<1>6. PICK fill \in Seq(Passages) : /\ fill = Upto(more, k) /\ ToSet(fill) \subseteq ToSet(more)
                                    /\ Len(fill) <= k
  <2>1. PICK n \in Nat : n = Len(more)
    BY LenProperties
  <2>2. Least(k, n) <= k
    BY DEF Least
  <2> QED BY <2>1, <2>2, UptoIs
<1>7. PICK rows \in Seq(Passages) :
        /\ rows = FillUp(old.said, more) /\ rows = old.said \o fill /\ ToSet(rows) = ToSet(old.said) \cup ToSet(fill)
        /\ Len(rows) <= Hits
  <2>1. old.said \o fill \in Seq(Passages) /\ ToSet(old.said \o fill) = ToSet(old.said) \cup ToSet(fill)
    BY <1>5, Joined
  <2>2. FillUp(old.said, more) = old.said \o fill
    BY <1>5, <1>6 DEF FillUp
  <2>3. Len(old.said \o fill) = Len(old.said) + Len(fill)
    BY <1>5, ConcatProperties
  <2>4. PICK m \in Nat, n \in Nat : m = Len(old.said) /\ n = Len(fill)
    BY <1>5, LenProperties
  <2>5. m + k = Hits /\ n <= k
    BY <1>5, <1>6, <2>4
  <2>6. Len(old.said \o fill) <= Hits
    BY <2>3, <2>4, <2>5
  <2> QED BY <2>1, <2>2, <2>6
<1>8. PICK me \in Lookings : me = [[old EXCEPT !.said = rows] EXCEPT !.at = "names"]
  <2>1. [old EXCEPT !.said = rows] \in Lookings
    BY DEF Lookings
  <2> QED BY <2>1 DEF Lookings, Stages
<1>9. /\ me.said = rows /\ me.at = "names" /\ me.like = old.like /\ me.names = old.names /\ me.frames = old.frames
      /\ me.tags = old.tags /\ me.results = old.results /\ me.changed = old.changed /\ me.window = old.window
  BY <1>8 DEF Lookings
<1>10. /\ looking' = [looking EXCEPT ![s] = me] /\ UNCHANGED <<online, indexed>>
       /\ searchBudget' \in 0..SearchIncidents /\ old.at = "any word"
  BY <1>1, <1>4, <1>7, <1>8 DEF Onward, Still, LookingInv
<1>11. ~me.changed => OfNow(me)
  <2> SUFFICES ASSUME ~me.changed PROVE OfNow(me)
    OBVIOUS
  <2>1. OfNow(old)
    BY <1>1, <1>9 DEF Sound
  <2>2. old.said = Upto(SaidOnline(TRUE), Hits) /\ Len(old.said) < Hits
    BY <1>1, <1>10, <2>1 DEF OfNow, Sound
  <2>3. Len(SaidOnline(TRUE)) <= Hits
    <3>1. PICK whole \in Seq(Passages) : whole = SaidOnline(TRUE)
      BY SaidOnlineIs
    <3>2. PICK n \in Nat : n = Len(whole)
      BY LenProperties
    <3>3. Len(Upto(whole, Hits)) = Least(Hits, n)
      BY <3>2, UptoIs, Limits
    <3>4. Least(Hits, n) < Hits
      BY <2>2, <3>1, <3>3
    <3>5. n <= Hits
      BY <3>2, <3>4, Limits DEF Least
    <3> QED BY <3>1, <3>2, <3>5
  <2>4. \A a \in Clips : Moment(me, a) = "any word" => NotWhole(a)
    BY <1>7, <1>9, <2>2, <2>3, FilledUp
  <2>5. \A g \in ToSet(me.said) : g.asset \in online
    BY <1>2, <1>3, <1>6, <1>7, <1>9, <2>1 DEF OfNow
  <2>6. old.frames = << >>
    BY <1>10, <2>1 DEF OfNow
  <2> QED BY <1>9, <2>1, <2>4, <2>5, <2>6 DEF OfNow
<1>12. Sound(me)
  BY <1>1, <1>7, <1>9, <1>10, <1>11 DEF Sound
<1>13. me.at \notin {"tags", "fuse"}
  BY <1>9
<1> QED BY <1>10, <1>12, <1>13, OneMoves

LEMMA NamesKeep ==
    ASSUME LookingInv, NEW s \in Searches, Names(s)
    PROVE  LookingInv'
<1>1. PICK old \in Lookings : old = looking[s] /\ Sound(old)
  BY DEF LookingInv
<1>2. PICK byName \in Seq(Clips) : byName = Upto(Kept(Named, online), Hits) /\ ToSet(byName) \subseteq online
  <2>0. Named \in Seq(Clips)
    BY SearchSettings
  <2>1. PICK some \in Seq(Clips) : some = Kept(Named, online) /\ ToSet(some) \subseteq online
    <3>1. Kept(Named, online) \in Seq(Clips) /\ ToSet(Kept(Named, online)) = ToSet(Named) \cap online
      BY <2>0, KeptAre
    <3> QED BY <3>1
  <2>2. Upto(some, Hits) \in Seq(Clips) /\ ToSet(Upto(some, Hits)) \subseteq ToSet(some)
    BY UptoIs, SearchSettings
  <2> QED BY <2>1, <2>2
<1>3. PICK at \in {"load", "frames"} : at = IF s \in Panels /\ Len(byName) = Hits THEN "load" ELSE "frames"
  OBVIOUS
<1>4. PICK w \in Widths : w = Hits * NeighbourFrames
  BY WindowFits
<1>5. PICK me \in Lookings : me = [[old EXCEPT !.names = byName, !.window = w] EXCEPT !.at = at]
  <2>1. [old EXCEPT !.names = byName, !.window = w] \in Lookings
    BY DEF Lookings
  <2> QED BY <2>1 DEF Lookings, Stages
<1>6. /\ me.said = old.said /\ me.at = at /\ me.like = old.like /\ me.names = byName /\ me.frames = old.frames
      /\ me.tags = old.tags /\ me.results = old.results /\ me.changed = old.changed
  BY <1>5 DEF Lookings
<1>7. /\ looking' = [looking EXCEPT ![s] = me] /\ UNCHANGED <<online, indexed>>
      /\ searchBudget' \in 0..SearchIncidents /\ old.at = "names"
  BY <1>1, <1>2, <1>3, <1>4, <1>5 DEF Names, Onward, Still, LookingInv
<1>8. \A a : Moment(me, a) = Moment(old, a)
  BY <1>6 DEF Moment
<1>9. Sound(me)
  BY <1>1, <1>2, <1>3, <1>6, <1>7, <1>8 DEF Sound, OfNow
<1>10. me.at \notin {"tags", "fuse"}
  BY <1>3, <1>6
<1> QED BY <1>7, <1>9, <1>10, OneMoves

LEMMA TagsKeep ==
    ASSUME LookingInv, NEW s \in Searches, Tags(s)
    PROVE  LookingInv'
<1>1. PICK old \in Lookings : old = looking[s] /\ Sound(old)
  BY DEF LookingInv
<1> DEFINE carrying(v) == Kept(Tagged, {a \in online : verdict[a] = v})
           Kinds == {"tag", "suggested_tag"}
<1>2. ASSUME NEW v \in Kinds
      PROVE  LET some == [i \in DOMAIN carrying(v) |-> <<carrying(v)[i], v>>]
             IN  some \in Seq(Clips \X Kinds) /\ \A t \in ToSet(some) : t[1] \in online
  <2> DEFINE own == {a \in online : verdict[a] = v}
  <2>1. PICK list \in Seq(Clips) : list = Kept(Tagged, own) /\ ToSet(list) \subseteq own
    <3> HIDE DEF own
    <3>1. Tagged \in Seq(Clips)
      BY SearchSettings
    <3>2. Kept(Tagged, own) \in Seq(Clips) /\ ToSet(Kept(Tagged, own)) = ToSet(Tagged) \cap own
      BY <3>1, KeptAre
    <3> QED BY <3>2
  <2>2. PICK n \in Nat : n = Len(list) /\ DOMAIN list = 1..n
    BY LenProperties
  <2>3. \A i \in 1..n : list[i] \in Clips /\ list[i] \in online
    <3>1. \A i \in 1..n : list[i] \in ToSet(list)
      BY <2>2 DEF ToSet
    <3> QED BY <2>1, <2>2, <3>1
  <2> DEFINE some == [i \in 1..n |-> <<list[i], v>>]
  <2>4. some \in Seq(Clips \X Kinds) /\ DOMAIN some = 1..n
    BY <2>3
  <2>5. \A t \in ToSet(some) : t[1] \in online
    BY <2>3, <2>4 DEF ToSet
  <2> QED BY <2>1, <2>2, <2>4, <2>5
<1>3. PICK r \in Seq(Clips \X Kinds), t \in Seq(Clips \X Kinds) :
         /\ r = [i \in DOMAIN carrying("tag") |-> <<carrying("tag")[i], "tag">>]
         /\ t = [i \in DOMAIN carrying("suggested_tag") |-> <<carrying("suggested_tag")[i], "suggested_tag">>]
         /\ \A x \in ToSet(r) \cup ToSet(t) : x[1] \in online
  <2> HIDE DEF carrying
  <2> QED BY <1>2
<1>4. PICK tags \in Seq(Clips \X Kinds) : tags = Upto(r \o t, Hits) /\ \A x \in ToSet(tags) : x[1] \in online
  <2>1. PICK both \in Seq(Clips \X Kinds) : both = r \o t /\ ToSet(both) = ToSet(r) \cup ToSet(t)
    BY Joined
  <2>2. Upto(both, Hits) \in Seq(Clips \X Kinds) /\ ToSet(Upto(both, Hits)) \subseteq ToSet(both)
    BY UptoIs, SearchSettings
  <2> QED BY <1>3, <2>1, <2>2
<1>5. PICK me \in Lookings : me = [[old EXCEPT !.tags = tags] EXCEPT !.at = "fuse"]
  <2>1. [old EXCEPT !.tags = tags] \in Lookings
    BY DEF Lookings
  <2> QED BY <2>1 DEF Lookings, Stages
<1>6. /\ me.said = old.said /\ me.at = "fuse" /\ me.like = old.like /\ me.names = old.names
      /\ me.frames = old.frames /\ me.tags = tags /\ me.results = old.results /\ me.changed = old.changed
      /\ me.window = old.window
  BY <1>5 DEF Lookings
<1>7. /\ looking' = [looking EXCEPT ![s] = me] /\ UNCHANGED <<online, indexed>>
      /\ searchBudget' \in 0..SearchIncidents /\ old.at = "tags"
  BY <1>1, <1>3, <1>4, <1>5 DEF Tags, Onward, Still, LookingInv
<1>8. (\A a : Moment(me, a) = Moment(old, a)) /\ Nearest(me) = Nearest(old)
  BY <1>6 DEF Moment, Nearest
<1>9. Sound(me)
  BY <1>1, <1>4, <1>6, <1>7, <1>8 DEF Sound, OfNow
<1>10. s \notin Panels
  BY <1>1, <1>7 DEF LookingInv
<1> QED BY <1>7, <1>9, <1>10, OneMoves

LEMMA NearbyAre ==
    ASSUME NEW like
    PROVE  /\ Nearby(like) \in Seq(Frames)
           /\ like = "none" => \A f \in ToSet(Nearby(like)) : f[1] \in online
<1> DEFINE near == {f \in indexed : IF like = "none" THEN f[1] \in online ELSE f[1] # like}
<1>1. NearestFrames \in Seq(Frames)
  BY SearchSettings DEF Frames
<1>2. Kept(NearestFrames, near) \in Seq(Frames) /\ ToSet(Kept(NearestFrames, near)) = ToSet(NearestFrames) \cap near
  <2> HIDE DEF near
  <2> QED BY <1>1, KeptAre
<1> QED BY <1>2 DEF Nearby

LEMMA WidenKeeps ==
    ASSUME LookingInv, NEW s \in Searches, Widen(s)
    PROVE  LookingInv'
<1>1. PICK old \in Lookings : old = looking[s] /\ Sound(old)
  BY DEF LookingInv
<1>2. PICK window \in Nat : window = old.window /\ window \in Widths
  <2>1. PICK p \in Nat : p = Hits * NeighbourFrames
    BY SearchSettings
  <2>2. Widths = 0..(WidestWindow + p) /\ old.window \in Widths
    BY <2>1 DEF Widths, Lookings
  <2>3. old.window \in 0..(WidestWindow + p)
    BY <2>2
  <2>4. old.window \in Nat
    BY <2>3, Limits
  <2> QED BY <2>2, <2>4
<1>3. PICK nearby \in Seq(Frames) :
        /\ nearby = Nearby(old.like)
        /\ old.like = "none" => \A f \in ToSet(nearby) : f[1] \in online
  BY NearbyAre
<1>4. PICK frames \in Seq(Frames) : frames = Upto(nearby, window) /\ ToSet(frames) \subseteq ToSet(nearby)
  <2>1. Upto(nearby, window) \in Seq(Frames) /\ ToSet(Upto(nearby, window)) \subseteq ToSet(nearby)
    BY UptoIs
  <2> QED BY <2>1
<1>5. PICK best \in Seq(Frames) : best = BestFrames(frames) /\ ToSet(best) \subseteq ToSet(frames)
  BY BestFramesAre
<1>6. PICK found \in Seq(Frames) : found = Upto(best, Hits) /\ ToSet(found) \subseteq ToSet(best)
  <2>1. Upto(best, Hits) \in Seq(Frames) /\ ToSet(Upto(best, Hits)) \subseteq ToSet(best)
    BY UptoIs, Limits
  <2> QED BY <2>1
<1>7. PICK at \in {"load", "tags", "idle"} :
        at = IF s \in Panels THEN "load" ELSE IF old.like = "none" THEN "tags" ELSE "idle"
  OBVIOUS
<1>8. PICK w : w = Least(4 * window, WidestWindow)
  OBVIOUS
<1>9. /\ old.at = "frames" /\ UNCHANGED <<online, indexed>> /\ searchBudget' \in 0..SearchIncidents
      /\ looking' = [looking EXCEPT ![s] = IF Enough(found, Len(frames), window)
                                           THEN [[old EXCEPT !.frames = found] EXCEPT !.at = at]
                                           ELSE [[old EXCEPT !.window = w] EXCEPT !.at = "frames"]]
  BY <1>1, <1>2, <1>3, <1>4, <1>5, <1>6, <1>7, <1>8 DEF Widen, Onward, Still, LookingInv
<1>10. CASE Enough(found, Len(frames), window)
  <2>1. PICK me \in Lookings : me = [[old EXCEPT !.frames = found] EXCEPT !.at = at]
    <3>1. [old EXCEPT !.frames = found] \in Lookings
      BY DEF Lookings, Frames
    <3> QED BY <3>1 DEF Lookings, Stages
  <2>2. /\ me.said = old.said /\ me.at = at /\ me.like = old.like /\ me.names = old.names /\ me.frames = found
        /\ me.tags = old.tags /\ me.results = old.results /\ me.changed = old.changed /\ me.window = window
    BY <1>2, <2>1 DEF Lookings
  <2>3. looking' = [looking EXCEPT ![s] = me]
    BY <1>9, <1>10, <2>1
  <2>4. found = Nearest(me)
    <3>1. Upto(BestFrames(Upto(nearby, window)), Hits) =
          Upto(BestFrames(Upto(nearby, Max({window, WidestWindow}))), Hits)
      BY <1>4, <1>5, <1>6, <1>10, EnoughIsAll
    <3> QED BY <1>3, <1>4, <1>5, <1>6, <2>2, <3>1 DEF Nearest
  <2>5. me.like = "none" => \A f \in ToSet(me.frames) : f[1] \in online
    BY <1>3, <1>4, <1>5, <1>6, <2>2
  <2>6. \A a : Moment(me, a) = Moment(old, a)
    BY <2>2 DEF Moment
  <2>7. me.at = "tags" => me.like = "none"
    BY <1>7, <2>2
  <2>8. ~me.changed => OfNow(me)
    <3> SUFFICES ASSUME ~me.changed PROVE OfNow(me)
      OBVIOUS
    <3>1. OfNow(old)
      BY <1>1, <2>2 DEF Sound
    <3>2. me.results = << >>
      BY <1>1, <1>9, <2>2 DEF Sound
    <3> QED BY <2>2, <2>4, <2>5, <2>6, <2>7, <3>1, <3>2, NothingIn DEF OfNow
  <2>9. Sound(me)
    BY <1>1, <1>9, <2>2, <2>8 DEF Sound
  <2>10. s \in Panels => me.at \notin {"tags", "fuse"}
    BY <1>7, <2>2
  <2> QED BY <1>9, <2>3, <2>9, <2>10, OneMoves
<1>11. CASE ~Enough(found, Len(frames), window)
  <2>1. w \in Widths
    <3>1. window < WidestWindow
      BY <1>11, Limits DEF Enough
    <3>2. w \in 0..WidestWindow
      BY <1>8, <3>1, Limits DEF Least
    <3>3. PICK p \in Nat : p = Hits * NeighbourFrames
      BY SearchSettings
    <3>4. Widths = 0..(WidestWindow + p)
      BY <3>3 DEF Widths
    <3>5. w \in 0..(WidestWindow + p)
      BY <3>2, Limits
    <3> QED BY <3>4, <3>5
  <2>2. PICK me \in Lookings : me = [[old EXCEPT !.window = w] EXCEPT !.at = "frames"]
    <3>1. [old EXCEPT !.window = w] \in Lookings
      BY <2>1 DEF Lookings
    <3> QED BY <3>1 DEF Lookings, Stages
  <2>3. /\ me.said = old.said /\ me.at = "frames" /\ me.like = old.like /\ me.names = old.names
        /\ me.frames = old.frames /\ me.tags = old.tags /\ me.results = old.results /\ me.changed = old.changed
    BY <2>2 DEF Lookings
  <2>4. looking' = [looking EXCEPT ![s] = me]
    BY <1>9, <1>11, <2>2
  <2>5. \A a : Moment(me, a) = Moment(old, a)
    BY <2>3 DEF Moment
  <2>6. ~me.changed => OfNow(me)
    BY <1>1, <1>9, <2>3, <2>5 DEF Sound, OfNow
  <2>7. Sound(me)
    BY <1>1, <1>9, <2>3, <2>6 DEF Sound
  <2>8. me.at \notin {"tags", "fuse"}
    BY <2>3
  <2> QED BY <1>9, <2>4, <2>7, <2>8, OneMoves
<1> QED BY <1>10, <1>11

(* The clips of a list of pairs, or of passages. *)
LEMMA ClipsOf ==
    ASSUME NEW V, NEW list \in Seq(Clips \X V)
    PROVE  LET clips == [i \in DOMAIN list |-> list[i][1]]
           IN  clips \in Seq(Clips) /\ ToSet(clips) = {x[1] : x \in ToSet(list)}
<1>1. PICK n \in Nat : n = Len(list) /\ DOMAIN list = 1..n
  BY LenProperties
<1>2. \A i \in 1..n : list[i][1] \in Clips
  <2>1. \A i \in 1..n : list[i] \in Clips \X V
    BY <1>1
  <2> QED BY <2>1
<1> DEFINE clips == [i \in 1..n |-> list[i][1]]
<1>3. clips \in Seq(Clips) /\ DOMAIN clips = 1..n
  BY <1>2
<1>4. ToSet(clips) = {x[1] : x \in ToSet(list)}
  BY <1>1, <1>3 DEF ToSet
<1> QED BY <1>1, <1>3, <1>4

LEMMA ClipsSaid ==
    ASSUME NEW list \in Seq(Passages)
    PROVE  LET clips == [i \in DOMAIN list |-> list[i].asset]
           IN  clips \in Seq(Clips) /\ ToSet(clips) = {x.asset : x \in ToSet(list)}
<1>1. PICK n \in Nat : n = Len(list) /\ DOMAIN list = 1..n
  BY LenProperties
<1>2. \A i \in 1..n : list[i].asset \in Clips
  <2>1. \A i \in 1..n : list[i] \in Passages
    BY <1>1
  <2> QED BY <2>1 DEF Passages
<1> DEFINE clips == [i \in 1..n |-> list[i].asset]
<1>3. clips \in Seq(Clips) /\ DOMAIN clips = 1..n
  BY <1>2
<1>4. ToSet(clips) = {x.asset : x \in ToSet(list)}
  BY <1>1, <1>3 DEF ToSet
<1> QED BY <1>1, <1>3, <1>4

LEMMA OnceAre ==
    ASSUME NEW T, NEW list \in Seq(T)
    PROVE  Once(list) \in Seq(T) /\ ToSet(Once(list)) \subseteq ToSet(list)
<1> DEFINE firsts == {i \in DOMAIN list : \A j \in 1..(i - 1) : list[j] # list[i]}
<1>1. /\ Those(list, firsts) \in Seq(T)
      /\ ToSet(Those(list, firsts)) = {list[i] : i \in firsts \cap (1..Len(list))}
  <2> HIDE DEF firsts
  <2> QED BY ThoseAre
<1>2. Once(list) = Those(list, firsts)
  BY DEF Once
<1>3. ToSet(list) = {list[i] : i \in 1..Len(list)}
  BY ItemsOf
<1> QED BY <1>1, <1>2, <1>3

(* Both that end a search keep what it found. *)
LEMMA SearchAnswered ==
    ASSUME LookingInv, NEW s \in Searches, looking[s].at \in {"fuse", "load"}, NEW results \in Seq(Hit),
           Len(results) <= Hits, Still, Onward(s, "idle", [looking[s] EXCEPT !.results = results]),
           ~looking[s].changed => \A r \in ToSet(results) : r.moment = "any word" => NotWhole(r.asset)
    PROVE  LookingInv' /\ looking'[s].results = results
<1>1. PICK old \in Lookings : old = looking[s] /\ Sound(old)
  BY DEF LookingInv
<1>2. PICK me \in Lookings : me = [[old EXCEPT !.results = results] EXCEPT !.at = "idle"]
  <2>1. [old EXCEPT !.results = results] \in Lookings
    BY DEF Lookings
  <2> QED BY <2>1 DEF Lookings, Stages
<1>3. /\ me.said = old.said /\ me.at = "idle" /\ me.like = old.like /\ me.names = old.names
      /\ me.frames = old.frames /\ me.tags = old.tags /\ me.results = results /\ me.changed = old.changed
      /\ me.window = old.window
  BY <1>2 DEF Lookings
<1>4. /\ looking' = [looking EXCEPT ![s] = me] /\ UNCHANGED <<online, indexed>>
      /\ searchBudget' \in 0..SearchIncidents
  BY <1>1, <1>2 DEF Onward, Still, LookingInv
<1>5. (\A a : Moment(me, a) = Moment(old, a)) /\ Nearest(me) = Nearest(old)
  BY <1>3 DEF Moment, Nearest
<1>6. ~me.changed => OfNow(me)
  BY <1>1, <1>3, <1>5 DEF Sound, OfNow
<1>7. Sound(me)
  BY <1>1, <1>3, <1>6 DEF Sound
<1>8. looking'[s] = me
  BY <1>4 DEF LookingInv
<1>9. me.at \notin {"tags", "fuse"}
  BY <1>3
<1> QED BY <1>3, <1>4, <1>7, <1>8, <1>9, OneMoves

LEMMA LoadKeeps ==
    ASSUME LookingInv, NEW s \in Searches, Load(s)
    PROVE  LookingInv' /\ {r.asset : r \in ToSet(looking'[s].results)} \subseteq online
<1>1. PICK old \in Lookings : old = looking[s]
  BY DEF LookingInv
<1> DEFINE seen == [i \in DOMAIN old.frames |-> old.frames[i][1]]
<1>2. seen \in Seq(Clips) /\ old.names \in Seq(Clips)
  BY ClipsOf DEF Lookings
<1>3. PICK found \in Seq(Clips) : found = Once(old.names \o seen)
  <2> HIDE DEF seen
  <2>1. old.names \o seen \in Seq(Clips)
    BY <1>2, Joined
  <2>2. Once(old.names \o seen) \in Seq(Clips)
    BY <2>1, OnceAre
  <2> QED BY <2>2
<1>4. PICK there \in Seq(Clips) : there = Kept(found, online) /\ ToSet(there) \subseteq online
  <2>1. Kept(found, online) \in Seq(Clips) /\ ToSet(Kept(found, online)) = ToSet(found) \cap online
    BY KeptAre
  <2> QED BY <2>1
<1>5. PICK ordered \in Seq(Clips) :
        ordered = Upto(there, Hits) /\ ToSet(ordered) \subseteq online /\ Len(ordered) <= Hits
  <2>1. PICK n \in Nat : n = Len(there)
    BY LenProperties
  <2>2. /\ Upto(there, Hits) \in Seq(Clips) /\ ToSet(Upto(there, Hits)) \subseteq ToSet(there)
        /\ Len(Upto(there, Hits)) = Least(Hits, n)
    BY <2>1, UptoIs, Limits
  <2>3. Least(Hits, n) <= Hits
    BY <2>1, Limits DEF Least
  <2> QED BY <1>4, <2>2, <2>3
<1>6. PICK n \in Nat : n = Len(ordered) /\ DOMAIN ordered = 1..n
  BY LenProperties
<1>7. \A i \in 1..n : ordered[i] \in Clips /\ ordered[i] \in online
  <2>1. \A i \in 1..n : ordered[i] \in ToSet(ordered)
    BY <1>6 DEF ToSet
  <2> QED BY <1>5, <1>6, <2>1
<1> DEFINE results == [i \in 1..n |-> [asset |-> ordered[i], reasons |-> {}, moment |-> "frame"]]
<1>8. \A i \in 1..n : [asset |-> ordered[i], reasons |-> {}, moment |-> "frame"] \in Hit
  BY <1>7 DEF Hit
<1>9. results \in Seq(Hit) /\ Len(results) = n /\ DOMAIN results = 1..n
  BY <1>8
<1>10. \A r \in ToSet(results) : r.moment = "frame" /\ r.asset \in online
  BY <1>7, <1>9 DEF ToSet
<1>11. looking[s].at = "load" /\ Still /\ Onward(s, "idle", [looking[s] EXCEPT !.results = results])
  <2>1. LoadOnline(s, Once(looking[s].names \o [i \in DOMAIN looking[s].frames |-> looking[s].frames[i][1]])) = there
    BY <1>1, <1>3, <1>4 DEF LoadOnline
  <2> QED BY <1>5, <1>6, <2>1 DEF Load
<1> HIDE DEF results
<1>12. LookingInv' /\ looking'[s].results = results
  <2>1. looking[s].at \in {"fuse", "load"} /\ Len(results) <= Hits
    BY <1>5, <1>6, <1>9, <1>11
  <2>2. ~looking[s].changed => \A r \in ToSet(results) : r.moment = "any word" => NotWhole(r.asset)
    BY <1>10
  <2> QED BY <1>9, <1>11, <2>1, <2>2, SearchAnswered
<1> QED BY <1>10, <1>12

(* What is in a list of a search is of the catalogue as it is. *)
LEMMA ListsAre ==
    ASSUME NEW s \in Searches, looking[s] \in Lookings, OfNow(looking[s]), looking[s].like = "none",
           NEW a, Reasons(Lists(s), a) # {}
    PROVE  a \in online
<1>1. PICK me \in Lookings : me = looking[s]
  OBVIOUS
<1>2. /\ \A g \in ToSet(me.said) : g.asset \in online
      /\ ToSet(me.names) \subseteq online
      /\ \A f \in ToSet(me.frames) : f[1] \in online
      /\ \A t \in ToSet(me.tags) : t[1] \in online
  BY <1>1 DEF OfNow
<1>3. /\ me.said \in Seq(Passages) /\ me.frames \in Seq(Clips \X Nat)
      /\ me.tags \in Seq(Clips \X {"tag", "suggested_tag"})
  BY DEF Lookings
<1> DEFINE tags(kind) == LET some == Kept(me.tags, {t \in ToSet(me.tags) : t[2] = kind})
                         IN  [i \in DOMAIN some |-> some[i][1]]
<1>4. ASSUME NEW kind PROVE tags(kind) \in Seq(Clips) /\ ToSet(tags(kind)) \subseteq online
  <2> DEFINE own == {t \in ToSet(me.tags) : t[2] = kind}
  <2>1. PICK some \in Seq(Clips \X {"tag", "suggested_tag"}) :
          some = Kept(me.tags, own) /\ ToSet(some) \subseteq ToSet(me.tags)
    <3> HIDE DEF own
    <3>0. PICK T : T = Clips \X {"tag", "suggested_tag"}
      OBVIOUS
    <3>1. PICK list \in Seq(T) : list = me.tags
      BY <1>3, <3>0
    <3>2. Kept(list, own) \in Seq(T) /\ ToSet(Kept(list, own)) = ToSet(list) \cap own
      BY KeptAre
    <3> QED BY <3>0, <3>1, <3>2
  <2> DEFINE clips == [i \in DOMAIN some |-> some[i][1]]
  <2>2. clips \in Seq(Clips) /\ ToSet(clips) = {x[1] : x \in ToSet(some)}
    BY ClipsOf
  <2>3. tags(kind) = clips
    BY <2>1
  <2> HIDE DEF clips
  <2>4. \A x \in ToSet(some) : x[1] \in online
    BY <1>2, <2>1
  <2>5. ToSet(clips) \subseteq online
    BY <2>2, <2>4
  <2> HIDE DEF tags
  <2> QED BY <2>2, <2>3, <2>5
<1>5. PICK t1 \in Seq(Clips), t2 \in Seq(Clips) :
        t1 = tags("tag") /\ t2 = tags("suggested_tag") /\ ToSet(t1) \subseteq online /\ ToSet(t2) \subseteq online
  <2> HIDE DEF tags
  <2> QED BY <1>4
<1>6. PICK suggested \in Seq(Clips) :
        suggested = Kept(t2, ToSet(Footage) \ ToSet(t1)) /\ ToSet(suggested) \subseteq online
  <2> DEFINE rest == ToSet(Footage) \ ToSet(t1)
  <2> HIDE DEF rest
  <2>1. Kept(t2, rest) \in Seq(Clips) /\ ToSet(Kept(t2, rest)) = ToSet(t2) \cap rest
    BY KeptAre
  <2> QED BY <1>5, <2>1 DEF rest
<1>7. PICK seen \in Seq(Clips) :
        seen = [i \in DOMAIN me.frames |-> me.frames[i][1]] /\ ToSet(seen) \subseteq online
  <2> DEFINE clips == [i \in DOMAIN me.frames |-> me.frames[i][1]]
  <2>1. clips \in Seq(Clips) /\ ToSet(clips) = {x[1] : x \in ToSet(me.frames)}
    BY <1>3, ClipsOf
  <2> HIDE DEF clips
  <2>2. ToSet(clips) \subseteq online
    BY <1>2, <2>1
  <2> QED BY <2>1, <2>2 DEF clips
<1>8. PICK heard \in Seq(Clips) :
        heard = Once([i \in DOMAIN me.said |-> me.said[i].asset]) /\ ToSet(heard) \subseteq online
  <2> DEFINE clips == [i \in DOMAIN me.said |-> me.said[i].asset]
  <2>1. clips \in Seq(Clips) /\ ToSet(clips) = {x.asset : x \in ToSet(me.said)}
    BY <1>3, ClipsSaid
  <2> HIDE DEF clips
  <2>2. Once(clips) \in Seq(Clips) /\ ToSet(Once(clips)) \subseteq ToSet(clips)
    BY <2>1, OnceAre
  <2>3. ToSet(clips) \subseteq online
    BY <1>2, <2>1
  <2> QED BY <2>2, <2>3 DEF clips
<1>9. Lists(s) = [tag |-> t1, suggested_tag |-> suggested, visual |-> seen, transcript |-> heard, name |-> me.names]
  BY <1>1, <1>5, <1>6, <1>7, <1>8 DEF Lists
<1>10. PICK why \in {"tag", "suggested_tag", "visual", "transcript", "name"} : a \in ToSet(Lists(s)[why])
  BY <1>9 DEF Reasons
<1>11. /\ Lists(s)["tag"] = t1 /\ Lists(s)["suggested_tag"] = suggested /\ Lists(s)["visual"] = seen
       /\ Lists(s)["transcript"] = heard /\ Lists(s)["name"] = me.names
  BY <1>9
<1> HIDE DEF tags
<1> QED BY <1>2, <1>5, <1>6, <1>7, <1>8, <1>10, <1>11

LEMMA ListsShape ==
    ASSUME NEW s
    PROVE  DOMAIN Lists(s) = Whys
<1> DEFINE tags(kind) == LET some == Kept(looking[s].tags, {t \in ToSet(looking[s].tags) : t[2] = kind})
                         IN  [i \in DOMAIN some |-> some[i][1]]
           suggested == Kept(tags("suggested_tag"), ToSet(Footage) \ ToSet(tags("tag")))
           seen == [i \in DOMAIN looking[s].frames |-> looking[s].frames[i][1]]
           heard == Once([i \in DOMAIN looking[s].said |-> looking[s].said[i].asset])
<1>1. Lists(s) = [tag |-> tags("tag"), suggested_tag |-> suggested, visual |-> seen, transcript |-> heard,
                  name |-> looking[s].names]
  BY DEF Lists
<1> HIDE DEF tags, suggested, seen, heard
<1> QED BY <1>1 DEF Whys

LEMMA FuseKeeps ==
    ASSUME LookingInv, NEW s \in Searches, Fuse(s)
    PROVE  /\ LookingInv'
           /\ ~looking[s].changed => {r.asset : r \in ToSet(looking'[s].results)} \subseteq online
<1>1. looking[s] \in Lookings /\ Sound(looking[s])
  BY DEF LookingInv
<1>2. PICK lists : lists = Lists(s) /\ DOMAIN lists = Whys
  BY ListsShape
<1>3. PICK all \in Seq(Found(lists)) : all = Fused(lists)
  BY FusedAre
<1>4. PICK fused \in Seq(Found(lists)) : fused = Upto(all, Hits) /\ Len(fused) <= Hits
  <2>1. PICK n \in Nat : n = Len(all)
    BY LenProperties
  <2>2. Upto(all, Hits) \in Seq(Found(lists)) /\ Len(Upto(all, Hits)) = Least(Hits, n)
    BY <2>1, UptoIs, Limits
  <2>3. Least(Hits, n) <= Hits
    BY <2>1, Limits DEF Least
  <2> QED BY <2>2, <2>3
<1>5. PICK n \in Nat : n = Len(fused) /\ DOMAIN fused = 1..n
  BY LenProperties
<1>6. \A i \in 1..n : fused[i] \in Clips /\ Reasons(lists, fused[i]) # {}
  BY <1>5 DEF Found
<1> DEFINE HitAt(a) == [asset |-> a, reasons |-> Reasons(lists, a), moment |-> Moment(looking[s], a)]
           results == [i \in 1..n |-> HitAt(fused[i])]
<1>7. \A a \in Clips : HitAt(a) \in Hit
  <2> TAKE a \in Clips
  <2>1. Reasons(lists, a) \subseteq Whys
    BY <1>2 DEF Reasons
  <2>2. Moment(looking[s], a) \in {"frame", "every word", "any word"}
    BY DEF Moment
  <2> QED BY <2>1, <2>2 DEF Hit
<1>8. results \in Seq(Hit) /\ Len(results) = n /\ DOMAIN results = 1..n
  <2> HIDE DEF HitAt
  <2> QED BY <1>6, <1>7
<1>9. \A r \in ToSet(results) : \E i \in 1..n : r.asset = fused[i] /\ r.moment = Moment(looking[s], fused[i])
  BY <1>8 DEF ToSet
<1>10. looking[s].at = "fuse" /\ Still /\ Onward(s, "idle", [looking[s] EXCEPT !.results = results])
  BY <1>2, <1>3, <1>4, <1>5 DEF Fuse
<1> HIDE DEF results
<1>11. ~looking[s].changed => \A r \in ToSet(results) : r.moment = "any word" => NotWhole(r.asset)
  BY <1>1, <1>6, <1>9 DEF Sound, OfNow
<1>12. ~looking[s].changed => \A r \in ToSet(results) : r.asset \in online
  <2> SUFFICES ASSUME ~looking[s].changed, NEW r \in ToSet(results) PROVE r.asset \in online
    OBVIOUS
  <2>1. OfNow(looking[s]) /\ looking[s].like = "none"
    BY <1>1, <1>10 DEF Sound, OfNow
  <2>2. PICK i \in 1..n : r.asset = fused[i]
    BY <1>9
  <2>3. Reasons(Lists(s), fused[i]) # {}
    BY <1>2, <1>6
  <2>4. fused[i] \in online
    BY <1>1, <2>1, <2>3, ListsAre
  <2> QED BY <2>2, <2>4
<1>13. LookingInv' /\ looking'[s].results = results
  <2>1. looking[s].at \in {"fuse", "load"} /\ Len(results) <= Hits
    BY <1>4, <1>5, <1>8, <1>10
  <2> QED BY <1>8, <1>10, <1>11, <2>1, SearchAnswered
<1> QED BY <1>12, <1>13

-----------------------------------------------------------------------------
LEMMA LookingInvStarts == SearchInit => LookingInv
<1> SUFFICES ASSUME SearchInit PROVE LookingInv
  OBVIOUS
<1>1. online \subseteq Clips /\ indexed \subseteq ToSet(NearestFrames) /\ searchBudget \in 0..SearchIncidents
  BY SearchSettings DEF SearchInit, Clips
<1>2. looking \in [Searches -> Lookings] /\ \A s \in Searches : looking[s] = NotLooking
  BY AtStart DEF SearchInit
<1>3. Sound(NotLooking)
  <2>1. /\ NotLooking.said = << >> /\ NotLooking.names = << >> /\ NotLooking.frames = << >>
        /\ NotLooking.tags = << >> /\ NotLooking.results = << >> /\ NotLooking.at = "idle"
    BY DEF NotLooking
  <2> QED BY <2>1, AtStart, JustBegun
<1>4. \A s \in Panels : looking[s].at \notin {"tags", "fuse"}
  BY <1>2 DEF NotLooking, Searches
<1> QED BY <1>1, <1>2, <1>3, <1>4 DEF LookingInv

LEMMA LookingInvKept == LookingInv /\ [SearchNext]_searchVars => LookingInv'
<1> SUFFICES ASSUME LookingInv, [SearchNext]_searchVars PROVE LookingInv'
  OBVIOUS
<1>1. ASSUME NEW s \in Searches,
             Begin(s) \/ EveryWord(s) \/ AnyWord(s) \/ Names(s) \/ Widen(s) \/ Tags(s) \/ Fuse(s) \/ Load(s)
      PROVE  LookingInv'
  <2>1. CASE Begin(s)
    BY <2>1, BeginKeeps
  <2>2. CASE EveryWord(s)
    BY <2>2, EveryWordKeeps
  <2>3. CASE AnyWord(s)
    BY <2>3, AnyWordKeeps
  <2>4. CASE Names(s)
    BY <2>4, NamesKeep
  <2>5. CASE Widen(s)
    BY <2>5, WidenKeeps
  <2>6. CASE Tags(s)
    BY <2>6, TagsKeep
  <2>7. CASE Fuse(s)
    BY <2>7, FuseKeeps
  <2>8. CASE Load(s)
    BY <2>8, LoadKeeps
  <2> QED BY <1>1, <2>1, <2>2, <2>3, <2>4, <2>5, <2>6, <2>7, <2>8
<1>2. ASSUME NEW s \in Pages, NEW a \in Clips, BeginAlike(s, a)
      PROVE  LookingInv'
  BY <1>2, BeginAlikeKeeps
<1>3. ASSUME NEW a \in Clips, Changes(GoesOffline(a)) \/ Changes(ComesBack(a)) \/ Changes(Rejects(a))
      PROVE  LookingInv'
  <2>1. online' \subseteq Clips /\ indexed' \subseteq ToSet(NearestFrames)
    BY <1>3 DEF Changes, GoesOffline, ComesBack, Rejects, LookingInv
  <2>2. /\ SearchIncident
        /\ looking' = [s \in Searches |-> [looking[s] EXCEPT !.changed = looking[s] # NotLooking]]
    BY <1>3 DEF Changes
  <2> QED BY <2>1, <2>2, ChangesKeep
<1>4. ASSUME NEW f \in ToSet(NearestFrames), Changes(Reframed(f))
      PROVE  LookingInv'
  <2>1. online' \subseteq Clips /\ indexed' \subseteq ToSet(NearestFrames)
    BY <1>4 DEF Changes, Reframed, LookingInv
  <2>2. /\ SearchIncident
        /\ looking' = [s \in Searches |-> [looking[s] EXCEPT !.changed = looking[s] # NotLooking]]
    BY <1>4 DEF Changes
  <2> QED BY <2>1, <2>2, ChangesKeep
<1>5. CASE UNCHANGED searchVars
  <2>1. /\ looking' = looking /\ UNCHANGED <<online, indexed>> /\ searchBudget' = searchBudget
    BY <1>5 DEF searchVars
  <2>2. ASSUME NEW s \in Searches PROVE Sound(looking[s])'
    <3>1. PICK me \in Lookings : me = looking[s] /\ Sound(me)
      BY DEF LookingInv
    <3>2. ~me.changed => OfNow(me)'
      BY <2>1, <3>1, NowStays DEF Sound
    <3>3. Sound(me)'
      BY <3>1, <3>2 DEF Sound
    <3>4. looking'[s] = me
      BY <2>1, <3>1
    <3> QED BY <3>3, <3>4
  <2> QED BY <2>1, <2>2 DEF LookingInv
<1> QED BY <1>1, <1>2, <1>3, <1>4, <1>5 DEF SearchNext, Clips

LEMMA SearchShown == LookingInv => SearchTypeOK /\ VisualIsExact /\ MomentIsPrecise
<1> SUFFICES ASSUME LookingInv PROVE SearchTypeOK /\ VisualIsExact /\ MomentIsPrecise
  OBVIOUS
<1>1. \A s \in Searches : looking[s] \in Lookings /\ Sound(looking[s])
  BY DEF LookingInv
<1>2. SearchTypeOK
  <2>1. \A s \in Searches : looking[s].window \in Widths
    BY <1>1 DEF Lookings
  <2> QED BY <1>1, <2>1 DEF LookingInv, Sound, SearchTypeOK, Clips, Widths
<1>3. VisualIsExact
  BY <1>1 DEF VisualIsExact, Sound, OfNow, Nearest
<1>4. MomentIsPrecise
  BY <1>1 DEF MomentIsPrecise, Sound, OfNow, NotWhole
<1> QED BY <1>2, <1>3, <1>4

(* Only what ends a search makes it idle. *)
LEMMA ThereWhenFound ==
    ASSUME LookingInv, [SearchNext]_searchVars, NEW s \in Searches,
           looking[s].at # "idle", looking'[s].at = "idle", s \in Panels \/ ~looking[s].changed
    PROVE  {r.asset : r \in ToSet(looking'[s].results)} \subseteq online
<1>1. looking \in [Searches -> Lookings] /\ \A r \in Searches : looking[r] \in Lookings
  BY DEF LookingInv
<1>2. ASSUME NEW r \in Searches, NEW at, NEW change, Onward(r, at, change), "at" \in DOMAIN change
      PROVE  r = s /\ looking'[s] = [change EXCEPT !.at = at] /\ at = "idle"
  <2>1. looking' = [looking EXCEPT ![r] = [change EXCEPT !.at = at]]
    BY <1>2 DEF Onward
  <2>2. r = s
    BY <1>1, <2>1
  <2>3. looking'[s] = [change EXCEPT !.at = at]
    BY <1>1, <2>1, <2>2
  <2>4. [change EXCEPT !.at = at].at = at
    BY <1>2
  <2> QED BY <2>2, <2>3, <2>4
<1>3. \A r \in Searches : "at" \in DOMAIN looking[r]
  BY <1>1 DEF Lookings
<1>4. "at" \in DOMAIN NotLooking
  BY DEF NotLooking
<1>5. ASSUME NEW r \in Searches, Begin(r) PROVE FALSE
  <2>1. PICK at : at = IF r \in Panels THEN "names" ELSE "words"
    OBVIOUS
  <2>2. Onward(r, at, NotLooking) /\ at # "idle"
    BY <1>5, <2>1 DEF Begin
  <2> QED BY <1>2, <1>4, <2>2
<1>6. ASSUME NEW r \in Searches, EveryWord(r) PROVE FALSE
  <2>0. PICK rows : rows = Upto(SaidOnline(TRUE), Hits)
    OBVIOUS
  <2>3. PICK at : at = IF Len(rows) < Hits THEN "any word" ELSE "names"
    OBVIOUS
  <2>1. Onward(r, at, [looking[r] EXCEPT !.said = rows]) /\ at # "idle"
    BY <1>6, <2>0, <2>3 DEF EveryWord
  <2>2. PICK change : change = [looking[r] EXCEPT !.said = rows] /\ "at" \in DOMAIN change
    BY <1>3
  <2> QED BY <1>2, <2>1, <2>2
<1>7. ASSUME NEW r \in Searches, AnyWord(r) PROVE FALSE
  <2>1. PICK rows : Onward(r, "names", [looking[r] EXCEPT !.said = rows])
    BY <1>7 DEF AnyWord
  <2>2. PICK change : change = [looking[r] EXCEPT !.said = rows] /\ "at" \in DOMAIN change
    BY <1>3
  <2> QED BY <1>2, <2>1, <2>2
<1>8. ASSUME NEW r \in Searches, Names(r) PROVE FALSE
  <2>0. PICK byName : byName = Upto(Kept(Named, online), Hits)
    OBVIOUS
  <2>3. PICK at : at = IF r \in Panels /\ Len(byName) = Hits THEN "load" ELSE "frames"
    OBVIOUS
  <2>4. PICK w : w = Hits * NeighbourFrames
    OBVIOUS
  <2>1. Onward(r, at, [looking[r] EXCEPT !.names = byName, !.window = w]) /\ at # "idle"
    BY <1>8, <2>0, <2>3, <2>4 DEF Names
  <2>2. PICK change : change = [looking[r] EXCEPT !.names = byName, !.window = w] /\ "at" \in DOMAIN change
    BY <1>3
  <2> QED BY <1>2, <2>1, <2>2
<1>9. ASSUME NEW r \in Searches, Tags(r) PROVE FALSE
  <2>1. PICK tags : Onward(r, "fuse", [looking[r] EXCEPT !.tags = tags])
    BY <1>9 DEF Tags
  <2>2. PICK change : change = [looking[r] EXCEPT !.tags = tags] /\ "at" \in DOMAIN change
    BY <1>3
  <2> QED BY <1>2, <2>1, <2>2
<1>10. ASSUME NEW r \in Pages, NEW a, BeginAlike(r, a) PROVE FALSE
  <2>1. PICK w : Onward(r, "frames", [NotLooking EXCEPT !.like = a, !.window = w])
    BY <1>10 DEF BeginAlike
  <2>2. PICK change : change = [NotLooking EXCEPT !.like = a, !.window = w] /\ "at" \in DOMAIN change
    BY <1>4
  <2> QED BY <1>2, <2>1, <2>2 DEF Searches
<1>11. ASSUME NEW catalogue, Changes(catalogue) PROVE FALSE
  <2>1. looking'[s] = [looking[s] EXCEPT !.changed = looking[s] # NotLooking]
    BY <1>11 DEF Changes
  <2>2. looking'[s].at = looking[s].at
    BY <1>1, <2>1 DEF Lookings
  <2> QED BY <2>2
<1>12. ASSUME NEW r \in Searches, Widen(r) PROVE ToSet(looking'[s].results) = {}
  <2>1. PICK at, frames, w :
          \/ Onward(r, at, [looking[r] EXCEPT !.frames = frames])
          \/ Onward(r, "frames", [looking[r] EXCEPT !.window = w])
    BY <1>12 DEF Widen
  <2>2. CASE Onward(r, "frames", [looking[r] EXCEPT !.window = w])
    <3>1. PICK change : change = [looking[r] EXCEPT !.window = w] /\ "at" \in DOMAIN change
      BY <1>3
    <3> QED BY <1>2, <2>2, <3>1
  <2>3. CASE Onward(r, at, [looking[r] EXCEPT !.frames = frames])
    <3>1. PICK change : change = [looking[r] EXCEPT !.frames = frames] /\ "at" \in DOMAIN change
      BY <1>3
    <3>2. r = s /\ looking'[s] = [change EXCEPT !.at = at]
      BY <1>2, <2>3, <3>1
    <3>3. looking'[s].results = looking[s].results
      BY <1>1, <3>1, <3>2 DEF Lookings
    <3>4. looking[s].results = << >>
      BY DEF LookingInv, Sound
    <3> QED BY <3>3, <3>4, NothingIn
  <2> QED BY <2>1, <2>2, <2>3
<1>13. ASSUME NEW r \in Searches, Fuse(r) PROVE r = s /\ ~looking[s].changed
  <2>1. PICK results : Onward(r, "idle", [looking[r] EXCEPT !.results = results])
    BY <1>13 DEF Fuse
  <2>2. PICK change : change = [looking[r] EXCEPT !.results = results] /\ "at" \in DOMAIN change
    BY <1>3
  <2>3. r = s
    BY <1>2, <2>1, <2>2
  <2>4. s \notin Panels
    BY <1>13, <2>3 DEF Fuse, LookingInv
  <2> QED BY <2>3, <2>4
<1>14. ASSUME NEW r \in Searches, Load(r) PROVE r = s
  <2>1. PICK results : Onward(r, "idle", [looking[r] EXCEPT !.results = results])
    BY <1>14 DEF Load
  <2>2. PICK change : change = [looking[r] EXCEPT !.results = results] /\ "at" \in DOMAIN change
    BY <1>3
  <2> QED BY <1>2, <2>1, <2>2
<1>15. CASE \E r \in Searches : Fuse(r)
  <2>1. PICK r \in Searches : Fuse(r)
    BY <1>15
  <2>2. Fuse(s) /\ ~looking[s].changed
    BY <1>13, <2>1
  <2> QED BY <2>2, FuseKeeps
<1>16. CASE \E r \in Searches : Load(r)
  <2>1. PICK r \in Searches : Load(r)
    BY <1>16
  <2>2. Load(s)
    BY <1>14, <2>1
  <2> QED BY <2>2, LoadKeeps
<1>17. CASE \E r \in Searches : Widen(r)
  BY <1>12, <1>17
<1>18. CASE UNCHANGED searchVars
  BY <1>18 DEF searchVars
<1> QED BY <1>5, <1>6, <1>7, <1>8, <1>9, <1>10, <1>11, <1>15, <1>16, <1>17, <1>18 DEF SearchNext, Clips

(* In every behaviour of Front, whatever is searched for and however the    *)
(* catalogue goes on meanwhile (api/v1/search.py, panel.py): as long as it  *)
(* stayed as it was, the visual hits are the nearest clips there are within *)
(* the widest window, and no clip opens where some of the words were said   *)
(* when all of them were said somewhere in it; what a search answers was    *)
(* online all the while, and what the panel answers is online even then.    *)
THEOREM SearchHolds == FrontSpec => SearchCorrect
<1>1. FrontInit => LookingInv
  BY LookingInvStarts DEF FrontInit
<1>2. [FrontNext]_frontVars => [SearchNext]_searchVars
  BY DEF FrontNext, ItemsMove, AccountsMove, SearchMoves, GrabsMove, OrganizerMoves, CurateMoves, frontVars
<1>3. LookingInv /\ [FrontNext]_frontVars => LookingInv'
  BY <1>2, LookingInvKept
<1>4. LookingInv => SearchTypeOK /\ VisualIsExact /\ MomentIsPrecise
  BY SearchShown
<1>5. LookingInv /\ [FrontNext]_frontVars =>
        [\A s \in Searches : looking[s].at # "idle" /\ looking'[s].at = "idle"
                              /\ (s \in Panels \/ ~looking[s].changed) =>
           {r.asset : r \in ToSet(looking'[s].results)} \subseteq online]_searchVars
  BY <1>2, ThereWhenFound
<1> QED BY <1>1, <1>3, <1>4, <1>5, PTL DEF FrontSpec, SearchCorrect, FoundIsThere

=============================================================================
