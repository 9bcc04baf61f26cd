---------------------------- MODULE ApiServerProofs ----------------------------
(***************************************************************************)
(* Theorems about the management API (ApiServer) and the console's page of    *)
(* connections (Console), for any connections, requests, failures of the      *)
(* store and restarts: the limiter of POST /connect, for every limit, window  *)
(* and phase of the sweep; the locks; which connection a reply hands out and  *)
(* what it may spend; what the console revokes.                               *)
(***************************************************************************)
EXTENDS Console, Integers, FiniteSetTheorems, WellFoundedInduction, TLAPS

\* How many of the entries of `accepted` the current window let in.
Let_in == IF window.count < Limit THEN window.count ELSE Limit

RateTyped ==
    /\ now \in Nat /\ accepted \in Seq(Nat)
    /\ window \in [start : Nat, count : Nat]
    /\ Let_in <= Len(accepted)

\* Requests are let in as the clock goes.
Ordered ==
    /\ \A i \in 1..Len(accepted) : accepted[i] <= now
    /\ \A i, j \in 1..Len(accepted) : i <= j => accepted[i] <= accepted[j]

\* The window opened with its first request, and a window's length after all
\* requests but the last Limit - 1 of those before.
WindowOpen ==
    window.count > 0 =>
        /\ window.start <= now
        /\ accepted[Len(accepted) - Let_in + 1] = window.start
        /\ \A i \in 1..Len(accepted) :
              i + Let_in + Limit - 1 <= Len(accepted) => accepted[i] + Window < window.start

\* When there is no window, all but the last Limit - 1 are that long ago.
WindowSwept ==
    window.count = 0 =>
        \A i \in 1..Len(accepted) : i + Limit - 1 <= Len(accepted) => accepted[i] + Window < now

\* RateBound over the positions of `accepted`.
Apart ==
    \A i \in 1..Len(accepted) :
        i + 2 * Limit - 1 <= Len(accepted)
            => accepted[i] + Window < accepted[i + 2 * Limit - 1]

RateInv == RateTyped /\ Ordered /\ WindowOpen /\ WindowSwept /\ Apart

-----------------------------------------------------------------------------
\* What is assumed of the constants the limiter uses.
LEMMA Params == Limit \in Nat /\ Limit >= 1 /\ Window \in Nat
BY ApiAssumption

\* A server that has just started has let nobody in.
LEMMA RateInit == SrvInit => RateInv
<1> SUFFICES ASSUME SrvInit PROVE RateInv
  OBVIOUS
<1>1. now = 0 /\ window = NoWindow /\ accepted = <<>>
  BY DEF SrvInit
<1>2. Len(accepted) = 0 /\ window.count = 0 /\ Let_in = 0
  BY <1>1, Params DEF NoWindow, Let_in
<1>3. RateTyped
  BY <1>1, <1>2 DEF RateTyped, NoWindow
<1>4. Ordered /\ WindowOpen /\ WindowSwept
  BY <1>1, <1>2 DEF Ordered, WindowOpen, WindowSwept
<1>5. Apart
  BY <1>1 DEF Apart
<1> QED
  BY <1>3, <1>4, <1>5 DEF RateInv

\* All requests but the last Limit - 1 are a window's length before any request
\* that opens a window now.
LEMMA OldOnesAreOld ==
    ASSUME RateInv, Expired, NEW i \in 1..Len(accepted), i + Limit - 1 <= Len(accepted)
    PROVE  accepted[i] + Window < now
<1> USE Params
<1>1. CASE window.count = 0
  BY <1>1 DEF RateInv, WindowSwept
<1>2. CASE window.count > 0
  <2>1. now - window.start > Window /\ Let_in \in 1..Limit /\ Let_in <= Len(accepted)
        /\ now \in Nat /\ window.start \in Nat /\ accepted \in Seq(Nat)
    BY <1>2 DEF Expired, Let_in, RateInv, RateTyped
  <2>2. i <= Len(accepted) - Let_in + 1
        /\ Len(accepted) - Let_in + 1 \in 1..Len(accepted)
    BY <2>1
  <2>3. accepted[i] <= accepted[Len(accepted) - Let_in + 1]
    BY <2>2 DEF RateInv, Ordered
  <2>4. accepted[i] <= window.start
    BY <1>2, <2>3 DEF RateInv, WindowOpen
  <2>5. accepted[i] \in Nat
    BY <2>1
  <2> QED
    BY <2>1, <2>4, <2>5
<1> QED
  BY <1>1, <1>2 DEF RateInv, RateTyped

\* A request that is let in: opens a window or is counted in it.
LEMMA LetIn ==
    ASSUME RateInv, Admitted, window' = Counted, accepted' = Append(accepted, now), now' = now
    PROVE  RateInv'
<1> USE Params
<1> DEFINE n == Len(accepted)
<1>1. /\ now \in Nat /\ accepted \in Seq(Nat) /\ n \in Nat
      /\ window \in [start : Nat, count : Nat] /\ Let_in \in 0..Limit /\ Let_in <= n
  BY DEF RateInv, RateTyped, Let_in
<1>2. /\ accepted' \in Seq(Nat) /\ Len(accepted') = n + 1
      /\ accepted'[n + 1] = now
      /\ \A i \in 1..n : accepted'[i] = accepted[i]
  BY <1>1
<1>3. Ordered'
  BY <1>1, <1>2 DEF RateInv, Ordered
<1>4. CASE Expired
  <2>1. window' = [start |-> now, count |-> 1] /\ Let_in' = 1
    BY <1>4 DEF Counted, Let_in
  <2>2. RateTyped'
    BY <1>1, <1>2, <2>1 DEF RateTyped
  <2>3. \A i \in 1..n : i + Limit - 1 <= n => accepted[i] + Window < now
    BY <1>4, OldOnesAreOld
  <2>4. WindowOpen'
    BY <1>1, <1>2, <2>1, <2>3 DEF WindowOpen
  <2>5. WindowSwept'
    BY <2>1 DEF WindowSwept
  <2>6. Apart'
    <3> SUFFICES ASSUME NEW i \in 1..(n + 1), i + 2 * Limit - 1 <= n + 1
                 PROVE  accepted'[i] + Window < accepted'[i + 2 * Limit - 1]
      BY <1>2 DEF Apart
    <3>1. CASE i + 2 * Limit - 1 = n + 1
      BY <1>1, <1>2, <2>3, <3>1
    <3>2. CASE i + 2 * Limit - 1 <= n
      BY <1>1, <1>2, <3>2 DEF RateInv, Apart
    <3> QED
      BY <1>1, <3>1, <3>2
  <2> QED
    BY <1>3, <2>2, <2>4, <2>5, <2>6 DEF RateInv
<1>5. CASE ~Expired
  <2>1. /\ window.count > 0 /\ window.count < Limit
        /\ window' = [window EXCEPT !.count = @ + 1]
    BY <1>1, <1>5 DEF Counted, Admitted, Expired
  <2>2. /\ window'.start = window.start /\ window'.count = window.count + 1
        /\ window' \in [start : Nat, count : Nat]
        /\ Let_in = window.count /\ Let_in' = Let_in + 1
    BY <1>1, <2>1 DEF Let_in
  <2>3. /\ window.start <= now /\ window.start \in Nat
        /\ accepted[n - Let_in + 1] = window.start
        /\ \A i \in 1..n : i + Let_in + Limit - 1 <= n => accepted[i] + Window < window.start
    BY <1>1, <2>1 DEF RateInv, WindowOpen
  <2>4. RateTyped'
    BY <1>1, <1>2, <2>2 DEF RateTyped
  <2>5. WindowOpen'
    <3>1. accepted'[(n + 1) - (Let_in + 1) + 1] = window.start
      <4> HIDE DEF n
      <4>1. Let_in \in 1..n
        BY <1>1, <2>1, <2>2
      <4>2. (n + 1) - (Let_in + 1) + 1 = n - Let_in + 1 /\ n - Let_in + 1 \in 1..n
        BY <1>1, <4>1
      <4> QED
        BY <1>2, <2>3, <4>2
    <3>2. \A i \in 1..(n + 1) :
             i + (Let_in + 1) + Limit - 1 <= n + 1 => accepted'[i] + Window < window.start
      BY <1>1, <1>2, <2>3
    <3> QED
      BY <1>1, <1>2, <2>2, <2>3, <3>1, <3>2 DEF WindowOpen
  <2>6. WindowSwept'
    BY <1>1, <2>2 DEF WindowSwept
  <2>7. Apart'
    <3> SUFFICES ASSUME NEW i \in 1..(n + 1), i + 2 * Limit - 1 <= n + 1
                 PROVE  accepted'[i] + Window < accepted'[i + 2 * Limit - 1]
      BY <1>2 DEF Apart
    <3>1. CASE i + 2 * Limit - 1 = n + 1
      <4>4. Let_in < Limit
        BY <2>1, <2>2
      <4>1. i \in 1..n /\ i + Let_in + Limit - 1 <= n
        <5> HIDE DEF n
        <5> QED
          BY <1>1, <3>1, <4>4
      <4>2. accepted[i] + Window < window.start /\ accepted[i] \in Nat
        BY <1>1, <2>3, <4>1
      <4>3. accepted'[i] = accepted[i] /\ accepted'[i + 2 * Limit - 1] = now
        BY <1>2, <3>1, <4>1
      <4>5. accepted[i] + Window < now
        BY <1>1, <2>3, <4>2
      <4> QED
        BY <4>3, <4>5
    <3>2. CASE i + 2 * Limit - 1 <= n
      BY <1>1, <1>2, <3>2 DEF RateInv, Apart
    <3> QED
      BY <1>1, <3>1, <3>2
  <2> QED
    BY <1>3, <2>4, <2>5, <2>6, <2>7 DEF RateInv
<1> QED
  BY <1>4, <1>5

\* A request that is refused is counted all the same.
LEMMA Refused ==
    ASSUME RateInv, ~Admitted, window' = Counted, accepted' = accepted, now' = now
    PROVE  RateInv'
<1> USE Params
<1>1. /\ window \in [start : Nat, count : Nat] /\ window.count >= Limit
      /\ window' = [window EXCEPT !.count = @ + 1]
  BY DEF Admitted, Expired, Counted, RateInv, RateTyped
<1>2. /\ window'.start = window.start /\ window'.count = window.count + 1
      /\ window' \in [start : Nat, count : Nat] /\ window.count > 0
      /\ Let_in' = Let_in
  BY <1>1 DEF Let_in
<1>3. RateTyped' /\ Ordered' /\ Apart'
  BY <1>2 DEF RateInv, RateTyped, Ordered, Apart
<1>4. WindowOpen' /\ WindowSwept'
  BY <1>1, <1>2 DEF RateInv, WindowOpen, WindowSwept
<1> QED
  BY <1>3, <1>4 DEF RateInv

\* The clock closes windows and opens none.
LEMMA Ticks ==
    ASSUME RateInv, now' = now + 1, UNCHANGED <<window, accepted>>
    PROVE  RateInv'
<1> USE Params
<1>1. now \in Nat /\ accepted \in Seq(Nat) /\ window \in [start : Nat, count : Nat]
      /\ Let_in' = Let_in
  BY DEF RateInv, RateTyped, Let_in
<1>2. RateTyped' /\ Apart'
  BY <1>1 DEF RateInv, RateTyped, Apart
<1>3. Ordered'
  BY <1>1 DEF RateInv, Ordered
<1>4. WindowOpen' /\ WindowSwept'
  BY <1>1 DEF RateInv, WindowOpen, WindowSwept
<1> QED
  BY <1>2, <1>3, <1>4 DEF RateInv

\* The sweep takes a window that has been over for as long as it lasted.
LEMMA Sweeps ==
    ASSUME RateInv, Sweep
    PROVE  RateInv'
<1> USE Params
<1>1. /\ window.count > 0 /\ window.start + 2 * Window < now
      /\ window' = NoWindow /\ UNCHANGED <<now, accepted>>
  BY DEF Sweep
<1>2. now \in Nat /\ accepted \in Seq(Nat) /\ window \in [start : Nat, count : Nat]
      /\ window'.count = 0 /\ Let_in' = 0
  BY <1>1 DEF RateInv, RateTyped, NoWindow, Let_in
<1>3. Expired
  BY <1>1, <1>2 DEF Expired
<1>4. RateTyped' /\ Ordered' /\ Apart' /\ WindowOpen'
  BY <1>1, <1>2 DEF RateInv, RateTyped, Ordered, Apart, WindowOpen, NoWindow
<1>5. WindowSwept'
  BY <1>1, <1>3, OldOnesAreOld DEF WindowSwept
<1> QED
  BY <1>4, <1>5 DEF RateInv

\* A restart forgets the window together with whom it let in.
LEMMA Restarts ==
    ASSUME RateInv, Restart
    PROVE  RateInv'
<1> USE Params
<1>1. window' = NoWindow /\ accepted' = <<>> /\ now' = now /\ now \in Nat
  BY DEF Restart, RateInv, RateTyped
<1>2. Len(accepted') = 0 /\ window'.count = 0 /\ Let_in' = 0
  BY <1>1 DEF NoWindow, Let_in
<1>3. RateTyped'
  BY <1>1, <1>2 DEF RateTyped, NoWindow
<1>4. Ordered' /\ WindowOpen' /\ WindowSwept'
  BY <1>2 DEF Ordered, WindowOpen, WindowSwept
<1>5. Apart'
  BY <1>1 DEF Apart
<1> QED
  BY <1>3, <1>4, <1>5 DEF RateInv

\* Every step keeps the invariant.
LEMMA RateStep ==
    ASSUME RateInv, [SrvNext \/ Operator]_srvVars
    PROVE  RateInv'
<1>1. CASE Tick
  BY <1>1, Ticks DEF Tick
<1>2. CASE Sweep
  BY <1>2, Sweeps
<1>3. CASE Restart
  BY <1>3, Restarts
<1>4. CASE \E r \in Links : Connect(r)
  BY <1>4, LetIn, Refused DEF Connect
<1>5. CASE UNCHANGED rateVars
  BY <1>5 DEF rateVars, RateInv, RateTyped, Let_in, Ordered, WindowOpen, WindowSwept, Apart
<1>6. CASE \E r \in Requests : Handler(r)
  BY <1>5, <1>6 DEF Handler, Enter, StoreRow, Flag, Reply
<1>7. CASE (\E k \in Keys : RevokeStored(k)) \/ Operator \/ UNCHANGED srvVars
  BY <1>5, <1>7 DEF RevokeStored, Operator, Create, Delete, srvVars
<1> QED
  BY <1>1, <1>2, <1>3, <1>4, <1>6, <1>7 DEF SrvNext

\* However the requests fall, and whenever the sweep runs, fewer than twice the
\* limit are let in within a window and a moment.
THEOREM RateBoundTheorem == SrvSpec => []RateBound
<1>1. RateInv /\ [SrvNext \/ Operator]_srvVars => RateInv'
  BY RateStep
<1>2. ASSUME RateInv PROVE RateBound
  <2>1. accepted \in Seq(Nat) /\ Apart
    BY <1>2 DEF RateInv, RateTyped
  <2> SUFFICES ASSUME NEW i \in 1..Len(accepted), i + 2 * Limit - 1 \in 1..Len(accepted)
               PROVE  accepted[i + 2 * Limit - 1] - accepted[i] > Window
    BY <2>1 DEF RateBound
  <2>2. accepted[i] + Window < accepted[i + 2 * Limit - 1]
    BY <2>1, Params DEF Apart
  <2>3. accepted[i] \in Nat /\ accepted[i + 2 * Limit - 1] \in Nat
    BY <2>1
  <2> QED
    BY <2>2, <2>3, Params
<1> QED
  BY RateInit, <1>1, <1>2, PTL DEF SrvSpec

-----------------------------------------------------------------------------
(* Lists of keys *)

Keyed(s) == s \in Seq(Keys)
Lacks(s, k) == \A i \in DOMAIN s : s[i] # k

\* The first index that qualifies is found: a loop that breaks at its first hit.
LEMMA MinFound ==
    ASSUME NEW I \in SUBSET Nat, I # {}
    PROVE  Min(I) \in I /\ \A i \in I : Min(I) <= i
<1>1. PICK m \in I : \A n \in I : <<n, m>> \notin OpToRel(<, Nat)
  BY NatLessThanWellFounded, WFMin
<1>2. \A n \in I : m <= n
  <2>1. \A n \in I : ~(n < m)
    BY <1>1 DEF OpToRel
  <2> QED
    BY <2>1
<1> QED
  BY <1>2 DEF Min

\* Putting an entry into a list of keys, at any place, gives a list of the keys
\* it had and that entry.
LEMMA InsertAtHas ==
    ASSUME NEW s \in Seq(Keys), NEW k \in Keys, NEW p \in 1..Len(s)
    PROVE  /\ InsertAt(s, p, k) \in Seq(Keys)
           /\ \A i \in DOMAIN InsertAt(s, p, k) :
                 InsertAt(s, p, k)[i] = k \/ \E j \in DOMAIN s : InsertAt(s, p, k)[i] = s[j]
<1> DEFINE a == SubSeq(s, 1, p - 1)
           b == SubSeq(s, p, Len(s))
           c == Append(a, k)
           t == c \o b
<1>1. /\ a \in Seq(Keys) /\ Len(a) = p - 1
      /\ \A i \in 1..(p - 1) : a[i] = s[i]
  OBVIOUS
<1>2. /\ b \in Seq(Keys) /\ Len(b) = Len(s) - p + 1
      /\ \A i \in 1..(Len(s) - p + 1) : b[i] = s[p + i - 1]
  OBVIOUS
<1>3. InsertAt(s, p, k) = t
  <2>1. a \o <<k>> = Append(a, k)
    <3> HIDE DEF a
    <3> QED
      BY <1>1
  <2> QED
    BY <2>1 DEF InsertAt
<1> HIDE DEF a, b
<1>4. /\ c \in Seq(Keys) /\ Len(c) = p /\ c[p] = k
      /\ \A i \in 1..(p - 1) : c[i] = a[i]
  BY <1>1
<1> HIDE DEF c
<1>5. /\ t \in Seq(Keys) /\ Len(t) = Len(s) + 1
      /\ \A i \in 1..p : t[i] = c[i]
      /\ \A i \in 1..(Len(s) + 1) : i > p => t[i] = b[i - p]
  <2>1. Len(c) + Len(b) = Len(s) + 1
    BY <1>2, <1>4
  <2>2. t \in Seq(Keys) /\ Len(t) = Len(s) + 1
    BY <1>2, <1>4, <2>1
  <2>3. \A i \in 1..p : t[i] = c[i]
    BY <1>2, <1>4, <2>1
  <2>4. \A i \in 1..(Len(s) + 1) : i > p => t[i] = b[i - p]
    BY <1>2, <1>4, <2>1
  <2> QED
    BY <2>2, <2>3, <2>4
<1> HIDE DEF t
<1>6. ASSUME NEW i \in 1..(Len(s) + 1)
      PROVE  t[i] = k \/ \E j \in 1..Len(s) : t[i] = s[j]
  <2>1. CASE i < p
    <3>1. t[i] = s[i] /\ i \in 1..Len(s)
      BY <1>1, <1>4, <1>5, <2>1
    <3> QED
      BY <3>1
  <2>2. CASE i = p
    BY <1>4, <1>5, <2>2
  <2>3. CASE i > p
    <3>1. t[i] = b[i - p]
      BY <1>5, <2>3
    <3>2. i - p \in 1..(Len(s) - p + 1) /\ i - 1 \in 1..Len(s) /\ p + (i - p) - 1 = i - 1
      BY <2>3
    <3>3. b[i - p] = s[i - 1]
      BY <1>2, <3>2
    <3> QED
      BY <3>1, <3>2, <3>3
  <2> QED
    BY <2>1, <2>2, <2>3
<1> QED
  BY <1>3, <1>5, <1>6

\* setConnection adds its row and no other, wherever the store lists it.
LEMMA InsertedHas ==
    ASSUME Keyed(rows), NEW k \in Keys
    PROVE  /\ Keyed(Inserted(k))
           /\ \A i \in DOMAIN Inserted(k) :
                 Inserted(k)[i] = k \/ \E j \in DOMAIN rows : Inserted(k)[i] = rows[j]
<1> DEFINE I == {i \in 1..Len(rows) : Before(k, rows[i])}
           after == SelectInSeq(rows, LAMBDA x : Before(k, x))
<1>1. after = IF I # {} THEN Min(I) ELSE 0
  BY DEF SelectInSeq
<1>2. Inserted(k) = IF after = 0 THEN Append(rows, k) ELSE InsertAt(rows, after, k)
  BY DEF Inserted
<1>3. I \in SUBSET (1..Len(rows)) /\ rows \in Seq(Keys)
  BY DEF Keyed
<1> HIDE DEF I, after
<1>4. after = 0 \/ after \in 1..Len(rows)
  <2>1. I # {} => Min(I) \in I
    BY <1>3, MinFound
  <2> QED
    BY <1>1, <1>3, <2>1
<1>5. CASE after = 0
  BY <1>2, <1>3, <1>5 DEF Keyed
<1>6. CASE after \in 1..Len(rows)
  <2>1. Inserted(k) = InsertAt(rows, after, k)
    BY <1>2, <1>6
  <2> QED
    BY <1>3, <1>6, <2>1, InsertAtHas DEF Keyed
<1> QED
  BY <1>4, <1>5, <1>6

-----------------------------------------------------------------------------
(* Which connection a request finds *)

Conns == [dedicated : BOOLEAN, revoked : BOOLEAN]

\* The connections, in memory and in the store.
ConnsTyped ==
    /\ Keyed(mem) /\ Keyed(rows)
    /\ info \in [Keys -> Conns] /\ row \in [Keys -> Conns]
    /\ revoking \in SUBSET Keys /\ crashes \in Nat

Places == Resting \cup {"waiting", "storing", "relays", "flagging"}

\* The requests.
ReqsTyped ==
    /\ at \in [Requests -> Places]
    /\ before \in [Requests -> SUBSET Keys]
    /\ found \in [Requests -> Keys \cup {None}]

\* No key of a request is there before its handler has made it.
Fresh ==
    \A r \in Requests : at[r] \in {"idle", "waiting"} => Lacks(mem, r) /\ Lacks(rows, r)

\* While a handler waits for the store and the relays its own key is the first
\* in memory that was not there when it looked, whoever else has added one.
Own ==
    \A r \in Requests : at[r] \in {"storing", "relays"} =>
        /\ r \notin before[r]
        /\ \E i \in DOMAIN mem : mem[i] = r /\ \A j \in 1..(i - 1) : mem[j] \in before[r]

FoundOwn == \A r \in Requests : at[r] \in {"flagging", "answered"} => found[r] = r

KeyInv ==
    ConnsTyped /\ ReqsTyped /\ Fresh /\ Own /\ FoundOwn /\ ReplyIsOwnKey /\ HandedOutIsDedicated

\* The service starts with connections that no request has made.
LEMMA KeyInit == SrvInit => KeyInv
<1> SUFFICES ASSUME SrvInit PROVE KeyInv
  OBVIOUS
<1>1. PICK order \in SetToSeqs(Initial) : mem = order /\ rows = order
  BY DEF SrvInit
<1>2. order \in Seq(Initial)
  <2>1. Cardinality(Initial) \in Nat
    BY ApiAssumption, FS_CardinalityType
  <2>2. order \in [1..Cardinality(Initial) -> Initial]
    BY DEF SetToSeqs
  <2> QED
    BY <2>1, <2>2
<1>3. Keyed(mem) /\ Keyed(rows)
  BY <1>1, <1>2 DEF Keyed, Keys
<1>4. \A r \in Requests : Lacks(mem, r) /\ Lacks(rows, r)
  BY <1>1, <1>2, ApiAssumption DEF Lacks
<1>5. /\ info \in [Keys -> Conns] /\ row \in [Keys -> Conns]
      /\ revoking \in SUBSET Keys /\ crashes \in Nat
  BY DEF SrvInit, Conns, Blank
<1>6. ReqsTyped
  BY DEF SrvInit, ReqsTyped, Places, Resting
<1>7. \A r \in Requests : at[r] = "idle" /\ found[r] = None
  BY DEF SrvInit
<1> QED
  BY <1>3, <1>4, <1>5, <1>6, <1>7
     DEF KeyInv, ConnsTyped, Fresh, Own, FoundOwn, ReplyIsOwnKey, HandedOutIsDedicated

\* A request that comes in waits, is refused, or stands still: whatever changes
\* is neither a connection nor what a handler has noted.
LEMMA KeyComes ==
    ASSUME KeyInv, NEW r \in Requests, at[r] = "idle",
           UNCHANGED <<connVars, before, found, crashes>>,
           at' = at \/ at' = [at EXCEPT ![r] = "waiting"] \/ at' = [at EXCEPT ![r] = "refused"]
    PROVE  KeyInv'
<1> USE DEF connVars
<1>1. ConnsTyped'
  BY DEF KeyInv, ConnsTyped
<1>2. ReqsTyped'
  BY DEF KeyInv, ReqsTyped, Places, Resting
<1>3. \A p \in Requests : at'[p] = at[p] \/ (at[p] = "idle" /\ at'[p] \in {"waiting", "refused"})
  BY DEF KeyInv, ReqsTyped
<1>4. Fresh' /\ Own' /\ FoundOwn' /\ ReplyIsOwnKey' /\ HandedOutIsDedicated'
  BY <1>3 DEF KeyInv, Fresh, Own, FoundOwn, ReplyIsOwnKey, HandedOutIsDedicated
<1> QED
  BY <1>1, <1>2, <1>4 DEF KeyInv

\* A handler enters: its key is new, and is put behind all the keys it notes.
LEMMA KeyEnters ==
    ASSUME KeyInv, NEW r \in Requests, Enter(r)
    PROVE  KeyInv'
<1>1. /\ at[r] = "waiting" /\ before' = [before EXCEPT ![r] = ToSet(mem)]
      /\ mem' = Append(mem, r) /\ at' = [at EXCEPT ![r] = "storing"]
      /\ UNCHANGED <<info, rows, row, revoking, found, crashes>>
  BY DEF Enter, Goto
<1>2. mem \in Seq(Keys) /\ r \in Keys /\ Lacks(mem, r) /\ Lacks(rows, r)
  BY <1>1 DEF KeyInv, ConnsTyped, Keyed, Fresh, Keys
<1>3. /\ mem' \in Seq(Keys) /\ Len(mem') = Len(mem) + 1 /\ mem'[Len(mem) + 1] = r
      /\ \A i \in DOMAIN mem : mem'[i] = mem[i]
  BY <1>1, <1>2
<1>4. ToSet(mem) \in SUBSET Keys /\ r \notin ToSet(mem)
  BY <1>2 DEF ToSet, Lacks
<1>5. /\ at'[r] = "storing" /\ before'[r] = ToSet(mem)
      /\ \A p \in Requests \ {r} : at'[p] = at[p] /\ before'[p] = before[p]
  BY <1>1 DEF KeyInv, ReqsTyped
<1>6. ConnsTyped' /\ ReqsTyped'
  BY <1>1, <1>3, <1>4 DEF KeyInv, ConnsTyped, ReqsTyped, Keyed, Places
<1>7. Fresh'
  <2> SUFFICES ASSUME NEW p \in Requests, at'[p] \in {"idle", "waiting"}
               PROVE  Lacks(mem', p) /\ Lacks(rows', p)
    BY DEF Fresh
  <2>1. p # r /\ at[p] \in {"idle", "waiting"}
    BY <1>5
  <2>2. Lacks(mem, p) /\ Lacks(rows, p)
    BY <2>1 DEF KeyInv, Fresh
  <2> QED
    BY <1>1, <1>2, <1>3, <2>1, <2>2 DEF Lacks
<1>8. Own'
  <2> SUFFICES ASSUME NEW p \in Requests, at'[p] \in {"storing", "relays"}
               PROVE  /\ p \notin before'[p]
                      /\ \E i \in DOMAIN mem' :
                            mem'[i] = p /\ \A j \in 1..(i - 1) : mem'[j] \in before'[p]
    BY DEF Own
  <2>1. CASE p = r
    <3>1. \A j \in 1..Len(mem) : mem'[j] \in ToSet(mem)
      BY <1>2, <1>3 DEF ToSet
    <3>2. Len(mem) + 1 \in DOMAIN mem' /\ (Len(mem) + 1) - 1 = Len(mem)
      BY <1>2, <1>3
    <3> QED
      BY <1>3, <1>4, <1>5, <2>1, <3>1, <3>2
  <2>2. CASE p # r
    <3>1. p \notin before[p] /\ before'[p] = before[p]
      BY <1>5, <2>2 DEF KeyInv, Own
    <3>2. PICK i \in DOMAIN mem : mem[i] = p /\ \A j \in 1..(i - 1) : mem[j] \in before[p]
      BY <1>5, <2>2 DEF KeyInv, Own
    <3>3. i \in DOMAIN mem' /\ \A j \in 1..(i - 1) : j \in DOMAIN mem
      BY <1>2, <1>3
    <3> QED
      BY <1>3, <3>1, <3>2, <3>3
  <2> QED
    BY <2>1, <2>2
<1>9. FoundOwn' /\ ReplyIsOwnKey' /\ HandedOutIsDedicated'
  BY <1>1, <1>5 DEF KeyInv, FoundOwn, ReplyIsOwnKey, HandedOutIsDedicated
<1> QED
  BY <1>6, <1>7, <1>8, <1>9 DEF KeyInv

\* A failure leaves the connections as they are and ends the request.
LEMMA KeyFails ==
    ASSUME KeyInv, NEW r \in Requests, at[r] \in {"storing", "flagging"}, Fail(r),
           UNCHANGED <<info, revoking, before, found, crashes>>
    PROVE  KeyInv'
<1>1. at' = [at EXCEPT ![r] = "failed"] /\ UNCHANGED <<rows, row, mem>>
  BY DEF Fail, Goto
<1>2. \A p \in Requests : at'[p] = "failed" \/ at'[p] = at[p]
  BY <1>1 DEF KeyInv, ReqsTyped
<1>3. ConnsTyped' /\ ReqsTyped'
  BY <1>1 DEF KeyInv, ConnsTyped, ReqsTyped, Places, Resting
<1>4. Fresh' /\ Own' /\ FoundOwn' /\ ReplyIsOwnKey' /\ HandedOutIsDedicated'
  BY <1>1, <1>2 DEF KeyInv, Fresh, Own, FoundOwn, ReplyIsOwnKey, HandedOutIsDedicated
<1> QED
  BY <1>3, <1>4 DEF KeyInv

\* A row is stored: the request's own, which is in memory already.
LEMMA KeyStores ==
    ASSUME KeyInv, NEW r \in Requests, StoreRow(r)
    PROVE  KeyInv'
<1>1. CASE Fail(r)
  BY <1>1, KeyFails DEF StoreRow, rateVars
<1>2. CASE ~Fail(r)
  <2>1. /\ at[r] = "storing" /\ rows' = Inserted(r) /\ row' = [row EXCEPT ![r] = info[r]]
        /\ mem' = IF r \in ToSet(mem) THEN mem ELSE Append(mem, r)
        /\ at' = [at EXCEPT ![r] = "relays"]
        /\ UNCHANGED <<info, revoking, before, found, crashes>>
    BY <1>2 DEF StoreRow, Goto
  <2>2. mem' = mem
    BY <2>1 DEF KeyInv, Own, ToSet
  <2>3. r \in Keys /\ Keyed(rows)
    BY DEF KeyInv, ConnsTyped, Keys
  <2>4. /\ Keyed(rows')
        /\ \A i \in DOMAIN rows' : rows'[i] = r \/ \E j \in DOMAIN rows : rows'[i] = rows[j]
    BY <2>1, <2>3, InsertedHas
  <2>5. ConnsTyped'
    BY <2>1, <2>2, <2>3, <2>4 DEF KeyInv, ConnsTyped
  <2>6. ReqsTyped'
    BY <2>1 DEF KeyInv, ReqsTyped, Places
  <2>7. at'[r] = "relays" /\ \A p \in Requests \ {r} : at'[p] = at[p]
    BY <2>1 DEF KeyInv, ReqsTyped
  <2>8. Fresh'
    BY <2>2, <2>4, <2>7 DEF KeyInv, Fresh, Lacks
  <2>9. Own' /\ FoundOwn' /\ ReplyIsOwnKey'
    BY <2>1, <2>2, <2>7 DEF KeyInv, Own, FoundOwn, ReplyIsOwnKey
  <2>10. HandedOutIsDedicated'
    <3>1. \A p \in Keys \ {r} : row'[p] = row[p]
      BY <2>1 DEF KeyInv, ConnsTyped
    <3> QED
      BY <2>7, <3>1 DEF KeyInv, HandedOutIsDedicated, Keys
  <2> QED
    BY <2>5, <2>6, <2>8, <2>9, <2>10 DEF KeyInv
<1> QED
  BY <1>1, <1>2

\* The loop over the keys in memory stops at the handler's own.
LEMMA FindsOwn ==
    ASSUME KeyInv, NEW r \in Requests, at[r] = "relays"
    PROVE  NewKey(r) = r
<1> DEFINE I == {i \in 1..Len(mem) : mem[i] \notin before[r]}
<1>1. /\ r \notin before[r] /\ mem \in Seq(Keys)
      /\ \E i \in 1..Len(mem) : mem[i] = r /\ \A j \in 1..(i - 1) : mem[j] \in before[r]
  BY DEF KeyInv, Own, ConnsTyped, Keyed
<1>2. PICK i \in 1..Len(mem) : mem[i] = r /\ \A j \in 1..(i - 1) : mem[j] \in before[r]
  BY <1>1
<1>3. i \in I /\ I \in SUBSET Nat
  BY <1>1, <1>2
<1>4. Min(I) \in I /\ Min(I) <= i
  <2> HIDE DEF I
  <2> QED
    BY <1>3, MinFound
<1>5. Min(I) \in 1..Len(mem) /\ ~(Min(I) \in 1..(i - 1))
  BY <1>2, <1>4
<1>6. Min(I) = i
  <2> HIDE DEF I
  <2> QED
    BY <1>1, <1>2, <1>4, <1>5
<1>7. NewKey(r) = mem[Min(I)]
  BY <1>3 DEF NewKey, SelectInSeq
<1> QED
  BY <1>2, <1>6, <1>7

\* The flags go to the request's own connection.
LEMMA KeyFlags ==
    ASSUME KeyInv, NEW r \in Requests, Flag(r)
    PROVE  KeyInv'
<1>1. at[r] = "relays" /\ NewKey(r) = r
  BY FindsOwn DEF Flag
<1>2. /\ found' = [found EXCEPT ![r] = r]
      /\ info' = [info EXCEPT ![r].dedicated = r \notin Shared]
      /\ at' = [at EXCEPT ![r] = "flagging"]
      /\ UNCHANGED <<mem, rows, row, revoking, before, crashes>>
  BY <1>1 DEF Flag, Goto
<1>3. r \in Keys
  BY DEF Keys
<1>4. ConnsTyped' /\ ReqsTyped'
  <2>1. info' \in [Keys -> Conns]
    <3> DEFINE d == r \notin Shared
    <3>1. d \in BOOLEAN /\ info' = [info EXCEPT ![r].dedicated = d]
      BY <1>2
    <3> HIDE DEF d
    <3> QED
      BY <1>3, <3>1 DEF KeyInv, ConnsTyped, Conns
  <2> QED
    BY <1>2, <1>3, <2>1 DEF KeyInv, ConnsTyped, ReqsTyped, Places
<1>5. /\ at'[r] = "flagging" /\ found'[r] = r
      /\ \A p \in Requests \ {r} : at'[p] = at[p] /\ found'[p] = found[p]
  BY <1>2 DEF KeyInv, ReqsTyped
<1>6. Fresh' /\ Own' /\ FoundOwn' /\ ReplyIsOwnKey' /\ HandedOutIsDedicated'
  BY <1>2, <1>5 DEF KeyInv, Fresh, Own, FoundOwn, ReplyIsOwnKey, HandedOutIsDedicated
<1> QED
  BY <1>4, <1>6 DEF KeyInv

\* The reply hands out the connection whose flags have just been stored.
LEMMA KeyReplies ==
    ASSUME KeyInv, NEW r \in Requests, Reply(r)
    PROVE  KeyInv'
<1>1. CASE Fail(r)
  BY <1>1, KeyFails DEF Reply, rateVars
<1>2. CASE ~Fail(r)
  <2>1. /\ at[r] = "flagging" /\ row' = [row EXCEPT ![found[r]].dedicated = r \notin Shared]
        /\ at' = [at EXCEPT ![r] = "answered"]
        /\ UNCHANGED <<rows, mem, info, revoking, before, found, crashes>>
    BY <1>2 DEF Reply, Goto
  <2>2. found[r] = r /\ r \in Keys
    BY <2>1 DEF KeyInv, FoundOwn, Keys
  <2>3. /\ row' \in [Keys -> Conns] /\ row'[r].dedicated = (r \notin Shared)
        /\ \A p \in Keys \ {r} : row'[p] = row[p]
    <3> DEFINE d == r \notin Shared
    <3>1. d \in BOOLEAN /\ row' = [row EXCEPT ![r].dedicated = d]
      BY <2>1, <2>2
    <3>2. row \in [Keys -> Conns]
      BY DEF KeyInv, ConnsTyped
    <3> HIDE DEF d
    <3>3. /\ row' \in [Keys -> Conns] /\ row'[r].dedicated = d
          /\ \A p \in Keys \ {r} : row'[p] = row[p]
      BY <2>2, <3>1, <3>2 DEF Conns
    <3> QED
      BY <3>3 DEF d
  <2>4. ConnsTyped' /\ ReqsTyped'
    BY <2>1, <2>3 DEF KeyInv, ConnsTyped, ReqsTyped, Places, Resting
  <2>5. at'[r] = "answered" /\ \A p \in Requests \ {r} : at'[p] = at[p]
    BY <2>1 DEF KeyInv, ReqsTyped
  <2>6. Fresh' /\ Own' /\ FoundOwn' /\ ReplyIsOwnKey'
    BY <2>1, <2>2, <2>5 DEF KeyInv, Fresh, Own, FoundOwn, ReplyIsOwnKey
  <2>7. HandedOutIsDedicated'
    <3> SUFFICES ASSUME NEW p \in Requests \ Shared, at'[p] = "answered"
                 PROVE  row'[p].dedicated
      BY DEF HandedOutIsDedicated
    <3>1. CASE p = r
      BY <2>3, <3>1
    <3>2. CASE p # r
      BY <2>3, <2>5, <3>2 DEF KeyInv, HandedOutIsDedicated, Keys
    <3> QED
      BY <3>1, <3>2
  <2> QED
    BY <2>4, <2>6, <2>7 DEF KeyInv
<1> QED
  BY <1>1, <1>2

\* Revoking touches neither the keys nor the flag that keeps them apart.
LEMMA KeyRevokes ==
    ASSUME KeyInv, NEW k \in Keys, Delete(k) \/ RevokeStored(k)
    PROVE  KeyInv'
<1>1. /\ UNCHANGED <<mem, rows, reqVars, crashes>>
      /\ revoking' \in SUBSET Keys
  BY DEF Delete, RevokeStored, KeyInv, ConnsTyped
<1>2. info' \in [Keys -> Conns]
  BY DEF Delete, RevokeStored, KeyInv, ConnsTyped, Conns
<1>3. row' \in [Keys -> Conns] /\ \A p \in Keys : row'[p].dedicated = row[p].dedicated
  <2>1. row \in [Keys -> Conns]
    BY DEF KeyInv, ConnsTyped
  <2>2. CASE row' = row
    BY <2>1, <2>2
  <2>3. CASE row' = [row EXCEPT ![k].revoked = k \in ToSet(rows)]
    <3> DEFINE d == k \in ToSet(rows)
    <3>1. d \in BOOLEAN /\ row' = [row EXCEPT ![k].revoked = d]
      BY <2>3
    <3> HIDE DEF d
    <3> QED
      BY <2>1, <3>1 DEF Conns
  <2> QED
    BY <2>2, <2>3 DEF Delete, RevokeStored
<1>4. ConnsTyped' /\ ReqsTyped'
  BY <1>1, <1>2, <1>3 DEF KeyInv, ConnsTyped, ReqsTyped, reqVars
<1>5. Fresh' /\ Own' /\ FoundOwn' /\ ReplyIsOwnKey' /\ HandedOutIsDedicated'
  BY <1>1, <1>3 DEF KeyInv, Fresh, Own, FoundOwn, ReplyIsOwnKey, HandedOutIsDedicated,
                    reqVars, Keys
<1> QED
  BY <1>4, <1>5 DEF KeyInv

\* A restart ends every request that is under way, and reads from the store what
\* requests that are still to come have not put there.
LEMMA KeyRestarts ==
    ASSUME KeyInv, Restart
    PROVE  KeyInv'
<1>1. /\ mem' = rows /\ info' = row /\ revoking' = {} /\ crashes' = crashes + 1
      /\ at' = [r \in Requests |-> IF at[r] \in Resting THEN at[r] ELSE "cut"]
      /\ UNCHANGED <<rows, row, before, found>>
  BY DEF Restart
<1>2. ConnsTyped'
  BY <1>1 DEF KeyInv, ConnsTyped
<1>3. \A r \in Requests : at'[r] \in Resting /\ (at'[r] = at[r] \/ at'[r] = "cut")
  BY <1>1 DEF Resting
<1>4. ReqsTyped'
  BY <1>1, <1>3 DEF KeyInv, ReqsTyped, Places
<1>5. Fresh' /\ Own' /\ FoundOwn' /\ ReplyIsOwnKey' /\ HandedOutIsDedicated'
  BY <1>1, <1>3 DEF KeyInv, Fresh, Own, FoundOwn, ReplyIsOwnKey, HandedOutIsDedicated, Resting
<1> QED
  BY <1>2, <1>4, <1>5 DEF KeyInv

\* Every step of the service and of the operator keeps the invariant.
LEMMA KeyStep ==
    ASSUME KeyInv, [SrvNext \/ Operator]_srvVars
    PROVE  KeyInv'
<1>1. CASE UNCHANGED <<connVars, reqVars, crashes>>
  BY <1>1 DEF connVars, reqVars, KeyInv, ConnsTyped, ReqsTyped, Fresh, Own, FoundOwn,
              ReplyIsOwnKey, HandedOutIsDedicated
<1>2. ASSUME NEW r \in Links, Connect(r) PROVE KeyInv'
  <2>1. /\ r \in Requests /\ at[r] = "idle" /\ UNCHANGED <<connVars, before, found, crashes>>
        /\ at' = [at EXCEPT ![r] = "waiting"] \/ at' = [at EXCEPT ![r] = "refused"]
    BY <1>2 DEF Connect, Goto, Requests
  <2> QED
    BY <2>1, KeyComes
<1>3. ASSUME NEW r \in Creates, Create(r) PROVE KeyInv'
  <2>1. /\ r \in Requests /\ at[r] = "idle" /\ UNCHANGED <<connVars, before, found, crashes>>
        /\ at' = [at EXCEPT ![r] = "waiting"]
    BY <1>3 DEF Create, Goto, Requests
  <2> QED
    BY <2>1, KeyComes
<1>4. ASSUME NEW r \in Requests, Handler(r) PROVE KeyInv'
  BY <1>4, KeyEnters, KeyStores, KeyFlags, KeyReplies DEF Handler
<1>5. ASSUME NEW k \in Keys, Delete(k) \/ RevokeStored(k) PROVE KeyInv'
  BY <1>5, KeyRevokes
<1>6. CASE Restart
  BY <1>6, KeyRestarts
<1>7. CASE Tick \/ Sweep
  BY <1>1, <1>7 DEF Tick, Sweep
<1>8. CASE UNCHANGED srvVars
  BY <1>1, <1>8 DEF srvVars
<1> QED
  BY <1>2, <1>3, <1>4, <1>5, <1>6, <1>7, <1>8 DEF SrvNext, Operator

\* No reply, flag or limit is given for another request's connection: the key
\* that the handler finds by comparing keys is its own, although the operator's
\* and the deep link's requests hold different locks and restarts may fall
\* between any two of its steps.
THEOREM ReplyIsOwnKeyTheorem == SrvSpec => []ReplyIsOwnKey
<1>1. KeyInv /\ [SrvNext \/ Operator]_srvVars => KeyInv'
  BY KeyStep
<1>2. KeyInv => ReplyIsOwnKey
  BY DEF KeyInv
<1> QED
  BY KeyInit, <1>1, <1>2, PTL DEF SrvSpec

\* A connection that was handed out as dedicated is so in the store as well:
\* the reply follows the store, and nothing after it takes the flag away.
THEOREM HandedOutIsDedicatedTheorem == SrvSpec => []HandedOutIsDedicated
<1>1. KeyInv /\ [SrvNext \/ Operator]_srvVars => KeyInv'
  BY KeyStep
<1>2. KeyInv => HandedOutIsDedicated
  BY DEF KeyInv
<1> QED
  BY KeyInit, <1>1, <1>2, PTL DEF SrvSpec

-----------------------------------------------------------------------------
(* The locks *)

Held == {"storing", "relays", "flagging"}
Locks == {"api", "link"}

\* In a lock's queue each request that waits for it or holds it is found once,
\* and the one that holds it is first.
LockInv ==
    /\ queue \in [Locks -> Seq(Requests)]
    /\ at \in [Requests -> Places]
    /\ \A l \in Locks : \A i \in DOMAIN queue[l] : Lock(queue[l][i]) = l
    /\ \A l \in Locks : \A i, j \in DOMAIN queue[l] : queue[l][i] = queue[l][j] => i = j
    /\ \A r \in Requests :
          at[r] \in Held \cup {"waiting"} <=> \E i \in DOMAIN queue[Lock(r)] : queue[Lock(r)][i] = r
    /\ \A r \in Requests : at[r] \in Held => queue[Lock(r)][1] = r

\* A request waits for one of the two locks.
LEMMA LockTyped == \A r \in Requests : Lock(r) \in Locks
BY DEF Lock, Locks

\* Nobody holds a lock or waits for one when the service starts.
LEMMA LockInit == SrvInit => LockInv
<1> SUFFICES ASSUME SrvInit PROVE LockInv
  OBVIOUS
<1>1. /\ queue = [l \in Locks |-> <<>>] /\ at = [r \in Requests |-> "idle"]
  BY DEF SrvInit, Locks
<1>2. /\ queue \in [Locks -> Seq(Requests)] /\ at \in [Requests -> Places]
      /\ \A l \in Locks : DOMAIN queue[l] = {}
  BY <1>1 DEF Places, Resting
<1> QED
  BY <1>1, <1>2, LockTyped DEF LockInv, Held

\* Who comes goes to the end of his queue.
LEMMA LockWaits ==
    ASSUME LockInv, NEW r \in Requests, at[r] = "idle", Wait(r), Goto(r, "waiting")
    PROVE  LockInv'
<1> DEFINE l == Lock(r)
           s == queue[l]
           t == Append(s, r)
<1>0. l \in Locks
  BY LockTyped
<1>1. s \in Seq(Requests) /\ \A i \in DOMAIN s : s[i] # r
  BY <1>0 DEF LockInv, Held
<1>2. /\ t \in Seq(Requests) /\ Len(t) = Len(s) + 1 /\ t[Len(s) + 1] = r
      /\ DOMAIN t = 1..(Len(s) + 1) /\ DOMAIN s = 1..Len(s)
      /\ \A i \in DOMAIN s : t[i] = s[i]
  BY <1>1
<1>3. /\ queue'[l] = t /\ \A m \in Locks \ {l} : queue'[m] = queue[m]
      /\ at'[r] = "waiting" /\ \A p \in Requests \ {r} : at'[p] = at[p]
      /\ queue' \in [Locks -> Seq(Requests)] /\ at' \in [Requests -> Places]
  <2>1. /\ queue \in [Locks -> Seq(Requests)] /\ at \in [Requests -> Places]
        /\ queue' = [queue EXCEPT ![l] = t] /\ at' = [at EXCEPT ![r] = "waiting"]
    BY DEF LockInv, Wait, Goto
  <2> HIDE DEF l, t
  <2> QED
    BY <1>0, <1>2, <2>1 DEF Places
<1>4. \A p \in Requests : p # r /\ Lock(p) = l =>
         ((\E i \in DOMAIN t : t[i] = p) <=> \E i \in DOMAIN s : s[i] = p)
  <2> HIDE DEF l, s, t
  <2> QED
    BY <1>1, <1>2
<1>5. \A m \in Locks : \A i \in DOMAIN queue'[m] : Lock(queue'[m][i]) = m
  <2>1. ASSUME NEW i \in DOMAIN t PROVE Lock(t[i]) = l
    <3>1. CASE i \in DOMAIN s
      BY <1>0, <1>2, <3>1 DEF LockInv
    <3>2. CASE i = Len(s) + 1
      BY <1>2, <3>2
    <3> QED
      BY <1>1, <1>2, <2>1, <3>1, <3>2
  <2>2. \A m \in Locks \ {l} : \A i \in DOMAIN queue[m] : Lock(queue[m][i]) = m
    BY DEF LockInv
  <2> HIDE DEF l, s, t
  <2> QED
    BY <1>0, <1>3, <2>1, <2>2
<1>6. \A m \in Locks : \A i, j \in DOMAIN queue'[m] : queue'[m][i] = queue'[m][j] => i = j
  <2>1. \A i, j \in DOMAIN s : s[i] = s[j] => i = j
    BY <1>0 DEF LockInv
  <2>2. \A i, j \in DOMAIN t : t[i] = t[j] => i = j
    <3> HIDE DEF l, s, t
    <3> QED
      BY <1>1, <1>2, <2>1
  <2>3. \A m \in Locks \ {l} : \A i, j \in DOMAIN queue[m] : queue[m][i] = queue[m][j] => i = j
    BY DEF LockInv
  <2> HIDE DEF l, s, t
  <2> QED
    BY <1>0, <1>3, <2>2, <2>3
<1>7. \A p \in Requests :
         at'[p] \in Held \cup {"waiting"} <=> \E i \in DOMAIN queue'[Lock(p)] : queue'[Lock(p)][i] = p
  <2> SUFFICES ASSUME NEW p \in Requests
               PROVE  at'[p] \in Held \cup {"waiting"}
                         <=> \E i \in DOMAIN queue'[Lock(p)] : queue'[Lock(p)][i] = p
    OBVIOUS
  <2>0. Lock(p) \in Locks
    BY LockTyped
  <2>1. CASE p = r
    BY <1>1, <1>2, <1>3, <2>1
  <2>2. CASE p # r /\ Lock(p) = l
    <3>1. at[p] \in Held \cup {"waiting"} <=> \E i \in DOMAIN s : s[i] = p
      BY <2>2 DEF LockInv
    <3>2. at'[p] = at[p] /\ queue'[Lock(p)] = t
      BY <1>3, <2>2
    <3>3. (\E i \in DOMAIN t : t[i] = p) <=> \E i \in DOMAIN s : s[i] = p
      BY <1>4, <2>2
    <3> HIDE DEF l, s, t
    <3> QED
      BY <3>1, <3>2, <3>3
  <2>3. CASE p # r /\ Lock(p) # l
    BY <1>3, <2>0, <2>3 DEF LockInv
  <2> QED
    BY <2>1, <2>2, <2>3
<1>8. \A p \in Requests : at'[p] \in Held => queue'[Lock(p)][1] = p
  <2> SUFFICES ASSUME NEW p \in Requests, at'[p] \in Held PROVE queue'[Lock(p)][1] = p
    OBVIOUS
  <2>0. /\ p # r /\ at[p] \in Held /\ Lock(p) \in Locks
        /\ queue[Lock(p)][1] = p
        /\ \E i \in DOMAIN queue[Lock(p)] : queue[Lock(p)][i] = p
    BY <1>3, LockTyped DEF LockInv, Held
  <2>1. CASE Lock(p) = l
    <3>1. 1 \in DOMAIN s
      BY <1>1, <1>2, <2>0, <2>1
    <3> QED
      BY <1>2, <1>3, <2>0, <2>1, <3>1
  <2>2. CASE Lock(p) # l
    BY <1>3, <2>0, <2>2
  <2> QED
    BY <2>1, <2>2
<1> QED
  BY <1>3, <1>5, <1>6, <1>7, <1>8 DEF LockInv

\* Who holds a lock goes on while he holds it.
LEMMA LockMoves ==
    ASSUME LockInv, NEW r \in Requests, NEW s \in Held, Goto(r, s), UNCHANGED queue,
           \/ at[r] \in Held
           \/ at[r] = "waiting" /\ Head(queue[Lock(r)]) = r
    PROVE  LockInv'
<1>1. /\ at'[r] = s /\ \A p \in Requests \ {r} : at'[p] = at[p]
      /\ at' \in [Requests -> Places]
  BY DEF LockInv, Goto, Places, Held
<1>2. queue[Lock(r)][1] = r
  <2>1. CASE at[r] \in Held
    BY <2>1 DEF LockInv
  <2>2. CASE Head(queue[Lock(r)]) = r
    BY <2>2, LockTyped DEF LockInv
  <2> QED
    BY <2>1, <2>2
<1>3. at[r] \in Held \cup {"waiting"}
  OBVIOUS
<1> QED
  BY <1>1, <1>2, <1>3 DEF LockInv

\* Who leaves a lock gives it to the next in its queue.
LEMMA LockLeaves ==
    ASSUME LockInv, NEW r \in Requests, at[r] \in Held, NEW s \in Resting,
           Goto(r, s), Release(r)
    PROVE  LockInv'
<1> DEFINE l == Lock(r)
           q == queue[l]
           t == Tail(q)
<1>0. l \in Locks
  BY LockTyped
<1>1. /\ q \in Seq(Requests) /\ 1 \in DOMAIN q /\ q[1] = r
      /\ \A i, j \in DOMAIN q : q[i] = q[j] => i = j
  <2>1. q \in Seq(Requests) /\ q[1] = r /\ \E i \in DOMAIN q : q[i] = r
    BY <1>0 DEF LockInv
  <2>2. \A i, j \in DOMAIN q : q[i] = q[j] => i = j
    BY <1>0 DEF LockInv
  <2> QED
    BY <2>1, <2>2
<1>2. /\ t \in Seq(Requests) /\ DOMAIN t = 1..(Len(q) - 1) /\ DOMAIN q = 1..Len(q)
      /\ Len(q) \in Nat
      /\ \A i \in DOMAIN t : t[i] = q[i + 1]
  BY <1>1
<1>3. /\ queue'[l] = t /\ \A m \in Locks \ {l} : queue'[m] = queue[m]
      /\ at'[r] = s /\ \A p \in Requests \ {r} : at'[p] = at[p]
      /\ queue' \in [Locks -> Seq(Requests)] /\ at' \in [Requests -> Places]
  <2>1. /\ queue \in [Locks -> Seq(Requests)] /\ at \in [Requests -> Places]
        /\ queue' = [queue EXCEPT ![l] = t] /\ at' = [at EXCEPT ![r] = s]
    BY DEF LockInv, Release, Goto
  <2> HIDE DEF l, t
  <2> QED
    BY <1>0, <1>2, <2>1 DEF Places
<1>4. /\ \A i \in DOMAIN t : t[i] # r
      /\ \A p \in Requests : p # r =>
            ((\E i \in DOMAIN t : t[i] = p) <=> \E i \in DOMAIN q : q[i] = p)
  <2> HIDE DEF q, t
  <2>1. \A i \in DOMAIN t : i + 1 \in DOMAIN q /\ i + 1 # 1
    BY <1>2
  <2>2. \A i \in DOMAIN t : t[i] # r
    BY <1>1, <1>2, <2>1
  <2>3. \A i \in DOMAIN q : i # 1 => i - 1 \in DOMAIN t /\ (i - 1) + 1 = i
    BY <1>2
  <2>4. ASSUME NEW p \in Requests, p # r, NEW i \in DOMAIN q, q[i] = p
        PROVE  \E j \in DOMAIN t : t[j] = p
    <3>1. i # 1
      BY <1>1, <2>4
    <3>2. t[i - 1] = q[i]
      BY <1>2, <2>3, <3>1
    <3> QED
      BY <2>3, <2>4, <3>1, <3>2
  <2> QED
    BY <1>2, <2>1, <2>2, <2>4
<1>5. \A m \in Locks : \A i \in DOMAIN queue'[m] : Lock(queue'[m][i]) = m
  <2>1. \A i \in DOMAIN t : i + 1 \in DOMAIN q
    BY <1>2
  <2>2. \A i \in DOMAIN t : Lock(t[i]) = l
    BY <1>0, <1>2, <2>1 DEF LockInv
  <2>3. \A m \in Locks \ {l} : \A i \in DOMAIN queue[m] : Lock(queue[m][i]) = m
    BY DEF LockInv
  <2> HIDE DEF l, q, t
  <2> QED
    BY <1>0, <1>3, <2>2, <2>3
<1>6. \A m \in Locks : \A i, j \in DOMAIN queue'[m] : queue'[m][i] = queue'[m][j] => i = j
  <2>1. \A i, j \in DOMAIN t : t[i] = t[j] => i = j
    <3> HIDE DEF q, t
    <3> QED
      BY <1>1, <1>2
  <2>2. \A m \in Locks \ {l} : \A i, j \in DOMAIN queue[m] : queue[m][i] = queue[m][j] => i = j
    BY DEF LockInv
  <2> HIDE DEF l, q, t
  <2> QED
    BY <1>0, <1>3, <2>1, <2>2
<1>7. \A p \in Requests :
         at'[p] \in Held \cup {"waiting"} <=> \E i \in DOMAIN queue'[Lock(p)] : queue'[Lock(p)][i] = p
  <2> SUFFICES ASSUME NEW p \in Requests
               PROVE  at'[p] \in Held \cup {"waiting"}
                         <=> \E i \in DOMAIN queue'[Lock(p)] : queue'[Lock(p)][i] = p
    OBVIOUS
  <2>0. Lock(p) \in Locks
    BY LockTyped
  <2>1. CASE p = r
    BY <1>3, <1>4, <2>1 DEF Held, Resting
  <2>2. CASE p # r /\ Lock(p) = l
    <3>1. at[p] \in Held \cup {"waiting"} <=> \E i \in DOMAIN q : q[i] = p
      BY <2>2 DEF LockInv
    <3>2. at'[p] = at[p] /\ queue'[Lock(p)] = t
      BY <1>3, <2>2
    <3>3. (\E i \in DOMAIN t : t[i] = p) <=> \E i \in DOMAIN q : q[i] = p
      BY <1>4, <2>2
    <3> HIDE DEF l, q, t
    <3> QED
      BY <3>1, <3>2, <3>3
  <2>3. CASE p # r /\ Lock(p) # l
    BY <1>3, <2>0, <2>3 DEF LockInv
  <2> QED
    BY <2>1, <2>2, <2>3
<1>8. \A p \in Requests : at'[p] \in Held => queue'[Lock(p)][1] = p
  <2> SUFFICES ASSUME NEW p \in Requests, at'[p] \in Held PROVE queue'[Lock(p)][1] = p
    OBVIOUS
  <2>0. p # r /\ at[p] \in Held /\ Lock(p) \in Locks /\ queue[Lock(p)][1] = p
    BY <1>3, LockTyped DEF LockInv, Held, Resting
  <2>1. Lock(p) # l
    BY <1>1, <2>0
  <2> QED
    BY <1>3, <2>0, <2>1
<1> QED
  BY <1>3, <1>5, <1>6, <1>7, <1>8 DEF LockInv

\* A request that is refused has never been in a queue.
LEMMA LockRefuses ==
    ASSUME LockInv, NEW r \in Requests, at[r] = "idle", Goto(r, "refused"), UNCHANGED queue
    PROVE  LockInv'
<1>1. /\ at'[r] = "refused" /\ \A p \in Requests \ {r} : at'[p] = at[p]
      /\ at' \in [Requests -> Places]
  BY DEF LockInv, Goto, Places, Resting
<1> QED
  BY <1>1 DEF LockInv, Held

\* Every step keeps the queues: whoever is let in stands in one until he leaves.
LEMMA LockStep ==
    ASSUME LockInv, [SrvNext \/ Operator]_srvVars
    PROVE  LockInv'
<1>1. CASE UNCHANGED <<at, queue>>
  BY <1>1 DEF LockInv
<1>2. ASSUME NEW r \in Links, Connect(r) PROVE LockInv'
  <2>1. /\ r \in Requests /\ at[r] = "idle"
        /\ \/ Wait(r) /\ Goto(r, "waiting")
           \/ Goto(r, "refused") /\ UNCHANGED queue
    BY <1>2 DEF Connect, Requests
  <2> QED
    BY <2>1, LockWaits, LockRefuses
<1>3. ASSUME NEW r \in Creates, Create(r) PROVE LockInv'
  BY <1>3, LockWaits DEF Create, Requests
<1>4. ASSUME NEW r \in Requests, Enter(r) PROVE LockInv'
  <2>1. /\ at[r] = "waiting" /\ Head(queue[Lock(r)]) = r /\ "storing" \in Held
        /\ Goto(r, "storing") /\ UNCHANGED queue
    BY <1>4 DEF Enter, Held
  <2> QED
    BY <2>1, LockMoves
<1>5. ASSUME NEW r \in Requests, StoreRow(r) PROVE LockInv'
  <2>1. /\ at[r] \in Held /\ "relays" \in Held /\ "failed" \in Resting
        /\ \/ Goto(r, "relays") /\ UNCHANGED queue
           \/ Goto(r, "failed") /\ Release(r)
    BY <1>5 DEF StoreRow, Fail, Held, Resting
  <2> QED
    BY <2>1, LockMoves, LockLeaves
<1>6. ASSUME NEW r \in Requests, Flag(r) PROVE LockInv'
  <2>1. /\ at[r] \in Held /\ "flagging" \in Held
        /\ Goto(r, "flagging") /\ UNCHANGED queue
    BY <1>6 DEF Flag, Held
  <2> QED
    BY <2>1, LockMoves
<1>7. ASSUME NEW r \in Requests, Reply(r) PROVE LockInv'
  <2>1. /\ at[r] \in Held /\ "answered" \in Resting /\ "failed" \in Resting
        /\ Release(r) /\ (Goto(r, "answered") \/ Goto(r, "failed"))
    BY <1>7 DEF Reply, Fail, Held, Resting
  <2> QED
    BY <2>1, LockLeaves
<1>8. CASE Restart
  <2>1. /\ at' = [r \in Requests |-> IF at[r] \in Resting THEN at[r] ELSE "cut"]
        /\ queue' = [l \in Locks |-> <<>>]
    BY <1>8 DEF Restart, Locks
  <2>2. \A r \in Requests : at'[r] \in Resting
    BY <2>1 DEF Resting
  <2>3. at' \in [Requests -> Places] /\ queue' \in [Locks -> Seq(Requests)]
        /\ \A l \in Locks : DOMAIN queue'[l] = {}
    BY <2>1, <2>2 DEF Places
  <2> QED
    BY <2>1, <2>2, <2>3, LockTyped DEF LockInv, Held, Resting
<1>9. CASE (\E k \in Keys : Delete(k) \/ RevokeStored(k)) \/ Tick \/ Sweep \/ UNCHANGED srvVars
  BY <1>1, <1>9 DEF Delete, RevokeStored, Tick, Sweep, srvVars, reqVars
<1> QED
  BY <1>2, <1>3, <1>4, <1>5, <1>6, <1>7, <1>8, <1>9 DEF SrvNext, Operator, Handler

\* Of the requests that wait for the same lock at most one is between the note
\* of the keys there are and its reply.
OneInside ==
    \A r, p \in Requests : at[r] \in Held /\ at[p] \in Held /\ Lock(r) = Lock(p) => r = p

\* connectLock and deeplinkLock, promises that each request chains to the one
\* before, exclude: no failure, refusal or restart lets two requests in.
THEOREM OneInsideTheorem == SrvSpec => []OneInside
<1>1. LockInv /\ [SrvNext \/ Operator]_srvVars => LockInv'
  BY LockStep
<1>2. LockInv => OneInside
  BY DEF LockInv, OneInside
<1> QED
  BY LockInit, <1>1, <1>2, PTL DEF SrvSpec

\* In every reachable state the service's variables are well typed: no index is
\* taken of a list that does not have it, no entry of an empty queue.
THEOREM SrvTypeCorrect == SrvSpec => []SrvTypeOK
<1>1. RateInv /\ KeyInv /\ LockInv /\ [SrvNext \/ Operator]_srvVars
        => RateInv' /\ KeyInv' /\ LockInv'
  BY RateStep, KeyStep, LockStep
<1>2. RateInv /\ KeyInv /\ LockInv => SrvTypeOK
  BY DEF RateInv, RateTyped, KeyInv, ConnsTyped, ReqsTyped, LockInv, SrvTypeOK, Keyed,
         Conns, Places, Locks
<1> QED
  BY RateInit, KeyInit, LockInit, <1>1, <1>2, PTL DEF SrvSpec

-----------------------------------------------------------------------------
(* The console *)

\* The console is one of the operators: it does to the service nothing that the
\* service's own specification does not allow.
THEOREM ConsoleUsesService == Spec => SrvSpec
<1>1. Init => SrvInit
  BY DEF Init
<1>2. [Next]_vars => [SrvNext \/ Operator]_srvVars
  <2> SUFFICES ASSUME [Next]_vars PROVE [SrvNext \/ Operator]_srvVars
    OBVIOUS
  <2>1. CASE UNCHANGED vars
    BY <2>1 DEF vars
  <2>2. CASE Service
    BY <2>2 DEF Service
  <2>3. CASE \E r \in Creates : WizardCreate(r)
    BY <2>3 DEF WizardCreate, Operator
  <2>4. CASE (\E f \in Fetches : Fetch(f) \/ Arrive(f)) \/ Reload \/ CloseRevoke
    BY <2>4 DEF Fetch, Arrive, Reload, CloseRevoke
  <2>5. CASE \E i \in DOMAIN view : OpenRevoke(i) \/ OpenString(i)
    BY <2>5 DEF OpenRevoke, OpenString
  <2>6. CASE ConfirmRevoke
    <3>1. Delete(RevokeTarget) /\ RevokeTarget \in Keys
      BY <2>6, ApiAssumption DEF ConfirmRevoke, Delete
    <3> QED
      BY <3>1 DEF Operator
  <2>7. CASE \E k \in Keys : StringArrives(k)
    BY <2>7 DEF StringArrives
  <2> QED
    BY <2>1, <2>2, <2>3, <2>4, <2>5, <2>6, <2>7 DEF Next
<1> QED
  BY <1>1, <1>2, PTL DEF Spec, SrvSpec

\* What the store or a write on its way knows to be revoked is so in memory.
RevokedFirst ==
    /\ \A k \in Keys : row[k].revoked => info[k].revoked
    /\ \A k \in revoking : info[k].revoked

\* Revocation happens in memory first.
LEMMA StaysRevokedFirst == SrvSpec => []RevokedFirst
<1>1. SrvInit => RevokedFirst
  BY DEF SrvInit, RevokedFirst
<1>2. KeyInv /\ RevokedFirst /\ [SrvNext \/ Operator]_srvVars => RevokedFirst'
  <2> SUFFICES ASSUME KeyInv, RevokedFirst, [SrvNext \/ Operator]_srvVars PROVE RevokedFirst'
    OBVIOUS
  <2>0. info \in [Keys -> Conns] /\ row \in [Keys -> Conns] /\ revoking \in SUBSET Keys
    BY DEF KeyInv, ConnsTyped
  <2>1. CASE UNCHANGED <<info, row, revoking>>
    BY <2>1 DEF RevokedFirst
  <2>2. ASSUME NEW r \in Requests, StoreRow(r) PROVE RevokedFirst'
    <3>1. row' = row \/ row' = [row EXCEPT ![r] = info[r]]
      BY <2>2 DEF StoreRow, Fail
    <3>2. UNCHANGED <<info, revoking>>
      BY <2>2 DEF StoreRow
    <3> QED
      BY <2>0, <3>1, <3>2 DEF RevokedFirst
  <2>3. ASSUME NEW r \in Requests, Flag(r) PROVE RevokedFirst'
    <3>1. NewKey(r) = r /\ UNCHANGED <<row, revoking>>
      BY <2>3, FindsOwn DEF Flag
    <3>2. info' = [info EXCEPT ![r].dedicated = r \notin Shared]
      BY <2>3, <3>1 DEF Flag
    <3>3. \A k \in Keys : info'[k].revoked = info[k].revoked
      BY <2>0, <3>2 DEF Conns
    <3> QED
      BY <2>0, <3>1, <3>3 DEF RevokedFirst
  <2>4. ASSUME NEW r \in Requests, Reply(r) PROVE RevokedFirst'
    <3>1. row' = row \/ row' = [row EXCEPT ![found[r]].dedicated = r \notin Shared]
      BY <2>4 DEF Reply, Fail
    <3>2. UNCHANGED <<info, revoking>>
      BY <2>4 DEF Reply
    <3>3. \A k \in Keys : row'[k].revoked = row[k].revoked
      BY <2>0, <3>1 DEF Conns
    <3> QED
      BY <3>2, <3>3 DEF RevokedFirst
  <2>5. ASSUME NEW k \in Keys, Delete(k) PROVE RevokedFirst'
    <3>1. /\ info' = [info EXCEPT ![k].revoked = TRUE] /\ row' = row
          /\ revoking' = revoking \cup {k}
      BY <2>5 DEF Delete
    <3>2. info'[k].revoked /\ \A n \in Keys : info[n].revoked => info'[n].revoked
      BY <2>0, <3>1 DEF Conns
    <3> QED
      BY <2>0, <3>1, <3>2 DEF RevokedFirst
  <2>6. ASSUME NEW k \in Keys, RevokeStored(k) PROVE RevokedFirst'
    <3>1. /\ k \in revoking /\ revoking' = revoking \ {k} /\ info' = info
          /\ row' = row \/ row' = [row EXCEPT ![k].revoked = k \in ToSet(rows)]
      BY <2>6 DEF RevokeStored
    <3>2. info[k].revoked
      BY <3>1 DEF RevokedFirst
    <3>3. \A n \in Keys \ {k} : row'[n] = row[n]
      BY <2>0, <3>1
    <3> QED
      BY <3>1, <3>2, <3>3 DEF RevokedFirst
  <2>7. CASE Restart
    BY <2>7 DEF Restart, RevokedFirst
  <2>8. CASE (\E r \in Links : Connect(r)) \/ (\E r \in Creates : Create(r))
    BY <2>1, <2>8 DEF Connect, Create, connVars
  <2>9. CASE (\E r \in Requests : Enter(r)) \/ Tick \/ Sweep \/ UNCHANGED srvVars
    BY <2>1, <2>9 DEF Enter, Tick, Sweep, srvVars, connVars
  <2> QED
    BY <2>2, <2>3, <2>4, <2>5, <2>6, <2>7, <2>8, <2>9 DEF SrvNext, Operator, Handler
<1>3. SrvSpec => []KeyInv
  BY KeyInit, KeyStep, PTL DEF SrvSpec
<1> QED
  BY <1>1, <1>2, <1>3, PTL DEF SrvSpec

\* What RevokeHitsChosen says of one step.
HitsChosen == \A k \in Keys : info'[k].revoked /\ ~info[k].revoked => k = target.key

\* No step of the service by itself revokes a connection.
LEMMA ServiceRevokesNone ==
    ASSUME KeyInv, RevokedFirst, SrvNext, NEW k \in Keys, info'[k].revoked
    PROVE  info[k].revoked
<1>0. info \in [Keys -> Conns]
  BY DEF KeyInv, ConnsTyped
<1>1. ASSUME NEW r \in Requests, Flag(r) PROVE info[k].revoked
  <2>1. info' = [info EXCEPT ![NewKey(r)].dedicated = r \notin Shared]
    BY <1>1 DEF Flag
  <2> QED
    BY <1>0, <2>1 DEF Conns
<1>2. ASSUME NEW r \in Requests, Enter(r) \/ StoreRow(r) \/ Reply(r) PROVE info[k].revoked
  BY <1>2 DEF Enter, StoreRow, Reply
<1>3. CASE Restart
  BY <1>3 DEF Restart, RevokedFirst
<1>4. CASE (\E r \in Links : Connect(r)) \/ Tick \/ Sweep
  BY <1>4 DEF Connect, Tick, Sweep, connVars
<1>5. ASSUME NEW n \in Keys, RevokeStored(n) PROVE info[k].revoked
  BY <1>5 DEF RevokeStored
<1> QED
  BY <1>1, <1>2, <1>3, <1>4, <1>5 DEF SrvNext, Handler

\* The console revokes only the connection its dialog was opened on, whatever
\* lists arrive while it is open, however rows come, go and move in them, and
\* whether the service is restarted: no other step of the service or of the page
\* revokes any.
THEOREM RevokeHitsChosenTheorem == Spec => RevokeHitsChosen
<1>1. ASSUME KeyInv, RevokedFirst, [Next]_vars PROVE [HitsChosen]_vars
  <2> SUFFICES ASSUME Next PROVE HitsChosen
    BY <1>1
  <2> USE DEF HitsChosen
  <2>1. CASE Service
    BY <1>1, <2>1, ServiceRevokesNone DEF Service
  <2>2. CASE \E r \in Creates : WizardCreate(r)
    BY <2>2 DEF WizardCreate, Create, connVars
  <2>3. CASE (\E f \in Fetches : Fetch(f) \/ Arrive(f)) \/ Reload \/ CloseRevoke
    BY <2>3 DEF Fetch, Arrive, Reload, CloseRevoke, srvVars, connVars
  <2>4. CASE \E i \in DOMAIN view : OpenRevoke(i) \/ OpenString(i)
    BY <2>4 DEF OpenRevoke, OpenString, srvVars, connVars
  <2>5. CASE ConfirmRevoke
    <3>1. info' = [info EXCEPT ![target.key].revoked = TRUE]
      BY <2>5 DEF ConfirmRevoke, Delete, RevokeTarget
    <3> QED
      BY <1>1, <3>1 DEF KeyInv, ConnsTyped
  <2>6. CASE \E k \in Keys : StringArrives(k)
    BY <2>6 DEF StringArrives, srvVars, connVars
  <2> QED
    BY <2>1, <2>2, <2>3, <2>4, <2>5, <2>6 DEF Next
<1>2. SrvSpec => []KeyInv
  BY KeyInit, KeyStep, PTL DEF SrvSpec
<1> QED
  BY <1>1, <1>2, StaysRevokedFirst, ConsoleUsesService, PTL DEF Spec, RevokeHitsChosen, HitsChosen
=============================================================================
