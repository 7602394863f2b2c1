---------------------------- MODULE BacklogProofs ----------------------------
(***************************************************************************)
(* Proofs about Backlog, for any heights, rounds up to 99 and messages.    *)
(*                                                                         *)
(* The argument: what is ready comes before what is too early in the order *)
(* of the ranks, with one exception, and rounding to a float32 keeps the   *)
(* order though not strictly.  So the loop, which stops at the first       *)
(* message that is too early, leaves behind only the exception and ties.   *)
(***************************************************************************)
EXTENDS Backlog, TLAPS

\* The units of a float32 between 2^24 and 2^31.
Units == {2, 4, 8, 16, 32, 64, 128}

\* u is the unit at n.
IsUnit(u, n) == n < u * TwoTo24 /\ u * TwoTo24 <= 2 * n

\* n in units of u, to the nearest even.
RoundTo(u, n) ==
  LET rest == 2 * (n % u)
  IN  IF rest < u \/ (rest = u /\ (n \div u) % 2 = 0) THEN (n \div u) * u ELSE ((n \div u) + 1) * u

\* The numbers below 2^31.
Small == {n \in Nat : n < 128 * TwoTo24}

\* Every number up to 2^31 that needs rounding has a unit.
LEMMA UnitExists ==
  ASSUME NEW n \in Small, TwoTo24 <= n
  PROVE  \E u \in Units : IsUnit(u, n)
<1>1. CASE n < 2 * TwoTo24
  <2>1. IsUnit(2, n)  BY <1>1, SMT DEF Small, IsUnit, TwoTo24
  <2> QED  BY <2>1 DEF Units
<1>2. CASE 2 * TwoTo24 <= n /\ n < 4 * TwoTo24
  <2>1. IsUnit(4, n)  BY <1>2, SMT DEF Small, IsUnit, TwoTo24
  <2> QED  BY <2>1 DEF Units
<1>3. CASE 4 * TwoTo24 <= n /\ n < 8 * TwoTo24
  <2>1. IsUnit(8, n)  BY <1>3, SMT DEF Small, IsUnit, TwoTo24
  <2> QED  BY <2>1 DEF Units
<1>4. CASE 8 * TwoTo24 <= n /\ n < 16 * TwoTo24
  <2>1. IsUnit(16, n)  BY <1>4, SMT DEF Small, IsUnit, TwoTo24
  <2> QED  BY <2>1 DEF Units
<1>5. CASE 16 * TwoTo24 <= n /\ n < 32 * TwoTo24
  <2>1. IsUnit(32, n)  BY <1>5, SMT DEF Small, IsUnit, TwoTo24
  <2> QED  BY <2>1 DEF Units
<1>6. CASE 32 * TwoTo24 <= n /\ n < 64 * TwoTo24
  <2>1. IsUnit(64, n)  BY <1>6, SMT DEF Small, IsUnit, TwoTo24
  <2> QED  BY <2>1 DEF Units
<1>7. CASE 64 * TwoTo24 <= n
  <2>1. IsUnit(128, n)  BY <1>7, SMT DEF Small, IsUnit, TwoTo24
  <2> QED  BY <2>1 DEF Units
<1> QED  BY <1>1, <1>2, <1>3, <1>4, <1>5, <1>6, <1>7, SMT DEF Small, TwoTo24

\* A number below 2^24 is kept, and any other rounded to its unit.
LEMMA Rounded ==
  ASSUME NEW n \in Small
  PROVE  /\ n < TwoTo24 => float32(n) = n
         /\ TwoTo24 <= n => \E u \in Units : IsUnit(u, n) /\ float32(n) = RoundTo(u, n)
<1>1. n < TwoTo24 => float32(n) = n
  BY DEF float32
<1>2. ASSUME TwoTo24 <= n
      PROVE  \E u \in Units : IsUnit(u, n) /\ float32(n) = RoundTo(u, n)
  <2> DEFINE unit == CHOOSE u \in Units : IsUnit(u, n)
  <2>1. unit \in Units /\ IsUnit(unit, n)
    BY <1>2, UnitExists
  <2>2. ~(n < TwoTo24)
    BY <1>2, SMT DEF Small, TwoTo24
  <2>3. float32(n) = RoundTo(unit, n)
    BY <2>2 DEF float32, RoundTo, IsUnit, Units
  <2> QED  BY <2>1, <2>3
<1> QED  BY <1>1, <1>2

\* Rounding goes to one of the two neighbours, and keeps the order.
LEMMA RoundToIsNear ==
  ASSUME NEW u \in Units, NEW n \in Small, NEW k \in Small, n <= k
  PROVE  /\ RoundTo(u, n) \in Nat
         /\ RoundTo(u, n) <= RoundTo(u, k)
         /\ \A c \in Nat : n <= c * u => RoundTo(u, n) <= c * u
         /\ \A c \in Nat : c * u <= n => c * u <= RoundTo(u, n)
<1>1. CASE u = 2   BY <1>1, SMTT(60) DEF RoundTo, Small
<1>2. CASE u = 4   BY <1>2, SMTT(60) DEF RoundTo, Small
<1>3. CASE u = 8   BY <1>3, SMTT(60) DEF RoundTo, Small
<1>4. CASE u = 16  BY <1>4, SMTT(60) DEF RoundTo, Small
<1>5. CASE u = 32  BY <1>5, SMTT(60) DEF RoundTo, Small
<1>6. CASE u = 64  BY <1>6, SMTT(60) DEF RoundTo, Small
<1>7. CASE u = 128 BY <1>7, SMTT(60) DEF RoundTo, Small
<1> QED  BY <1>1, <1>2, <1>3, <1>4, <1>5, <1>6, <1>7 DEF Units

\* Rounding keeps the order, but for numbers that become equal.
LEMMA Float32KeepsOrder ==
  ASSUME NEW n \in Small, NEW k \in Small, n <= k
  PROVE  float32(n) <= float32(k)
<1> n \in Nat /\ k \in Nat
  BY DEF Small
<1>1. CASE k < TwoTo24
  <2>1. n < TwoTo24
    BY <1>1, SMT DEF TwoTo24
  <2> QED  BY <1>1, <2>1, Rounded, SMT
<1>2. CASE n < TwoTo24 /\ TwoTo24 <= k
  <2>1. float32(n) = n
    BY <1>2, Rounded
  <2>2. PICK u \in Units : IsUnit(u, k) /\ float32(k) = RoundTo(u, k)
    BY <1>2, Rounded
  <2>3. u \in Nat /\ (TwoTo24 \div 2) * u <= k /\ n <= (TwoTo24 \div 2) * u
    BY <1>2, <2>2, SMT DEF IsUnit, Units, TwoTo24
  <2>4. (TwoTo24 \div 2) * u <= RoundTo(u, k)
    <3>1. TwoTo24 \div 2 \in Nat
      BY SMT DEF TwoTo24
    <3>2. k <= k
      BY SMT
    <3> QED  BY <2>3, <3>1, <3>2, RoundToIsNear
  <2>5. RoundTo(u, k) \in Nat /\ (TwoTo24 \div 2) * u \in Nat
    BY <2>2, <2>3, RoundToIsNear, SMT DEF TwoTo24
  <2> HIDE DEF TwoTo24
  <2> QED  BY <2>1, <2>2, <2>3, <2>4, <2>5, SMT
<1>3. CASE TwoTo24 <= n
  <2>1. TwoTo24 <= k
    BY <1>3, SMT DEF TwoTo24
  <2>2. PICK u \in Units : IsUnit(u, n) /\ float32(n) = RoundTo(u, n)
    BY <1>3, Rounded
  <2>3. PICK w \in Units : IsUnit(w, k) /\ float32(k) = RoundTo(w, k)
    BY <2>1, Rounded
  <2>4. CASE u = w
    BY <2>2, <2>3, <2>4, RoundToIsNear
  <2>5. CASE u # w
    <3>1. /\ u \in Nat /\ w \in Nat
          /\ n <= TwoTo24 * u
          /\ TwoTo24 * u <= (TwoTo24 \div 2) * w
          /\ (TwoTo24 \div 2) * w <= k
      BY <2>2, <2>3, <2>5, SMT DEF IsUnit, Units, TwoTo24
    <3>2. TwoTo24 \in Nat /\ TwoTo24 \div 2 \in Nat
      BY SMT DEF TwoTo24
    <3>3. RoundTo(u, n) <= TwoTo24 * u /\ (TwoTo24 \div 2) * w <= RoundTo(w, k)
      BY <3>1, <3>2, RoundToIsNear
    <3>4. RoundTo(u, n) \in Nat /\ RoundTo(w, k) \in Nat
      BY RoundToIsNear
    <3>5. TwoTo24 * u \in Nat /\ (TwoTo24 \div 2) * w \in Nat
      BY <3>1, <3>2, SMT
    <3> QED  BY <2>2, <2>3, <3>1, <3>3, <3>4, <3>5, SMT
  <2> QED  BY <2>4, <2>5
<1> QED  BY <1>1, <1>2, <1>3, SMT DEF TwoTo24

\* A rounded number is a number.
LEMMA Float32IsNat ==
  ASSUME NEW n \in Small
  PROVE  float32(n) \in Nat
<1> n \in Nat /\ n <= n
  BY SMT DEF Small
<1>1. CASE n < TwoTo24
  BY <1>1, Rounded
<1>2. CASE TwoTo24 <= n
  BY <1>2, Rounded, RoundToIsNear
<1> QED  BY <1>1, <1>2, SMT DEF TwoTo24

-----------------------------------------------------------------------------
\* The messages there may be.
Message == [code : Codes, view : Views]

\* What the lemmas need of a view.
LEMMA ViewType ==
  ASSUME NEW v \in Views
  PROVE  /\ v.sequence \in Nat /\ v.sequence <= 2147482
         /\ v.round \in Nat /\ v.round <= 99
         /\ \A w \in Views : v.sequence = w.sequence /\ v.round = w.round => v = w
<1>1. LastSequence \in Nat /\ LastSequence <= 2147482 /\ MaxRound \in Nat /\ MaxRound <= 99
  BY HeightAssumption, SMT
<1>2. FirstSequence \in Nat
  BY HeightAssumption, SMT
<1>3. /\ v.sequence \in FirstSequence..LastSequence
      /\ v.round \in 0..MaxRound
  BY SMT DEF Views
<1>4. \A w \in Views : v.sequence = w.sequence /\ v.round = w.round => v = w
  BY SMT DEF Views
<1> QED  BY <1>1, <1>2, <1>3, <1>4, SMT

\* The rank of a message has a rounding.
LEMMA RankType ==
  ASSUME NEW m \in Message
  PROVE  Rank(m) \in Small
<1> m.view \in Views /\ m.code \in Codes
  BY DEF Message
<1> QED  BY ViewType, SMT DEF Rank, Small, Codes, msgPriority, TwoTo24

\* Below height 16777 the priority is the rank itself.
LEMMA RankIsExact ==
  ASSUME LastSequence <= 16776, NEW m \in Message
  PROVE  toPriority(m) = Rank(m)
<1> m.view \in Views /\ m.code \in Codes
  BY DEF Message
<1>1. m.view.sequence <= 16776
  BY HeightAssumption, SMT DEF Views
<1>2. Rank(m) < TwoTo24
  BY <1>1, ViewType, SMT DEF Rank, Codes, msgPriority, TwoTo24
<1> QED  BY <1>2, RankType, Rounded DEF toPriority

\* What is ready comes before what is too early, but for a PREPARE and a COMMIT.
LEMMA ReadyFirst ==
  ASSUME NEW m \in Message, NEW f \in Message, NEW v \in Views, NEW s \in States,
         IsReady(m, v, s), IsFuture(f, v, s)
  PROVE  \/ m.code = "PREPARE" /\ f = [code |-> "COMMIT", view |-> m.view]
         \/ Rank(m) < Rank(f)
<1> /\ m.view \in Views /\ m.code \in Codes
    /\ f.view \in Views /\ f.code \in Codes
    /\ f = [code |-> f.code, view |-> f.view]
  BY DEF Message
<1>1. CASE m.view = f.view /\ m.code = "PREPARE" /\ f.code = "COMMIT"
  BY <1>1
<1>2. CASE ~(m.view = f.view /\ m.code = "PREPARE" /\ f.code = "COMMIT")
  <2>1. Rank(m) < Rank(f)
    BY <1>2, ViewType, SMTT(60)
    DEF IsReady, IsFuture, Later, Rank, Codes, States, msgPriority
  <2> QED  BY <2>1
<1> QED  BY <1>1, <1>2

\* No message is both.
LEMMA ReadyOrFuture ==
  ASSUME NEW m \in Message, NEW v \in Views, NEW s \in States
  PROVE  ~(IsReady(m, v, s) /\ IsFuture(m, v, s))
<1> m.view \in Views
  BY DEF Message
<1> QED  BY ViewType, SMT DEF IsReady, IsFuture, Later

-----------------------------------------------------------------------------
\* The state goes forward, within a view and from view to view.
Forward(v, s) ==
  \/ Later(v, view)
  \/ /\ v = view
     /\ \/ state = "AcceptRequest" /\ s = "Preprepared"
        \/ state = "Preprepared" /\ s = "Prepared"
        \/ state = "Prepared" /\ s = "Committed"

\* As the state goes forward, what is too early has been so before.
LEMMA FutureWasFuture ==
  ASSUME TypeOK, NEW v \in Views, NEW s \in States, Forward(v, s),
         NEW m \in Message, IsFuture(m, v, s)
  PROVE  IsFuture(m, view, state)
<1> m.view \in Views /\ m.code \in Codes /\ view \in Views
  BY DEF Message, TypeOK
<1> QED  BY ViewType, SMTT(60) DEF Forward, IsFuture, Later, States

\* startNewRound goes forward.
LEMMA StartsForward ==
  ASSUME NEW v \in Views, view \in Views,
         \/ v.sequence = view.sequence /\ v.round > view.round
         \/ v.sequence > view.sequence /\ v.round = 0
  PROVE  Forward(v, "AcceptRequest")
BY ViewType, SMT DEF Forward, Later

\* The inductive invariant.
IInv == TypeOK /\ FutureIsKept /\ ReadyIsPosted

\* What has arrived is a message.
LEMMA ArrivedAreMessages ==
  ASSUME TypeOK
  PROVE  Messages \subseteq Message /\ arrived \subseteq Message /\ backlog \subseteq Message
BY MessageAssumption, Zenon DEF TypeOK, Message

\* A change of state: whatever was kept or is not too early any more, the queue and the
\* events in flight are again as the invariant has them.
LEMMA SetStateKeepsInv ==
  ASSUME TypeOK, NEW v \in Views, NEW s \in States, NEW inFlight,
         Forward(v, s), SetState(v, s, inFlight),
         arrived \subseteq arrived', arrived' \subseteq Messages, inFlight \subseteq arrived',
         backlog \cap inFlight = {},
         \A x \in arrived' : IsFuture(x, v, s) => x \in backlog \cup inFlight
  PROVE  IInv'
<1> DEFINE future == {m \in backlog : IsFuture(m, v, s)}
<1>1. view' = v /\ state' = s
  BY DEF SetState
<1>2. PICK taken \in SUBSET backlog :
        /\ Taken(v, s, taken)
        /\ backlog' = backlog \ taken
        /\ posted' = inFlight \cup {m \in taken : IsReady(m, v, s)}
  BY DEF SetState, Requeued
<1>3. arrived' \subseteq Message /\ backlog \subseteq Message /\ backlog \subseteq arrived'
  BY ArrivedAreMessages DEF TypeOK
<1>4. TypeOK'
  BY <1>1, <1>2, <1>3 DEF TypeOK
<1>5. future = {} => backlog' = {}
  BY <1>2 DEF Taken
<1>6. taken \cap future = {}
  BY <1>2 DEF Taken
<1>7. FutureIsKept'
  BY <1>1, <1>2, <1>6 DEF FutureIsKept
<1>8. ReadyIsPosted'
  <2> SUFFICES ASSUME NEW m \in backlog', IsReady(m, v, s)
               PROVE  HeldBack(m)'
    BY <1>1 DEF ReadyIsPosted
  <2>1. PICK f \in future : \A x \in backlog : toPriority(x) < toPriority(f) => x \in taken
    BY <1>2, <1>5 DEF Taken
  <2>2. m \in backlog /\ m \notin taken /\ f \in backlog'
    BY <1>2, <1>6, <2>1
  <2>3. m \in Message /\ f \in Message /\ IsFuture(f, v, s)
    BY <1>3, <2>1, <2>2
  <2>4. CASE m.code = "PREPARE" /\ f = [code |-> "COMMIT", view |-> m.view]
    BY <1>1, <2>2, <2>3, <2>4 DEF HeldBack
  <2>5. CASE Rank(m) < Rank(f)
    <3>1. Rank(m) \in Small /\ Rank(f) \in Small
      BY <2>3, RankType
    <3>2. Rank(m) <= Rank(f)
      BY <3>1, <2>5, SMT DEF Small
    <3>3. toPriority(m) <= toPriority(f)
      BY <3>1, <3>2, Float32KeepsOrder DEF toPriority
    <3>4. ~(toPriority(m) < toPriority(f))
      BY <2>1, <2>2
    <3>5. toPriority(m) \in Int /\ toPriority(f) \in Int
      BY <3>1, Float32IsNat DEF toPriority
    <3>6. toPriority(f) = toPriority(m)
      BY <3>3, <3>4, <3>5, SMT
    <3> QED  BY <1>1, <2>2, <2>3, <3>6 DEF HeldBack
  <2> QED  BY <2>3, <2>4, <2>5, ReadyFirst
<1> QED  BY <1>4, <1>7, <1>8 DEF IInv

\* A change of state that another event brings.
LEMMA SameArrivals ==
  ASSUME IInv, NEW v \in Views, NEW s \in States,
         Forward(v, s), SetState(v, s, posted), UNCHANGED arrived
  PROVE  IInv'
<1>1. \A x \in arrived' : IsFuture(x, v, s) => x \in backlog \cup posted
  BY ArrivedAreMessages, FutureWasFuture DEF IInv, FutureIsKept
<1> QED  BY <1>1, SetStateKeepsInv DEF IInv, TypeOK

\* The whole of handleDecodedMessage: m may have just arrived or been an event.
LEMMA HandlingKeepsInv ==
  ASSUME IInv, NEW m \in Messages, NEW inFlight,
         HandleDecodedMessage(m, inFlight),
         arrived' = arrived \cup {m}, posted \ {m} \subseteq inFlight, inFlight \subseteq posted \ {m}
  PROVE  IInv'
<1> USE DEF IInv
<1>1. /\ arrived \subseteq Message /\ backlog \subseteq Message /\ m \in Message
      /\ view \in Views /\ state \in States
      /\ arrived \subseteq arrived' /\ arrived' \subseteq Messages /\ arrived' \subseteq Message
      /\ inFlight \subseteq arrived' /\ backlog \cap inFlight = {}
  BY ArrivedAreMessages DEF TypeOK
<1>2. \A x \in arrived' : x # m /\ IsFuture(x, view, state) => x \in backlog \cup inFlight
  BY DEF FutureIsKept
<1>3. CASE IsFuture(m, view, state)
  <2>1. backlog' = backlog \cup {m} /\ posted' = inFlight /\ UNCHANGED <<view, state>>
    BY <1>1, <1>3, ReadyOrFuture DEF HandleDecodedMessage
  <2>2. TypeOK'
    BY <1>1, <2>1 DEF TypeOK
  <2>3. FutureIsKept'
    BY <1>2, <2>1 DEF FutureIsKept
  <2>4. ReadyIsPosted'
    <3> SUFFICES ASSUME NEW x \in backlog', IsReady(x, view, state)
                 PROVE  HeldBack(x)'
      BY <2>1 DEF ReadyIsPosted
    <3>1. x \in backlog
      BY <1>1, <1>3, <2>1, ReadyOrFuture
    <3>2. HeldBack(x)
      BY <3>1 DEF ReadyIsPosted
    <3> QED  BY <2>1, <3>2 DEF HeldBack
  <2> QED  BY <2>2, <2>3, <2>4
<1>4. CASE ~IsFuture(m, view, state)
  <2>1. \A x \in arrived' : IsFuture(x, view, state) => x \in backlog \cup inFlight
    BY <1>2, <1>4
  <2>2. ASSUME posted' = inFlight, UNCHANGED <<view, state, backlog>>
        PROVE  IInv'
    <3>1. TypeOK'
      BY <1>1, <2>2 DEF TypeOK
    <3>2. FutureIsKept'
      BY <2>1, <2>2 DEF FutureIsKept
    <3>3. ReadyIsPosted'
      BY <2>2 DEF ReadyIsPosted, HeldBack
    <3> QED  BY <3>1, <3>2, <3>3
  <2>3. ASSUME NEW v \in Views, NEW s \in States, Forward(v, s), SetState(v, s, inFlight)
        PROVE  IInv'
    <3>1. \A x \in arrived' : IsFuture(x, v, s) => x \in backlog \cup inFlight
      BY <1>1, <2>1, <2>3, FutureWasFuture
    <3> QED  BY <1>1, <2>3, <3>1, SetStateKeepsInv
  <2>4. CASE IsReady(m, view, state) /\ Effect(m, inFlight)
    <3>1. CASE m.code = "PREPREPARE" /\ SetState(view, "Preprepared", inFlight)
      <4>1. Forward(view, "Preprepared")
        BY <2>4, <3>1 DEF IsReady, Forward
      <4> QED  BY <1>1, <2>3, <3>1, <4>1 DEF States
    <3>2. CASE m.code = "PREPARE" /\ SetState(view, "Prepared", inFlight)
      <4>1. Forward(view, "Prepared")
        BY <2>4, <3>2 DEF IsReady, Forward
      <4> QED  BY <1>1, <2>3, <3>2, <4>1 DEF States
    <3>3. CASE m.code = "COMMIT" /\ SetState(view, "Committed", inFlight)
      <4>1. Forward(view, "Committed")
        BY <2>4, <3>3 DEF IsReady, Forward
      <4> QED  BY <1>1, <2>3, <3>3, <4>1 DEF States
    <3>4. CASE StartNewRound(inFlight)
      <4>1. PICK v \in Views :
              /\ \/ v.sequence = view.sequence /\ v.round > view.round
                 \/ v.sequence > view.sequence /\ v.round = 0
              /\ SetState(v, "AcceptRequest", inFlight)
        BY <3>4 DEF StartNewRound
      <4>2. Forward(v, "AcceptRequest")
        BY <1>1, <4>1, StartsForward
      <4>3. "AcceptRequest" \in States
        BY DEF States
      <4> QED  BY <2>3, <4>1, <4>2, <4>3
    <3>5. CASE posted' = inFlight /\ UNCHANGED <<view, state, backlog>>
      BY <2>2, <3>5
    <3> QED  BY <2>4, <3>1, <3>2, <3>3, <3>4, <3>5 DEF Effect
  <2>5. CASE posted' = inFlight /\ UNCHANGED <<view, state, backlog>>
    BY <2>2, <2>5
  <2> QED  BY <1>4, <2>4, <2>5 DEF HandleDecodedMessage
<1> QED  BY <1>3, <1>4

\* It holds at first ...
LEMMA InitInv == Init => IInv
<1> SUFFICES ASSUME Init PROVE IInv
  OBVIOUS
<1>1. view \in Views
  BY HeightAssumption, SMT DEF Init, Views
<1> QED  BY <1>1 DEF Init, IInv, TypeOK, FutureIsKept, ReadyIsPosted, States

\* ... every step keeps it ...
LEMMA NextInv == IInv /\ [Next]_vars => IInv'
<1> SUFFICES ASSUME IInv, [Next]_vars PROVE IInv'
  OBVIOUS
<1>1. CASE UNCHANGED vars
  BY <1>1 DEF vars, IInv, TypeOK, FutureIsKept, ReadyIsPosted, HeldBack
<1>2. ASSUME NEW m \in Messages, HandleMessageEvent(m)
      PROVE  IInv'
  <2>1. m \notin posted
    BY <1>2 DEF HandleMessageEvent, IInv, TypeOK
  <2> QED  BY <1>2, <2>1, HandlingKeepsInv DEF HandleMessageEvent
<1>3. ASSUME NEW m \in Messages, HandleBacklogEvent(m)
      PROVE  IInv'
  <2>1. arrived' = arrived \cup {m}
    BY <1>3 DEF HandleBacklogEvent, IInv, TypeOK
  <2> QED  BY <1>3, <2>1, HandlingKeepsInv DEF HandleBacklogEvent
<1>4. ASSUME NEW m \in Messages, DeferPreprepare(m)
      PROVE  IInv'
  BY <1>4 DEF DeferPreprepare, IInv, TypeOK, FutureIsKept, ReadyIsPosted, HeldBack
<1>5. CASE OtherEvent
  <2>1. view \in Views /\ UNCHANGED arrived
    BY <1>5 DEF OtherEvent, IInv, TypeOK
  <2>2. ASSUME NEW v \in Views, NEW s \in States, Forward(v, s), SetState(v, s, posted)
        PROVE  IInv'
    BY <2>1, <2>2, SameArrivals
  <2>3. CASE state = "AcceptRequest" /\ SetState(view, "Preprepared", posted)
    BY <2>1, <2>2, <2>3 DEF Forward, States
  <2>4. CASE state = "Preprepared" /\ SetState(view, "Prepared", posted)
    BY <2>1, <2>2, <2>4 DEF Forward, States
  <2>5. CASE state = "Prepared" /\ SetState(view, "Committed", posted)
    BY <2>1, <2>2, <2>5 DEF Forward, States
  <2>6. CASE StartNewRound(posted)
    <3>1. PICK v \in Views :
            /\ \/ v.sequence = view.sequence /\ v.round > view.round
               \/ v.sequence > view.sequence /\ v.round = 0
            /\ SetState(v, "AcceptRequest", posted)
      BY <2>6 DEF StartNewRound
    <3>2. Forward(v, "AcceptRequest")
      BY <2>1, <3>1, StartsForward
    <3>3. "AcceptRequest" \in States
      BY DEF States
    <3> QED  BY <2>2, <3>1, <3>2, <3>3
  <2> QED  BY <1>5, <2>3, <2>4, <2>5, <2>6 DEF OtherEvent
<1> QED  BY <1>1, <1>2, <1>3, <1>4, <1>5 DEF Next

\* ... and so it holds always.
LEMMA InvHolds == Spec => []IInv
BY InitInv, NextInv, PTL DEF Spec

\* Type correctness (TypeOK): what waits and what is posted has arrived before.
THEOREM BacklogTypeCorrect == Spec => []TypeOK
<1>1. IInv => TypeOK
  BY DEF IInv
<1> QED  BY <1>1, InvHolds, PTL

\* What comes too early is kept until its time (handler.go:90-91), through any sequence
\* of taking out, pushing back, posting and checking again.
THEOREM BacklogFutureIsKept == Spec => []FutureIsKept
<1>1. IInv => FutureIsKept
  BY DEF IInv
<1> QED  BY <1>1, InvHolds, PTL

\* A ready message is left in the queue only behind its own sender's COMMIT, as a PREPARE,
\* or behind a message of the same float32 (core.go:232, backlog.go:189-198).
THEOREM BacklogReadyIsPosted == Spec => []ReadyIsPosted
<1>1. IInv => ReadyIsPosted
  BY DEF IInv
<1> QED  BY <1>1, InvHolds, PTL

\* Below height 16777 no two priorities are rounded into one: then a proposal or a
\* ROUND-CHANGE that is ready is never left in the queue.
OnlyPreparesWait == \A m \in backlog : IsReady(m, view, state) => m.code = "PREPARE"

\* Up to there the queue holds back nothing that is ready but a PREPARE behind a
\* COMMIT of its sender (backlog.go:27, 189-198).
THEOREM BacklogOnlyPreparesWait ==
  ASSUME LastSequence <= 16776
  PROVE  Spec => []OnlyPreparesWait
<1>1. ASSUME IInv PROVE OnlyPreparesWait
  <2> SUFFICES ASSUME NEW m \in backlog, IsReady(m, view, state), m.code # "PREPARE"
               PROVE  FALSE
    BY DEF OnlyPreparesWait
  <2>1. PICK f \in backlog : IsFuture(f, view, state) /\ toPriority(f) = toPriority(m)
    BY <1>1 DEF IInv, ReadyIsPosted, HeldBack
  <2>2. m \in Message /\ f \in Message /\ view \in Views /\ state \in States
    BY <1>1, <2>1, ArrivedAreMessages DEF IInv, TypeOK
  <2>3. Rank(m) < Rank(f)
    BY <2>1, <2>2, ReadyFirst
  <2>4. toPriority(m) = Rank(m) /\ toPriority(f) = Rank(f)
    BY <2>2, RankIsExact
  <2> QED  BY <2>1, <2>2, <2>3, <2>4, RankType, SMT DEF Small
<1> QED  BY <1>1, InvHolds, PTL
=============================================================================
