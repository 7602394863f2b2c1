------------------------------- MODULE Backlog -------------------------------
(***************************************************************************)
(* The backlog of the QBFT core (qbft/core/backlog.go) as one validator    *)
(* keeps it for one other validator: messages that come too early wait in  *)
(* a priority queue, and every change of state posts those that are ready  *)
(* as events, which reach the event loop in any order.                     *)
(*                                                                         *)
(* The queues of different senders do not touch each other: what the other *)
(* messages, the timers and the chain do to the state of the core is       *)
(* OtherEvent.                                                             *)
(***************************************************************************)
EXTENDS Integers

CONSTANTS
  FirstSequence, LastSequence,   \* bounds: the heights of the behaviour
  MaxRound,                      \* bound: the rounds of a height
  Messages                       \* what the sender sends, each once

Codes == {"PREPREPARE", "PREPARE", "COMMIT", "ROUND-CHANGE"}

Views == [sequence : FirstSequence..LastSequence, round : 0..MaxRound]

\* Above round 99 the priorities run into those of the next height; the heights are
\* those whose priorities stay below 2^31.
ASSUME HeightAssumption ==
  /\ FirstSequence \in Nat /\ LastSequence \in Nat
  /\ FirstSequence <= LastSequence /\ LastSequence <= 2147482
  /\ MaxRound \in 0..99

ASSUME MessageAssumption == Messages \subseteq [code : Codes, view : Views]

VARIABLES
  view, state,   \* of the core
  backlog,       \* the queue of the sender
  posted,        \* backlogEvents on their way to the event loop
  arrived        \* what has come over the network

vars == <<view, state, backlog, posted, arrived>>

States == {"AcceptRequest", "Preprepared", "Prepared", "Committed"}

-----------------------------------------------------------------------------
Later(v, w) ==
  v.sequence > w.sequence \/ (v.sequence = w.sequence /\ v.round > w.round)

\* The messages that checkMessage finds too early in view v and state s ...
IsFuture(m, v, s) ==
  IF m.code = "ROUND-CHANGE" THEN m.view.sequence > v.sequence
  ELSE \/ Later(m.view, v)
       \/ /\ m.view = v
          /\ \/ s = "AcceptRequest" /\ m.code # "PREPREPARE"
             \/ s = "Preprepared" /\ m.code = "COMMIT"

\* ... and those that it lets through; the others are dropped.
IsReady(m, v, s) ==
  IF m.code = "ROUND-CHANGE"
  THEN m.view.sequence = v.sequence /\ m.view.round >= v.round
  ELSE /\ m.view = v
       /\ \/ s = "AcceptRequest" /\ m.code = "PREPREPARE"
          \/ s = "Preprepared" /\ m.code = "PREPARE"
          \/ s = "Prepared" /\ m.code = "COMMIT"

\* A float32 has 24 bits: a larger number is rounded, half of a unit to the even side.
TwoTo24 == 16777216

float32(n) ==
  IF n < TwoTo24 THEN n
  ELSE LET unit == CHOOSE u \in {2, 4, 8, 16, 32, 64, 128} : n < u * TwoTo24 /\ u * TwoTo24 <= 2 * n
           q    == n \div unit
           rest == 2 * (n % unit)
       IN  IF rest < unit \/ (rest = unit /\ q % 2 = 0) THEN q * unit ELSE (q + 1) * unit

msgPriority == [PREPREPARE |-> 1, COMMIT |-> 2, PREPARE |-> 3]

\* Mutant of Rank: the height is left out.
RankInHeight(m) ==
  IF m.code = "ROUND-CHANGE" THEN 0 ELSE m.view.round * 10 + msgPriority[m.code]

Rank(m) ==
  IF m.code = "ROUND-CHANGE" THEN m.view.sequence * 1000
  ELSE m.view.sequence * 1000 + m.view.round * 10 + msgPriority[m.code]

\* The queue yields the smallest first (the code negates it).
toPriority(m) == float32(Rank(m))

\* What processBacklog takes out of the queue in view v and state s before it meets a
\* message that is still too early; of equal priorities any may come first.
Taken(v, s, taken) ==
  LET future == {m \in backlog : IsFuture(m, v, s)}
  IN  IF future = {} THEN taken = backlog
      ELSE \E f \in future :
             /\ \A g \in future : toPriority(f) <= toPriority(g)
             /\ taken \cap future = {}
             /\ \A m \in backlog : toPriority(m) < toPriority(f) => m \in taken
             /\ \A m \in taken : toPriority(m) <= toPriority(f)

\* Mutant of Requeued: the message that ends the loop is not pushed back.
DroppedAtTheEnd(v, s, taken) ==
  {m \in backlog \ taken : \E g \in backlog \ taken : toPriority(g) < toPriority(m)}

\* Mutant of Requeued: the messages are read and not taken out.
Unchanged(v, s, taken) == backlog

\* What is in the queue afterwards: the message that ends the loop is pushed back.
Requeued(v, s, taken) == backlog \ taken

\* setState and, before it, updateRoundState.
SetState(v, s, inFlight) ==
  /\ view' = v
  /\ state' = s
  /\ \E taken \in SUBSET backlog :
       /\ Taken(v, s, taken)
       /\ backlog' = Requeued(v, s, taken)
       /\ posted' = inFlight \cup {m \in taken : IsReady(m, v, s)}

-----------------------------------------------------------------------------
Init ==
  /\ view = [sequence |-> FirstSequence, round |-> 0]
  /\ state = "AcceptRequest"
  /\ backlog = {} /\ posted = {} /\ arrived = {}

\* startNewRound, to a later round of the height, or to the first round of the height
\* after the last block of the chain, which may be several heights ahead.
StartNewRound(inFlight) ==
  \E v \in Views :
    /\ \/ v.sequence = view.sequence /\ v.round > view.round
       \/ v.sequence > view.sequence /\ v.round = 0
    /\ SetState(v, "AcceptRequest", inFlight)

\* The handlers may have the effect of their message, or wait for a quorum or refuse it.
Effect(m, inFlight) ==
  \/ m.code = "PREPREPARE" /\ SetState(view, "Preprepared", inFlight)
  \/ m.code = "PREPARE" /\ SetState(view, "Prepared", inFlight)
  \/ m.code = "COMMIT" /\ SetState(view, "Committed", inFlight)
  \/ m.code = "ROUND-CHANGE" /\ StartNewRound(inFlight)
  \/ posted' = inFlight /\ UNCHANGED <<view, state, backlog>>

\* handleDecodedMessage.
HandleDecodedMessage(m, inFlight) ==
  \/ /\ IsFuture(m, view, state)
     /\ backlog' = backlog \cup {m}
     /\ posted' = inFlight
     /\ UNCHANGED <<view, state>>
  \/ IsReady(m, view, state) /\ Effect(m, inFlight)
  \/ /\ ~IsFuture(m, view, state) /\ ~IsReady(m, view, state)
     /\ posted' = inFlight
     /\ UNCHANGED <<view, state, backlog>>

HandleMessageEvent(m) ==
  /\ m \notin arrived
  /\ arrived' = arrived \cup {m}
  /\ HandleDecodedMessage(m, posted)

HandleBacklogEvent(m) ==
  /\ m \in posted
  /\ HandleDecodedMessage(m, posted \ {m})
  /\ UNCHANGED arrived

\* A proposal ahead of the clock is refused, and a timer posts it again.
DeferPreprepare(m) ==
  /\ m \notin arrived
  /\ m.code = "PREPREPARE" /\ IsReady(m, view, state)
  /\ arrived' = arrived \cup {m}
  /\ posted' = posted \cup {m}
  /\ UNCHANGED <<view, state, backlog>>

\* A message of somebody else, a timeout or a new block.
OtherEvent ==
  /\ \/ state = "AcceptRequest" /\ SetState(view, "Preprepared", posted)
     \/ state = "Preprepared" /\ SetState(view, "Prepared", posted)
     \/ state = "Prepared" /\ SetState(view, "Committed", posted)
     \/ StartNewRound(posted)
  /\ UNCHANGED arrived

Next ==
  \/ \E m \in Messages :
       HandleMessageEvent(m) \/ HandleBacklogEvent(m) \/ DeferPreprepare(m)
  \/ OtherEvent

Spec == Init /\ [][Next]_vars

-----------------------------------------------------------------------------
TypeOK ==
  /\ view \in Views
  /\ state \in States
  /\ backlog \subseteq arrived /\ posted \subseteq arrived
  /\ backlog \cap posted = {}
  /\ arrived \subseteq Messages

\* handler.go:90-91: a message that is in the future is kept for future processing.
\* Whatever is taken out, pushed back, posted and checked again meanwhile, what has come
\* too early is still there as long as it is too early.
FutureIsKept ==
  \A m \in arrived : IsFuture(m, view, state) => m \in backlog \cup posted

\* "each time we change state, we process backlog for possible message that are now
\* ready" (core.go:232).  What is ready all the same and left in the queue is a PREPARE
\* behind a COMMIT of its view, because COMMIT goes first (backlog.go:27), or a message
\* behind another one that the float32 gives the same priority.
HeldBack(m) == \E f \in backlog :
  /\ IsFuture(f, view, state)
  /\ \/ m.code = "PREPARE" /\ f = [code |-> "COMMIT", view |-> m.view]
     \/ toPriority(f) = toPriority(m)

ReadyIsPosted == \A m \in backlog : IsReady(m, view, state) => HeldBack(m)
=============================================================================
