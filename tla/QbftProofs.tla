----------------------------- MODULE QbftProofs -----------------------------
(***************************************************************************)
(* Agreement of Qbft for any number of validators, heights and rounds, any *)
(* blocks and any loss, delay and reordering of the messages.              *)
(*                                                                         *)
(* Two hypotheses: the event loop takes a FinalCommittedEvent as soon as   *)
(* the chain has grown (Prompt), and two quorums always share a validator  *)
(* that does not restart (QuorumsMeet).                                    *)
(***************************************************************************)
EXTENDS Qbft, FiniteSetTheorems, TLAPS

\* The sets of validators that count as a quorum ...
Quorums == {Q \in SUBSET Validators : Cardinality(Q) >= QuorumSize}

\* ... any two of which share a validator that keeps its memory.
QuorumsMeet == \A P, Q \in Quorums : \E n \in P \cap Q : n \notin Restarting

\* The PREPARE or COMMIT of validator n for block b.
Msg(n, s, r, b) == [source |-> n, sequence |-> s, round |-> r, block |-> b]

\* A quorum has sent PREPAREs for b in a view.
Prepared(s, r, b) == \E Q \in Quorums : \A n \in Q : Msg(n, s, r, b) \in prepare

\* A quorum has sent COMMITs for b in a view.
Committed(s, r, b) == \E Q \in Quorums : \A n \in Q : Msg(n, s, r, b) \in commit

-----------------------------------------------------------------------------
(***************************************************************************)
(* Quorums.                                                                *)
(***************************************************************************)

\* The validators are finitely many and N.
LEMMA ValidatorsFinite == IsFiniteSet(Validators) /\ Cardinality(Validators) = N
BY NAssumption, FS_Interval DEF Validators

\* A quorum of messages of different senders has a quorum of senders
\* (qbftMsgSet keeps one message per sender).
LEMMA Senders ==
  ASSUME NEW S, \A m \in S : m.source \in Validators,
         \A a, b \in S : a.source = b.source => a = b,
         Cardinality(S) >= QuorumSize
  PROVE  {m.source : m \in S} \in Quorums
<1> DEFINE Q == {m.source : m \in S}
           f == [n \in Q |-> CHOOSE m \in S : m.source = n]
<1>1. Q \subseteq Validators
  OBVIOUS
<1>2. IsFiniteSet(Q) /\ Cardinality(Q) \in Nat
  BY <1>1, ValidatorsFinite, FS_Subset, FS_CardinalityType
<1>3. \A n \in Q : f[n] \in S /\ f[n].source = n
  OBVIOUS
<1>4. \A m \in S : m.source \in Q /\ f[m.source] = m
  BY <1>3
<1>5. f \in Surjection(Q, S)
  <2>1. f \in [Q -> S]
    BY <1>3
  <2>2. \A m \in S : \E n \in Q : f[n] = m
    BY <1>4
  <2> QED
    BY <2>1, <2>2 DEF Surjection
<1>6. IsFiniteSet(S) /\ Cardinality(S) <= Cardinality(Q)
  BY <1>2, <1>5, FS_Surjection
<1>7. Cardinality(S) \in Nat /\ QuorumSize \in Int
  BY <1>6, FS_CardinalityType, NAssumption DEF QuorumSize, F
<1> QED
  BY <1>1, <1>2, <1>6, <1>7 DEF Quorums

\* A quorum of PREPAREs or COMMITs of one view and block, counted as in
\* handlePrepare and handleCommitMsg, comes from a quorum of senders.
LEMMA QuorumOfVotes ==
  ASSUME NEW M \in SUBSET PrepareMsg, NEW c,
         Cardinality(Matching(M, c)) >= QuorumSize
  PROVE  \E Q \in Quorums : \A n \in Q :
            Msg(n, c.sequence, c.round, c.proposal) \in M
<1> DEFINE S == Matching(M, c)
<1>1. \A m \in S : /\ m \in M
                   /\ m.source \in Validators
                   /\ m = Msg(m.source, c.sequence, c.round, c.proposal)
  BY DEF Matching, InView, PrepareMsg, Msg
<1>2. \A a, b \in S : a.source = b.source => a = b
  BY <1>1
<1> HIDE DEF S
<1>3. {m.source : m \in S} \in Quorums
  BY <1>1, <1>2, Senders DEF S
<1> QED
  BY <1>1, <1>3

\* With the rule ceil(2N/3), the default, quorums meet in a validator that does
\* not restart as long as at most F validators do (QuorumSize, core.go:277-284).
LEMMA CeilQuorumsMeet ==
  ASSUME ~TwoFPlusOne, Cardinality(Restarting) <= F
  PROVE  QuorumsMeet
<1> SUFFICES ASSUME NEW P \in Quorums, NEW Q \in Quorums
             PROVE  \E n \in P \cap Q : n \notin Restarting
  BY DEF QuorumsMeet
<1> DEFINE D == Q \ Restarting
<1>1. P \subseteq Validators /\ Q \subseteq Validators /\ Restarting \subseteq Validators
  BY SubsetsAssumption DEF Quorums
<1>2. /\ IsFiniteSet(P) /\ IsFiniteSet(Q) /\ IsFiniteSet(Restarting)
      /\ Cardinality(P) \in Nat /\ Cardinality(Q) \in Nat
      /\ Cardinality(Restarting) \in Nat
  BY <1>1, ValidatorsFinite, FS_Subset, FS_CardinalityType
<1>3. /\ IsFiniteSet(Q \cap Restarting)
      /\ Cardinality(Q \cap Restarting) <= Cardinality(Restarting)
  BY <1>2, FS_Intersection
<1>4. Cardinality(Q \cap Restarting) \in Nat
  BY <1>3, FS_CardinalityType
<1>5. /\ IsFiniteSet(D)
      /\ Cardinality(D) = Cardinality(Q) - Cardinality(Q \cap Restarting)
  BY <1>2, FS_Difference
<1>6. Cardinality(P) + Cardinality(D) > N
  <2>1. Cardinality(P) >= (2 * N + 2) \div 3 /\ Cardinality(Q) >= (2 * N + 2) \div 3
    BY DEF Quorums, QuorumSize
  <2>2. Cardinality(Restarting) <= (N + 2) \div 3 - 1
    BY DEF F
  <2>3. 2 * ((2 * N + 2) \div 3) - ((N + 2) \div 3 - 1) > N
    BY NAssumption
  <2> HIDE DEF D
  <2> QED
    BY <1>2, <1>3, <1>4, <1>5, <2>1, <2>2, <2>3, NAssumption
<1>7. P \cap D # {}
  BY <1>1, <1>6, ValidatorsFinite, FS_MajoritiesIntersect
<1> QED
  BY <1>7

-----------------------------------------------------------------------------
(***************************************************************************)
(* Types of the operators on the state of a core.                          *)
(***************************************************************************)

\* Round 0 of a sequence is a state of the core.
LEMMA NewSequenceType ==
  ASSUME NEW q \in Nat
  PROVE  NewSequence(q) \in CoreState
BY DEF NewSequence, CoreState, NilRound

\* Adding a ROUND-CHANGE keeps the type, the view and what was prepared; the set
\* gains that message only and keeps one per sender and round
\* (roundChangeSet.Add, roundchange.go:222-244).
LEMMA AddRoundChangeFacts ==
  ASSUME NEW c \in CoreState, NEW m \in RoundChangeMsg
  PROVE  /\ AddRoundChange(c, m) \in CoreState
         /\ AddRoundChange(c, m).sequence = c.sequence
         /\ AddRoundChange(c, m).round = c.round
         /\ AddRoundChange(c, m).state = c.state
         /\ AddRoundChange(c, m).proposal = c.proposal
         /\ AddRoundChange(c, m).preparedRound = c.preparedRound
         /\ AddRoundChange(c, m).preparedBlock = c.preparedBlock
         /\ AddRoundChange(c, m).preparedPrepares = c.preparedPrepares
         /\ AddRoundChange(c, m).roundChanges =
                {o \in c.roundChanges : ~(o.source = m.source /\ o.round = m.round)}
                    \cup {m}
<1> DEFINE h == [key |-> m.round, round |-> m.preparedRound, block |-> m.preparedBlock]
<1>1. /\ m.round \in Nat
      /\ m.justification \subseteq Certificate
  BY DEF RoundChangeMsg
<1>2. Improves(c, m) => h \in [key : Nat, round : Nat, block : Block]
  BY <1>1 DEF Improves, Certificate
<1> HIDE DEF h
<1> QED
  BY <1>1, <1>2 DEF AddRoundChange, CoreState, h

\* What a round change does to a core that is not behind its chain: it enters
\* the round with what it had prepared (startNewRound, core.go:148-157).
LEMMA ChangeRoundFacts ==
  ASSUME NEW n, NEW c \in CoreState, NEW round \in Nat, NEW d,
         Len(chain[n]) < c.sequence, Len(chain[n]) \in Nat, round > c.round,
         d = startNewRound(n, c, round)
  PROVE  /\ d \in CoreState
         /\ d.sequence = c.sequence
         /\ d.round = round
         /\ d.state = "AcceptRequest"
         /\ d.preparedRound = c.preparedRound
         /\ d.preparedBlock = c.preparedBlock
         /\ d.preparedPrepares = c.preparedPrepares
         /\ d.roundChanges \subseteq c.roundChanges
<1> DEFINE e == ChangeRound(c, round)
           g == ClearLowerThan(e, round)
<1>1. c.sequence \in Nat /\ c.round \in Nat
  BY DEF CoreState
<1>2. d = Arm(e, round)
  BY <1>1 DEF startNewRound
<1>3. Arm(e, round) = [g EXCEPT !.rounds = @ \cup {round}, !.timer = "running"]
  BY <1>1 DEF Arm
<1>4. /\ e \in CoreState
      /\ e.sequence = c.sequence /\ e.round = round /\ e.state = "AcceptRequest"
      /\ e.preparedRound = c.preparedRound /\ e.preparedBlock = c.preparedBlock
      /\ e.preparedPrepares = c.preparedPrepares
      /\ e.roundChanges = c.roundChanges
  BY DEF ChangeRound, CoreState
<1> HIDE DEF e
<1>5. /\ g \in CoreState
      /\ g.sequence = c.sequence /\ g.round = round /\ g.state = "AcceptRequest"
      /\ g.preparedRound = c.preparedRound /\ g.preparedBlock = c.preparedBlock
      /\ g.preparedPrepares = c.preparedPrepares
      /\ g.roundChanges \subseteq c.roundChanges
  BY <1>4 DEF ClearLowerThan, CoreState
<1> HIDE DEF g
<1>6. d = [g EXCEPT !.rounds = @ \cup {round}, !.timer = "running"]
  BY <1>2, <1>3
<1>7. g.rounds \cup {round} \in SUBSET Nat
  BY <1>5 DEF CoreState
<1>8. d \in CoreState
  BY <1>5, <1>6, <1>7 DEF CoreState
<1>9. /\ d.sequence = g.sequence /\ d.round = g.round /\ d.state = g.state
      /\ d.preparedRound = g.preparedRound /\ d.preparedBlock = g.preparedBlock
      /\ d.preparedPrepares = g.preparedPrepares
      /\ d.roundChanges = g.roundChanges
  BY <1>5, <1>6 DEF CoreState
<1> QED
  BY <1>5, <1>8, <1>9

\* What FinalCommitted does to a core: the next sequence at round 0 with an
\* empty round-change set, or nothing (final_committed.go:21-29).
LEMMA CatchUpFacts ==
  ASSUME NEW n, NEW c \in CoreState, NEW d, Len(chain[n]) \in Nat,
         d = startNewRound(n, c, 0)
  PROVE  \/ d = c
         \/ /\ d \in CoreState
            /\ d.sequence > c.sequence
            /\ d.round = 0
            /\ d.state = "AcceptRequest"
            /\ d.preparedRound = NilRound
            /\ d.roundChanges = {}
<1>1. c.sequence \in Nat
  BY DEF CoreState
<1>2. CASE Len(chain[n]) >= c.sequence
  <2>1. PICK q \in Nat : q = Len(chain[n]) + 1
    OBVIOUS
  <2>2. d = CatchUp(c, q, 0)
    BY <1>2, <2>1 DEF startNewRound, Arm
  <2>3. q > c.sequence
    BY <1>1, <1>2, <2>1
  <2>4. d = [NewSequence(q) EXCEPT
              !.timer = c.timer, !.newRoundTimers = c.newRoundTimers,
              !.preparedPrepares = {}, !.roundChanges = {}, !.rounds = {0},
              !.highest = {}]
    BY <2>2 DEF CatchUp
  <2>5. d = [sequence |-> q, round |-> 0, state |-> "AcceptRequest",
             proposal |-> NoBlock, preparedRound |-> NilRound,
             preparedBlock |-> NoBlock, preparedPrepares |-> {},
             pendingRequest |-> NoBlock, preprepareSent |-> 0,
             roundChanges |-> {}, rounds |-> {0}, highest |-> {},
             timer |-> c.timer, newRoundTimers |-> c.newRoundTimers]
    BY <2>4 DEF NewSequence
  <2>6. c.timer \in {"stopped", "running"} /\ c.newRoundTimers \in SUBSET Block
    BY DEF CoreState
  <2>7. d \in CoreState
    BY <2>5, <2>6 DEF CoreState, NilRound
  <2>8. /\ d.sequence = q /\ d.round = 0 /\ d.state = "AcceptRequest"
        /\ d.preparedRound = NilRound /\ d.roundChanges = {}
    BY <2>5
  <2> QED
    BY <2>3, <2>7, <2>8
<1>3. CASE ~(Len(chain[n]) >= c.sequence)
  BY <1>3 DEF startNewRound
<1> QED
  BY <1>2, <1>3

\* The ROUND-CHANGE a core broadcasts is a message (roundchange.go:45-90).
LEMMA BroadcastType ==
  ASSUME NEW n \in Validators, NEW c \in CoreState, NEW round \in Nat
  PROVE  broadcastRoundChange(n, c, round) \subseteq RoundChangeMsg
BY DEF broadcastRoundChange, CoreState, RoundChangeMsg

-----------------------------------------------------------------------------
(***************************************************************************)
(* What each action does to the core it steps, and to the messages.        *)
(***************************************************************************)

\* A core that has accepted a proposal has a block.
HasProposal(c) == c.state # "AcceptRequest" => c.proposal \in Block

\* The types, with what the handlers need of a core to compute with it.
TypeInv == TypeOK /\ \A n \in Validators : HasProposal(core[n])

\* The part of a core that its votes depend on is the same.
SameVotes(c, d) ==
  /\ d.sequence = c.sequence /\ d.round = c.round
  /\ d.state = c.state /\ d.proposal = c.proposal
  /\ d.preparedRound = c.preparedRound /\ d.preparedBlock = c.preparedBlock

\* Validator n goes from its core to d, the others stay.
Becomes(n, d) == d \in CoreState /\ core' = [core EXCEPT ![n] = d]

\* What the type of the state says of one validator.
LEMMA CoreOf ==
  ASSUME TypeOK, NEW n \in Validators
  PROVE  /\ core \in [Validators -> CoreState]
         /\ core[n] \in CoreState
         /\ core[n].sequence \in Nat /\ core[n].round \in Nat
         /\ core[n].proposal \in Block \cup {NoBlock}
         /\ core[n].roundChanges \in SUBSET RoundChangeMsg
         /\ chain[n] \in Seq(Block) /\ Len(chain[n]) \in Nat
BY DEF TypeOK, CoreState

\* handleRequest keeps the request and arms a callback (request.go:32-76).
LEMMA HandleRequestStep ==
  ASSUME TypeOK, NEW n \in Validators, HandleRequest(n)
  PROVE  \E d : /\ Becomes(n, d) /\ SameVotes(core[n], d)
                /\ d.roundChanges = core[n].roundChanges
<1> DEFINE c == core[n]
<1>1. PICK p \in Payloads :
        LET block == [number |-> c.sequence, author |-> n, payload |-> p]
        IN  \/ \E fired \in {{}, c.newRoundTimers} :
                core' = [core EXCEPT ![n].pendingRequest = block,
                                     ![n].newRoundTimers = fired \cup {block}]
            \/ core' = [core EXCEPT ![n].pendingRequest = block]
  BY DEF HandleRequest
<1> DEFINE block == [number |-> c.sequence, author |-> n, payload |-> p]
<1>2. block \in Block
  BY CoreOf DEF Block
<1> HIDE DEF block
<1>3. /\ c \in CoreState /\ c.newRoundTimers \in SUBSET Block
      /\ core \in [Validators -> CoreState]
  BY CoreOf DEF CoreState
<1>4. CASE core' = [core EXCEPT ![n].pendingRequest = block]
  <2> DEFINE d == [c EXCEPT !.pendingRequest = block]
  <2>1. d \in CoreState
    BY <1>2, <1>3 DEF CoreState
  <2>2. SameVotes(c, d) /\ d.roundChanges = c.roundChanges
    BY <1>3 DEF CoreState, SameVotes
  <2>3. core' = [core EXCEPT ![n] = d]
    BY <1>3, <1>4
  <2> HIDE DEF d
  <2> QED
    BY <2>1, <2>2, <2>3 DEF Becomes
<1>5. ASSUME NEW fired \in {{}, c.newRoundTimers},
             core' = [core EXCEPT ![n].pendingRequest = block,
                                  ![n].newRoundTimers = fired \cup {block}]
      PROVE  \E d : /\ Becomes(n, d) /\ SameVotes(c, d)
                    /\ d.roundChanges = c.roundChanges
  <2> DEFINE d == [c EXCEPT !.pendingRequest = block,
                            !.newRoundTimers = fired \cup {block}]
  <2>1. fired \cup {block} \in SUBSET Block
    BY <1>2, <1>3
  <2>2. d \in CoreState
    BY <1>2, <1>3, <2>1 DEF CoreState
  <2>3. SameVotes(c, d) /\ d.roundChanges = c.roundChanges
    BY <1>3 DEF CoreState, SameVotes
  <2>4. core' = [core EXCEPT ![n] = d]
    BY <1>3, <1>5
  <2> HIDE DEF d
  <2> QED
    BY <2>2, <2>3, <2>4 DEF Becomes
<1> QED
  BY <1>1, <1>4, <1>5 DEF block

\* Sending a PRE-PREPARE changes preprepareSent only; what is sent is of the
\* sequence and round of the core (sendPreprepareMsg, preprepare.go:36-95).
LEMMA SendPreprepareStep ==
  ASSUME TypeOK, NEW n \in Validators, NEW c \in CoreState, NEW block \in Block,
         NEW rcs \in SUBSET RoundChangeMsg, NEW prepares \in SUBSET Certificate,
         SendPreprepare(n, c, block, rcs, prepares)
  PROVE  /\ \E d : /\ Becomes(n, d) /\ SameVotes(c, d)
                   /\ d.roundChanges = c.roundChanges
         /\ preprepare' \subseteq PreprepareMsg
         /\ preprepare \subseteq preprepare'
         /\ \A p \in preprepare' :
                \/ p \in preprepare
                \/ /\ p.sequence = c.sequence /\ p.round = c.round
                   /\ p.block = block /\ block.number = c.sequence
                   /\ p.roundChanges = rcs /\ p.prepares = prepares
<1>1. c.round \in Nat /\ c.sequence \in Nat
  BY DEF CoreState
<1>2. preprepare \subseteq PreprepareMsg
  BY DEF TypeOK
<1>3. CASE block.number = c.sequence /\ IsProposer(n, c)
  <2> DEFINE m == [source |-> n, sequence |-> c.sequence, round |-> c.round,
                   block |-> block, roundChanges |-> rcs, prepares |-> prepares]
             d == [c EXCEPT !.preprepareSent = c.round]
  <2>1. /\ preprepare' = preprepare \cup {m}
        /\ core' = [core EXCEPT ![n] = d]
    BY <1>3 DEF SendPreprepare
  <2>2. m \in PreprepareMsg
    BY <1>1 DEF PreprepareMsg
  <2>3. d \in CoreState /\ SameVotes(c, d) /\ d.roundChanges = c.roundChanges
    BY <1>1 DEF CoreState, SameVotes
  <2>4. /\ m.sequence = c.sequence /\ m.round = c.round /\ m.block = block
        /\ m.roundChanges = rcs /\ m.prepares = prepares
    OBVIOUS
  <2> HIDE DEF m, d
  <2>5. \E e : /\ Becomes(n, e) /\ SameVotes(c, e)
               /\ e.roundChanges = c.roundChanges
    BY <2>1, <2>3 DEF Becomes
  <2>6. /\ preprepare' \subseteq PreprepareMsg
        /\ preprepare \subseteq preprepare'
        /\ \A p \in preprepare' : p \in preprepare \/ p = m
    BY <1>2, <2>1, <2>2
  <2> QED
    BY <1>3, <2>4, <2>5, <2>6
<1>4. CASE ~(block.number = c.sequence /\ IsProposer(n, c))
  <2>1. core' = [core EXCEPT ![n] = c] /\ preprepare' = preprepare
    BY <1>4 DEF SendPreprepare
  <2> QED
    BY <1>2, <2>1 DEF Becomes, SameVotes
<1> QED
  BY <1>3, <1>4

\* The callback that proposes a block sends no justification (request.go:64-72).
LEMMA NewRoundTimerStep ==
  ASSUME TypeOK, NEW n \in Validators, NewRoundTimer(n)
  PROVE  /\ \E d : /\ Becomes(n, d) /\ SameVotes(core[n], d)
                   /\ d.roundChanges = core[n].roundChanges
         /\ preprepare' \subseteq PreprepareMsg
         /\ preprepare \subseteq preprepare'
         /\ \A p \in preprepare' :
                \/ p \in preprepare
                \/ p.block.number = p.sequence /\ p.roundChanges = {}
<1>1. PICK block \in core[n].newRoundTimers :
        SendPreprepare(n, [core[n] EXCEPT !.newRoundTimers = @ \ {block},
                                          !.timer = "running"], block, {}, {})
  BY DEF NewRoundTimer
<1>2. block \in Block /\ core[n].newRoundTimers \ {block} \in SUBSET Block
  BY CoreOf DEF CoreState
<1> DEFINE c == [core[n] EXCEPT !.newRoundTimers = @ \ {block}, !.timer = "running"]
<1>3. c \in CoreState
  <2> DEFINE armed == core[n].newRoundTimers \ {block}
  <2>1. core[n] \in CoreState
    BY CoreOf
  <2>2. armed \in SUBSET Block
    BY <1>2
  <2> HIDE DEF armed
  <2>3. [core[n] EXCEPT !.newRoundTimers = armed, !.timer = "running"] \in CoreState
    BY <2>1, <2>2 DEF CoreState
  <2> QED
    BY <2>3 DEF armed
<1>4. SendPreprepare(n, c, block, {}, {})
  BY <1>1
<1>5. {} \in SUBSET RoundChangeMsg /\ {} \in SUBSET Certificate
  OBVIOUS
<1>6. SameVotes(core[n], c) /\ c.roundChanges = core[n].roundChanges
  BY CoreOf DEF CoreState, SameVotes
<1> HIDE DEF c
<1>7. /\ \E d : /\ Becomes(n, d) /\ SameVotes(c, d)
                /\ d.roundChanges = c.roundChanges
      /\ preprepare' \subseteq PreprepareMsg
      /\ preprepare \subseteq preprepare'
      /\ \A p \in preprepare' :
                \/ p \in preprepare
                \/ /\ p.sequence = c.sequence /\ p.block = block
                   /\ block.number = c.sequence /\ p.roundChanges = {}
  BY <1>2, <1>3, <1>4, <1>5, SendPreprepareStep
<1>8. \A p \in preprepare' : p \in preprepare
                             \/ (p.block.number = p.sequence /\ p.roundChanges = {})
  BY <1>7
<1> QED
  BY <1>6, <1>7, <1>8 DEF SameVotes

\* Accepting a proposal: a PREPARE for it, and no other message; a proposal of a
\* later round is justified (handlePreprepareMsg, preprepare.go:103-163).
LEMMA HandlePreprepareStep ==
  ASSUME TypeOK, NEW n \in Validators, HandlePreprepare(n)
  PROVE  \E m, d :
            /\ m \in preprepare
            /\ Becomes(n, d)
            /\ core[n].state = "AcceptRequest"
            /\ InView(m, core[n])
            /\ m.round > 0 => isJustified(m.block, m.roundChanges, m.prepares)
            /\ d.sequence = core[n].sequence /\ d.round = core[n].round
            /\ d.state = "Preprepared" /\ d.proposal = m.block
            /\ d.preparedRound = core[n].preparedRound
            /\ d.preparedBlock = core[n].preparedBlock
            /\ d.roundChanges = core[n].roundChanges
            /\ m.block \in Block
            /\ Msg(n, m.sequence, m.round, m.block) \in PrepareMsg
            /\ prepare' = prepare \cup {Msg(n, m.sequence, m.round, m.block)}
<1> DEFINE c == core[n]
<1>1. PICK m \in preprepare :
        /\ InView(m, c)
        /\ m.round > 0 => isJustified(m.block, m.roundChanges, m.prepares)
        /\ core' = [core EXCEPT ![n].state = "Preprepared",
                                ![n].proposal = m.block,
                                ![n].timer = "running"]
        /\ prepare' = prepare \cup {Msg(n, m.sequence, m.round, m.block)}
  BY DEF HandlePreprepare, Msg
<1>2. m.block \in Block /\ m.sequence \in Nat /\ m.round \in Nat
  BY DEF TypeOK, PreprepareMsg
<1>3. c \in CoreState /\ core \in [Validators -> CoreState] /\ c.state = "AcceptRequest"
  BY CoreOf DEF HandlePreprepare, AwaitsProposal
<1> DEFINE d == [c EXCEPT !.state = "Preprepared", !.proposal = m.block,
                          !.timer = "running"]
<1>4. d \in CoreState
  BY <1>2, <1>3 DEF CoreState
<1>5. /\ d.sequence = c.sequence /\ d.round = c.round
      /\ d.state = "Preprepared" /\ d.proposal = m.block
      /\ d.preparedRound = c.preparedRound /\ d.preparedBlock = c.preparedBlock
      /\ d.roundChanges = c.roundChanges
  BY <1>3 DEF CoreState
<1>6. core' = [core EXCEPT ![n] = d]
  BY <1>1, <1>3
<1>7. Msg(n, m.sequence, m.round, m.block) \in PrepareMsg
  BY <1>2 DEF PrepareMsg, Msg
<1> HIDE DEF d, c
<1>8. Becomes(n, d)
  BY <1>4, <1>6 DEF Becomes
<1> QED
  BY <1>1, <1>2, <1>3, <1>5, <1>7, <1>8 DEF c

\* Preparing: a quorum has sent PREPAREs for the proposal, and a COMMIT for it goes
\* out (handlePrepare, prepare.go:73-119).
LEMMA HandlePrepareStep ==
  ASSUME TypeInv, NEW n \in Validators, HandlePrepare(n)
  PROVE  \E d :
            /\ Becomes(n, d)
            /\ core[n].state = "Preprepared"
            /\ core[n].proposal \in Block
            /\ Prepared(core[n].sequence, core[n].round, core[n].proposal)
            /\ d.sequence = core[n].sequence /\ d.round = core[n].round
            /\ d.state = "Prepared" /\ d.proposal = core[n].proposal
            /\ d.preparedRound = core[n].round
            /\ d.preparedBlock = core[n].proposal
            /\ d.roundChanges = core[n].roundChanges
            /\ Msg(n, d.sequence, d.round, d.proposal) \in PrepareMsg
            /\ commit' = commit \cup {Msg(n, d.sequence, d.round, d.proposal)}
<1> DEFINE c == core[n]
<1>1. /\ c.state = "Preprepared"
      /\ Cardinality(Matching(prepare, c)) >= QuorumSize
      /\ core' = [core EXCEPT
                        ![n].state = "Prepared",
                        ![n].preparedRound = c.round,
                        ![n].preparedBlock = c.proposal,
                        ![n].preparedPrepares =
                            {[round |-> c.round, block |-> c.proposal]}]
      /\ commit' = commit \cup {Msg(n, c.sequence, c.round, c.proposal)}
  BY DEF HandlePrepare, Msg
<1>2. /\ TypeOK /\ c.proposal \in Block
      /\ c \in CoreState /\ core \in [Validators -> CoreState]
      /\ c.sequence \in Nat /\ c.round \in Nat
  BY <1>1, CoreOf DEF TypeInv, HasProposal
<1>3. Prepared(c.sequence, c.round, c.proposal)
  BY <1>1, <1>2, QuorumOfVotes DEF TypeOK, Prepared
<1>4. {[round |-> c.round, block |-> c.proposal]} \in SUBSET Certificate
  BY <1>2 DEF Certificate
<1> DEFINE d == [c EXCEPT !.state = "Prepared", !.preparedRound = c.round,
                          !.preparedBlock = c.proposal,
                          !.preparedPrepares = {[round |-> c.round, block |-> c.proposal]}]
<1>5. d \in CoreState
  BY <1>2, <1>4 DEF CoreState
<1>6. /\ d.sequence = c.sequence /\ d.round = c.round
      /\ d.state = "Prepared" /\ d.proposal = c.proposal
      /\ d.preparedRound = c.round /\ d.preparedBlock = c.proposal
      /\ d.roundChanges = c.roundChanges
  BY <1>2 DEF CoreState
<1>7. core' = [core EXCEPT ![n] = d]
  BY <1>1, <1>2
<1>8. Msg(n, c.sequence, c.round, c.proposal) \in PrepareMsg
  BY <1>2 DEF PrepareMsg, Msg
<1> HIDE DEF d, c
<1>9. Becomes(n, d)
  BY <1>5, <1>7 DEF Becomes
<1> QED
  BY <1>1, <1>2, <1>3, <1>6, <1>8, <1>9 DEF c

\* Committing: a quorum has sent COMMITs for the proposal, which is sealed
\* (handleCommitMsg and commitQBFT, commit.go:88-142).
LEMMA HandleCommitStep ==
  ASSUME TypeInv, NEW n \in Validators, HandleCommit(n)
  PROVE  \E d :
            /\ Becomes(n, d)
            /\ core[n].state = "Prepared"
            /\ core[n].proposal \in Block
            /\ Committed(core[n].sequence, core[n].round, core[n].proposal)
            /\ d.sequence = core[n].sequence /\ d.round = core[n].round
            /\ d.state = "Committed" /\ d.proposal = core[n].proposal
            /\ d.preparedRound = core[n].preparedRound
            /\ d.preparedBlock = core[n].preparedBlock
            /\ d.roundChanges = core[n].roundChanges
            /\ sealed' = sealed \cup {core[n].proposal}
<1> DEFINE c == core[n]
<1>1. /\ c.state = "Prepared"
      /\ Cardinality(Matching(commit, c)) >= QuorumSize
      /\ core' = [core EXCEPT ![n].state = "Committed"]
      /\ sealed' = sealed \cup {c.proposal}
  BY DEF HandleCommit
<1>2. /\ TypeOK /\ c.proposal \in Block
      /\ c \in CoreState /\ core \in [Validators -> CoreState]
  BY <1>1, CoreOf DEF TypeInv, HasProposal
<1>3. Committed(c.sequence, c.round, c.proposal)
  BY <1>1, <1>2, QuorumOfVotes DEF TypeOK, Committed
<1> DEFINE d == [c EXCEPT !.state = "Committed"]
<1>4. d \in CoreState
  BY <1>2 DEF CoreState
<1>5. /\ d.sequence = c.sequence /\ d.round = c.round
      /\ d.state = "Committed" /\ d.proposal = c.proposal
      /\ d.preparedRound = c.preparedRound /\ d.preparedBlock = c.preparedBlock
      /\ d.roundChanges = c.roundChanges
  BY <1>2 DEF CoreState
<1>6. core' = [core EXCEPT ![n] = d]
  BY <1>1, <1>2
<1> HIDE DEF d, c
<1>7. Becomes(n, d)
  BY <1>4, <1>6 DEF Becomes
<1> QED
  BY <1>1, <1>2, <1>3, <1>5, <1>7 DEF c

\* startNewRound keeps the type for every target round, and a core it changes
\* awaits a proposal (core.go:117-211).
LEMMA StartNewRoundType ==
  ASSUME NEW n, NEW c \in CoreState, NEW round \in Nat, Len(chain[n]) \in Nat
  PROVE  /\ startNewRound(n, c, round) \in CoreState
         /\ \/ startNewRound(n, c, round) = c
            \/ startNewRound(n, c, round).state = "AcceptRequest"
<1>1. ASSUME NEW e \in CoreState
      PROVE  Arm(e, round) \in CoreState /\ Arm(e, round).state = e.state
  <2> DEFINE g == ClearLowerThan(e, round)
  <2>1. g \in CoreState /\ g.state = e.state
    BY DEF ClearLowerThan, CoreState
  <2> HIDE DEF g
  <2>2. g.rounds \cup {round} \in SUBSET Nat
    BY <2>1 DEF CoreState
  <2>3. [g EXCEPT !.rounds = @ \cup {round}, !.timer = "running"] \in CoreState
    BY <2>1, <2>2 DEF CoreState
  <2>4. [g EXCEPT !.rounds = @ \cup {round}, !.timer = "running"].state = e.state
    BY <2>1 DEF CoreState
  <2> QED
    BY <2>3, <2>4 DEF Arm, g
<1>2. ASSUME NEW q \in Nat
      PROVE  /\ CatchUp(c, q, round) \in CoreState
             /\ CatchUp(c, q, round).state = "AcceptRequest"
  <2> DEFINE prepares == IF round = 0 THEN {} ELSE c.preparedPrepares
             messages == IF round = 0 THEN {} ELSE c.roundChanges
             rounds == IF round = 0 THEN {0} ELSE c.rounds
             highest == IF round = 0 THEN {} ELSE c.highest
  <2>1. CatchUp(c, q, round) =
            [NewSequence(q) EXCEPT
              !.timer = c.timer, !.newRoundTimers = c.newRoundTimers,
              !.preparedPrepares = prepares, !.roundChanges = messages,
              !.rounds = rounds, !.highest = highest]
    BY DEF CatchUp
  <2>2. /\ c.timer \in {"stopped", "running"}
        /\ c.newRoundTimers \in SUBSET Block
        /\ prepares \in SUBSET Certificate
        /\ messages \in SUBSET RoundChangeMsg
        /\ rounds \in SUBSET Nat
        /\ highest \in SUBSET [key : Nat, round : Nat, block : Block]
    BY DEF CoreState
  <2> HIDE DEF prepares, messages, rounds, highest
  <2>3. ASSUME NEW e \in CoreState
        PROVE  [e EXCEPT
                  !.timer = c.timer, !.newRoundTimers = c.newRoundTimers,
                  !.preparedPrepares = prepares, !.roundChanges = messages,
                  !.rounds = rounds, !.highest = highest] \in CoreState
    BY <2>2 DEF CoreState
  <2>4. CatchUp(c, q, round).state = "AcceptRequest"
    BY <2>1 DEF NewSequence
  <2> QED
    BY <2>1, <2>3, <2>4, NewSequenceType
<1>3. ChangeRound(c, round) \in CoreState /\ ChangeRound(c, round).state = "AcceptRequest"
  BY DEF ChangeRound, CoreState
<1>4. Len(chain[n]) + 1 \in Nat
  OBVIOUS
<1> QED
  BY <1>1, <1>2, <1>3, <1>4 DEF startNewRound

\* Going to another round keeps the types, and what is broadcast is a ROUND-CHANGE
\* (handleRoundChange, roundchange.go:134-142; handleTimeoutMsg, handler.go:226-238).
LEMMA MoveType ==
  ASSUME TypeOK, NEW n \in Validators, NEW c \in CoreState, HasProposal(c),
         NEW round \in Nat,
         core' = [core EXCEPT ![n] = startNewRound(n, c, round)],
         roundChange' = roundChange \cup
            broadcastRoundChange(n, startNewRound(n, c, round), round)
  PROVE  /\ \E d : Becomes(n, d) /\ HasProposal(d)
         /\ roundChange' \subseteq RoundChangeMsg
<1> DEFINE d == startNewRound(n, c, round)
<1>1. Len(chain[n]) \in Nat /\ roundChange \subseteq RoundChangeMsg
  BY CoreOf DEF TypeOK
<1>2. d \in CoreState /\ (d = c \/ d.state = "AcceptRequest")
  BY <1>1, StartNewRoundType
<1> HIDE DEF d
<1>3. HasProposal(d)
  BY <1>2 DEF HasProposal
<1>4. broadcastRoundChange(n, d, round) \subseteq RoundChangeMsg
  BY <1>2, BroadcastType
<1>5. Becomes(n, d)
  BY <1>2 DEF Becomes, d
<1> QED
  BY <1>1, <1>3, <1>4, <1>5 DEF d

\* A core that is not behind its chain enters the round: it awaits a proposal, has
\* what it had prepared, and tells so.
Enters(n, c, d, m) ==
  /\ Becomes(n, d)
  /\ d.sequence = c.sequence /\ d.round > c.round /\ d.state = "AcceptRequest"
  /\ d.preparedRound = c.preparedRound /\ d.preparedBlock = c.preparedBlock
  /\ d.roundChanges \subseteq c.roundChanges
  /\ m \in RoundChangeMsg
  /\ m.source = n /\ m.sequence = d.sequence /\ m.round = d.round
  /\ m.preparedRound = d.preparedRound /\ m.preparedBlock = d.preparedBlock
  /\ roundChange' = roundChange \cup {m}

\* Going to a later round of the same sequence.
LEMMA MoveStep ==
  ASSUME TypeOK, NEW n \in Validators, NEW c \in CoreState, NEW round \in Nat,
         Len(chain[n]) < c.sequence, round > c.round,
         core' = [core EXCEPT ![n] = startNewRound(n, c, round)],
         roundChange' = roundChange \cup
            broadcastRoundChange(n, startNewRound(n, c, round), round)
  PROVE  \E d, m : Enters(n, c, d, m)
<1>1. PICK d : d = startNewRound(n, c, round)
  OBVIOUS
<1>2. Len(chain[n]) \in Nat
  BY CoreOf
<1>3. /\ d \in CoreState
      /\ d.sequence = c.sequence
      /\ d.round = round
      /\ d.state = "AcceptRequest"
      /\ d.preparedRound = c.preparedRound
      /\ d.preparedBlock = c.preparedBlock
      /\ d.preparedPrepares = c.preparedPrepares
      /\ d.roundChanges \subseteq c.roundChanges
  BY <1>1, <1>2, ChangeRoundFacts
<1> DEFINE m == [source |-> n, sequence |-> d.sequence, round |-> round,
                 preparedRound |-> d.preparedRound, preparedBlock |-> d.preparedBlock,
                 justification |-> d.preparedPrepares]
<1>4. broadcastRoundChange(n, d, round) = {m}
  BY <1>3 DEF broadcastRoundChange
<1>5. m \in RoundChangeMsg
  BY <1>3 DEF CoreState, RoundChangeMsg
<1>6. /\ m.source = n /\ m.sequence = d.sequence /\ m.round = round
      /\ m.preparedRound = d.preparedRound /\ m.preparedBlock = d.preparedBlock
  OBVIOUS
<1> HIDE DEF m
<1>7. Becomes(n, d) /\ roundChange' = roundChange \cup {m}
  BY <1>1, <1>3, <1>4 DEF Becomes
<1>8. Enters(n, c, d, m)
  BY <1>3, <1>5, <1>6, <1>7 DEF Enters
<1> QED
  BY <1>8

\* handleRoundChange takes a ROUND-CHANGE of the sequence of the core into the set
\* and goes on with what AddRoundChange returns (roundchange.go:95-124).
LEMMA AddedStep ==
  ASSUME TypeInv, NEW n \in Validators, NEW m \in RoundChangeMsg,
         m.sequence = core[n].sequence, NEW c, c = AddRoundChange(core[n], m)
  PROVE  /\ c \in CoreState /\ HasProposal(c) /\ SameVotes(core[n], c)
         /\ c.round \in Nat
         /\ c.roundChanges =
                {o \in core[n].roundChanges : ~(o.source = m.source /\ o.round = m.round)}
                    \cup {m}
<1>1. core[n] \in CoreState /\ HasProposal(core[n])
  BY CoreOf DEF TypeInv
<1>2. /\ c \in CoreState
      /\ c.sequence = core[n].sequence /\ c.round = core[n].round
      /\ c.state = core[n].state /\ c.proposal = core[n].proposal
      /\ c.preparedRound = core[n].preparedRound
      /\ c.preparedBlock = core[n].preparedBlock
      /\ c.roundChanges =
            {o \in core[n].roundChanges : ~(o.source = m.source /\ o.round = m.round)}
                \cup {m}
  BY <1>1, AddRoundChangeFacts
<1>3. c.round \in Nat
  BY <1>2 DEF CoreState
<1> QED
  BY <1>1, <1>2, <1>3 DEF HasProposal, SameVotes

\* The round F+1 others are ahead in is later than the round of the core
\* (getMinRoundChange, roundchange.go:276-291).
LEMMA MinRoundChange ==
  ASSUME NEW c \in CoreState, NEW r \in getMinRoundChange(c, c.round)
  PROVE  r \in Nat /\ r > c.round
BY DEF getMinRoundChange, CoreState

\* Proposing again: the core stays as it is, and what is sent carries the
\* ROUND-CHANGEs of the round (roundchange.go:143-175).
LEMMA ProposeAgainStep ==
  ASSUME TypeOK, NEW n \in Validators, NEW c \in CoreState, ProposeAgain(n, c)
  PROVE  /\ \E d : /\ Becomes(n, d) /\ SameVotes(c, d)
                   /\ d.roundChanges = c.roundChanges
         /\ preprepare' \subseteq PreprepareMsg
         /\ preprepare \subseteq preprepare'
         /\ \A p \in preprepare' :
                \/ p \in preprepare
                \/ /\ p.sequence = c.sequence /\ p.round = c.round
                   /\ p.block.number = p.sequence
                   /\ p.roundChanges = roundChangesFor(c, c.round)
         /\ panicked' \subseteq Validators
         /\ UNCHANGED roundChange
<1> DEFINE current == roundChangesFor(c, c.round)
           prepared == {h \in c.highest : h.key = c.round}
           prepares == {[round |-> h.round, block |-> h.block] : h \in prepared}
           blocks == IF prepared # {} THEN {h.block : h \in prepared}
                                      ELSE {c.pendingRequest} \ {NoBlock}
           stays == core' = [core EXCEPT ![n] = c] /\ UNCHANGED preprepare
<1>1. /\ \/ stays
         \/ \E block \in blocks : SendPreprepare(n, c, block, current, prepares)
      /\ panicked' \in {panicked, panicked \cup {n}}
      /\ UNCHANGED roundChange
  BY DEF ProposeAgain
<1>2. panicked' \subseteq Validators
  BY <1>1 DEF TypeOK
<1>3. CASE stays
  BY <1>1, <1>2, <1>3 DEF Becomes, SameVotes, TypeOK
<1>4. ASSUME NEW block \in blocks, SendPreprepare(n, c, block, current, prepares)
      PROVE  /\ \E d : /\ Becomes(n, d) /\ SameVotes(c, d)
                       /\ d.roundChanges = c.roundChanges
             /\ preprepare' \subseteq PreprepareMsg
             /\ preprepare \subseteq preprepare'
             /\ \A p \in preprepare' :
                    \/ p \in preprepare
                    \/ /\ p.sequence = c.sequence /\ p.round = c.round
                       /\ p.block = block /\ block.number = c.sequence
                       /\ p.roundChanges = current
  <2>1. \A h \in c.highest : h.round \in Nat /\ h.block \in Block
    BY DEF CoreState
  <2>2. block \in Block
    BY <2>1 DEF CoreState
  <2>3. prepares \in SUBSET Certificate
    BY <2>1 DEF Certificate
  <2>4. current \in SUBSET RoundChangeMsg
    BY DEF roundChangesFor, CoreState
  <2> HIDE DEF blocks, prepares, current
  <2> QED
    BY <1>4, <2>2, <2>3, <2>4, SendPreprepareStep
<1>5. ASSUME NEW block \in blocks, SendPreprepare(n, c, block, current, prepares)
      PROVE  \A p \in preprepare' :
                \/ p \in preprepare
                \/ /\ p.sequence = c.sequence /\ p.round = c.round
                   /\ p.block.number = p.sequence
                   /\ p.roundChanges = current
  BY <1>4, <1>5
<1> HIDE DEF blocks, prepares, prepared
<1> QED
  BY <1>1, <1>2, <1>3, <1>4, <1>5

\* What handleRoundChange does with a message, in one of three ways: go to the
\* later round, propose, or keep the message (roundchange.go:126-180).
LEMMA HandleRoundChangeCases ==
  ASSUME TypeInv, NEW n \in Validators, HandleRoundChange(n)
  PROVE  \E m, c :
            /\ m \in roundChange /\ c = AddRoundChange(core[n], m)
            /\ m.sequence = core[n].sequence
            /\ FollowRoundChange(n, c) \/ ProposeAgain(n, c) \/ KeepRoundChange(n, c)
BY DEF HandleRoundChange

\* FinalCommitted starts the next sequence or leaves what votes depend on as it is
\* (handleFinalCommitted, final_committed.go:21-29).
LEMMA HandleFinalCommittedStep ==
  ASSUME TypeOK, NEW n \in Validators, HandleFinalCommitted(n)
  PROVE  \E d : /\ Becomes(n, d)
                /\ \/ SameVotes(core[n], d) /\ d.roundChanges = core[n].roundChanges
                   \/ /\ d.sequence > core[n].sequence /\ d.round = 0
                      /\ d.state = "AcceptRequest" /\ d.preparedRound = NilRound
                      /\ d.roundChanges = {}
<1>1. PICK posted \in {"stopped", core[n].timer} :
        core' = [core EXCEPT
                    ![n] = startNewRound(n, [core[n] EXCEPT !.timer = posted], 0)]
  BY DEF HandleFinalCommitted
<1> DEFINE c == [core[n] EXCEPT !.timer = posted]
<1>2. core[n] \in CoreState /\ Len(chain[n]) \in Nat
  BY CoreOf
<1>3. posted \in {"stopped", "running"}
  BY <1>2 DEF CoreState
<1>4. /\ c \in CoreState /\ SameVotes(core[n], c)
      /\ c.roundChanges = core[n].roundChanges
  BY <1>2, <1>3 DEF CoreState, SameVotes
<1>5. core' = [core EXCEPT ![n] = startNewRound(n, c, 0)]
  BY <1>1
<1> HIDE DEF c
<1>6. PICK d : d = startNewRound(n, c, 0)
  OBVIOUS
<1>7. \/ d = c
      \/ /\ d \in CoreState
         /\ d.sequence > c.sequence
         /\ d.round = 0
         /\ d.state = "AcceptRequest"
         /\ d.preparedRound = NilRound
         /\ d.roundChanges = {}
  BY <1>2, <1>4, <1>6, CatchUpFacts
<1>8. Becomes(n, d)
  BY <1>4, <1>5, <1>6, <1>7 DEF Becomes
<1>9. c.sequence = core[n].sequence
  BY <1>4 DEF SameVotes
<1> QED
  BY <1>4, <1>7, <1>8, <1>9

-----------------------------------------------------------------------------
(***************************************************************************)
(* Type correctness.                                                       *)
(***************************************************************************)

\* The types are kept when one core goes to a state with a proposal where it
\* needs one, and the messages and chains keep theirs.
LEMMA TypeStep ==
  ASSUME TypeInv, NEW n \in Validators, NEW d, Becomes(n, d), HasProposal(d),
         chain' \in [Validators -> Seq(Block)], headEvent' \in [Validators -> BOOLEAN],
         panicked' \subseteq Validators, restarts' \in Nat,
         preprepare' \subseteq PreprepareMsg, prepare' \subseteq PrepareMsg,
         commit' \subseteq PrepareMsg, roundChange' \subseteq RoundChangeMsg,
         sealed' \subseteq Block
  PROVE  TypeInv'
<1>1. core \in [Validators -> CoreState]
  BY DEF TypeInv, TypeOK
<1>2. core' \in [Validators -> CoreState]
  BY <1>1 DEF Becomes
<1>3. \A k \in Validators : HasProposal(core'[k])
  BY <1>1 DEF Becomes, TypeInv
<1> QED
  BY <1>2, <1>3 DEF TypeInv, TypeOK, HasProposal

\* The same, for an action that changes no message.
LEMMA TypeQuiet ==
  ASSUME TypeInv, NEW n \in Validators, NEW d, Becomes(n, d), SameVotes(core[n], d),
         preprepare' \subseteq PreprepareMsg, panicked' \subseteq Validators,
         headEvent' \in [Validators -> BOOLEAN],
         UNCHANGED <<chain, restarts, prepare, commit, roundChange, sealed>>
  PROVE  TypeInv'
<1>1. HasProposal(d)
  BY DEF TypeInv, SameVotes, HasProposal
<1> QED
  BY <1>1, TypeStep DEF TypeInv, TypeOK

\* Every action keeps the types.
LEMMA TypeNext ==
  ASSUME TypeInv, Next
  PROVE  TypeInv'
<1> PICK n \in Validators :
        \/ HandleRequest(n) \/ NewRoundTimer(n) \/ HandlePreprepare(n)
        \/ HandlePrepare(n) \/ HandleCommit(n) \/ HandleRoundChange(n)
        \/ HandleTimeout(n) \/ HandleFinalCommitted(n) \/ InsertBlock(n)
        \/ Restart(n)
  BY DEF Next
<1> USE DEF messageVars
<1>0. TypeOK /\ HasProposal(core[n]) /\ Len(chain[n]) \in Nat
  BY CoreOf DEF TypeInv
<1>1. CASE HandleRequest(n)
  <2>1. PICK d : Becomes(n, d) /\ SameVotes(core[n], d)
    BY <1>0, <1>1, HandleRequestStep
  <2> QED
    BY <1>0, <1>1, <2>1, TypeQuiet DEF HandleRequest, TypeOK
<1>2. CASE NewRoundTimer(n)
  <2>1. PICK d : Becomes(n, d) /\ SameVotes(core[n], d)
    BY <1>0, <1>2, NewRoundTimerStep
  <2>2. preprepare' \subseteq PreprepareMsg
    BY <1>0, <1>2, NewRoundTimerStep
  <2> QED
    BY <1>0, <1>2, <2>1, <2>2, TypeQuiet DEF NewRoundTimer, TypeOK
<1>3. CASE HandlePreprepare(n)
  <2>1. PICK m, d :
            /\ m \in preprepare
            /\ Becomes(n, d) /\ d.proposal = m.block /\ m.block \in Block
            /\ Msg(n, m.sequence, m.round, m.block) \in PrepareMsg
            /\ prepare' = prepare \cup {Msg(n, m.sequence, m.round, m.block)}
    BY <1>0, <1>3, HandlePreprepareStep
  <2>2. HasProposal(d) /\ prepare' \subseteq PrepareMsg
    BY <1>0, <2>1 DEF HasProposal, TypeOK
  <2> QED
    BY <1>0, <1>3, <2>1, <2>2, TypeStep DEF HandlePreprepare, TypeOK
<1>4. CASE HandlePrepare(n)
  <2>1. PICK d :
            /\ Becomes(n, d) /\ d.proposal = core[n].proposal
            /\ core[n].proposal \in Block
            /\ Msg(n, d.sequence, d.round, d.proposal) \in PrepareMsg
            /\ commit' = commit \cup {Msg(n, d.sequence, d.round, d.proposal)}
    BY <1>4, HandlePrepareStep
  <2>2. HasProposal(d) /\ commit' \subseteq PrepareMsg
    BY <1>0, <2>1 DEF HasProposal, TypeOK
  <2> QED
    BY <1>0, <1>4, <2>1, <2>2, TypeStep DEF HandlePrepare, TypeOK
<1>5. CASE HandleCommit(n)
  <2>1. PICK d :
            /\ Becomes(n, d) /\ d.proposal = core[n].proposal
            /\ core[n].proposal \in Block
            /\ sealed' = sealed \cup {core[n].proposal}
    BY <1>5, HandleCommitStep
  <2>2. HasProposal(d) /\ sealed' \subseteq Block
    BY <1>0, <2>1 DEF HasProposal, TypeOK
  <2> QED
    BY <1>0, <1>5, <2>1, <2>2, TypeStep DEF HandleCommit, TypeOK
<1>6. CASE HandleRoundChange(n)
  <2>1. PICK m, c :
            /\ m \in roundChange /\ c = AddRoundChange(core[n], m)
            /\ m.sequence = core[n].sequence
            /\ FollowRoundChange(n, c) \/ ProposeAgain(n, c) \/ KeepRoundChange(n, c)
    BY <1>6, HandleRoundChangeCases
  <2>2. m \in RoundChangeMsg
    BY <1>0, <2>1 DEF TypeOK
  <2>3. c \in CoreState /\ HasProposal(c) /\ SameVotes(core[n], c)
    BY <2>1, <2>2, AddedStep
  <2>4. UNCHANGED <<chain, headEvent, restarts, prepare, commit, sealed>>
    BY <1>6 DEF HandleRoundChange
  <2>5. CASE FollowRoundChange(n, c)
    <3>1. PICK r \in getMinRoundChange(c, c.round) :
            /\ core' = [core EXCEPT ![n] = startNewRound(n, c, r)]
            /\ roundChange' = roundChange \cup
                    broadcastRoundChange(n, startNewRound(n, c, r), r)
      BY <2>5 DEF FollowRoundChange
    <3>2. r \in Nat
      BY <2>3, MinRoundChange
    <3>3. PICK d : Becomes(n, d) /\ HasProposal(d)
      BY <1>0, <2>3, <3>1, <3>2, MoveType
    <3>4. roundChange' \subseteq RoundChangeMsg
      BY <1>0, <2>3, <3>1, <3>2, MoveType
    <3>5. UNCHANGED <<preprepare, panicked>>
      BY <2>5 DEF FollowRoundChange
    <3> QED
      BY <1>0, <2>4, <3>3, <3>4, <3>5, TypeStep DEF TypeOK
  <2>6. CASE ProposeAgain(n, c)
    <3>1. PICK d : Becomes(n, d) /\ SameVotes(c, d)
      BY <1>0, <2>3, <2>6, ProposeAgainStep
    <3>2. /\ preprepare' \subseteq PreprepareMsg /\ panicked' \subseteq Validators
          /\ UNCHANGED roundChange
      BY <1>0, <2>3, <2>6, ProposeAgainStep
    <3>3. SameVotes(core[n], d)
      BY <2>3, <3>1 DEF SameVotes
    <3> QED
      BY <1>0, <2>4, <3>1, <3>2, <3>3, TypeQuiet DEF TypeOK
  <2>7. CASE KeepRoundChange(n, c)
    <3>1. Becomes(n, c) /\ UNCHANGED <<preprepare, roundChange, panicked>>
      BY <2>3, <2>7 DEF KeepRoundChange, Becomes
    <3> QED
      BY <1>0, <2>3, <2>4, <3>1, TypeQuiet DEF TypeOK
  <2> QED
    BY <2>1, <2>5, <2>6, <2>7
<1>7. CASE HandleTimeout(n)
  <2>1. /\ core' = [core EXCEPT ![n] = startNewRound(n, core[n], core[n].round + 1)]
        /\ roundChange' = roundChange \cup
                broadcastRoundChange(n, startNewRound(n, core[n], core[n].round + 1),
                                     core[n].round + 1)
    BY <1>7 DEF HandleTimeout
  <2>2. core[n] \in CoreState /\ core[n].round + 1 \in Nat
    BY <1>0, CoreOf
  <2>3. PICK r \in Nat : r = core[n].round + 1
    BY <2>2
  <2>4. PICK d : Becomes(n, d) /\ HasProposal(d)
    BY <1>0, <2>1, <2>2, <2>3, MoveType
  <2>5. roundChange' \subseteq RoundChangeMsg
    BY <1>0, <2>1, <2>2, <2>3, MoveType
  <2> QED
    BY <1>0, <1>7, <2>4, <2>5, TypeStep DEF HandleTimeout, TypeOK
<1>8. CASE HandleFinalCommitted(n)
  <2>1. PICK d : /\ Becomes(n, d)
                 /\ SameVotes(core[n], d) \/ d.state = "AcceptRequest"
    BY <1>0, <1>8, HandleFinalCommittedStep
  <2>2. HasProposal(d)
    BY <1>0, <2>1 DEF SameVotes, HasProposal
  <2>3. headEvent' \in [Validators -> BOOLEAN]
    BY <1>0, <1>8 DEF HandleFinalCommitted, TypeOK
  <2> QED
    BY <1>0, <1>8, <2>1, <2>2, <2>3, TypeStep DEF HandleFinalCommitted, TypeOK
<1>9. CASE InsertBlock(n)
  <2>1. chain' \in [Validators -> Seq(Block)]
    BY <1>0, <1>9 DEF InsertBlock, TypeOK
  <2>2. headEvent' \in [Validators -> BOOLEAN]
    BY <1>0, <1>9 DEF InsertBlock, TypeOK
  <2>3. UNCHANGED <<core, panicked, restarts, messageVars, sealed>>
    BY <1>9 DEF InsertBlock
  <2> QED
    BY <1>0, <2>1, <2>2, <2>3 DEF TypeInv, TypeOK, HasProposal
<1>10. CASE Restart(n)
  <2>1. PICK q \in Nat : q = Len(chain[n]) + 1
    BY <1>0
  <2>2. NewSequence(q) \in CoreState /\ HasProposal(NewSequence(q))
    BY NewSequenceType DEF HasProposal, NewSequence
  <2>3. Becomes(n, NewSequence(q))
    BY <1>10, <2>1, <2>2 DEF Restart, Becomes
  <2>4. /\ headEvent' \in [Validators -> BOOLEAN]
        /\ panicked' \subseteq Validators
        /\ restarts' \in Nat
        /\ UNCHANGED <<chain, messageVars, sealed>>
    BY <1>0, <1>10 DEF Restart, TypeOK
  <2> QED
    BY <1>0, <2>2, <2>3, <2>4, TypeStep DEF TypeOK
<1> QED
  BY <1>1, <1>2, <1>3, <1>4, <1>5, <1>6, <1>7, <1>8, <1>9, <1>10

\* The initial state has the types.
LEMMA TypeInit == Init => TypeInv
<1> SUFFICES ASSUME Init PROVE TypeInv
  OBVIOUS
<1>1. NewSequence(1) \in CoreState /\ HasProposal(NewSequence(1))
  BY NewSequenceType DEF HasProposal, NewSequence
<1>2. core \in [Validators -> CoreState] /\ \A n \in Validators : HasProposal(core[n])
  BY <1>1 DEF Init
<1>3. chain \in [Validators -> Seq(Block)]
  BY DEF Init
<1>4. headEvent \in [Validators -> BOOLEAN]
  BY DEF Init
<1> QED
  BY <1>2, <1>3, <1>4 DEF Init, TypeInv, TypeOK

\* The state of the validators, their chains and their messages keep their types
\* for every value of the constants.
THEOREM QbftTypeCorrect == Spec => []TypeOK
<1>1. TypeInv /\ [Next]_vars => TypeInv'
  <2> SUFFICES ASSUME TypeInv, [Next]_vars PROVE TypeInv'
    OBVIOUS
  <2>1. CASE Next
    BY <2>1, TypeNext
  <2>2. CASE UNCHANGED vars
    BY <2>2 DEF vars, messageVars, TypeInv, TypeOK, HasProposal
  <2> QED
    BY <2>1, <2>2
<1>2. TypeInv => TypeOK
  BY DEF TypeInv
<1> QED
  BY <1>1, <1>2, TypeInit, PTL DEF Spec

-----------------------------------------------------------------------------
(***************************************************************************)
(* The inductive invariant.                                                *)
(***************************************************************************)

\* What a core knows is backed by messages: its proposal is a block of its
\* sequence, what it prepared has a quorum of PREPAREs and an earlier round (or
\* this one, once prepared), and its round-change set holds ROUND-CHANGEs of its
\* sequence, one per sender and round.
Backed(c) ==
  /\ c.state # "AcceptRequest" => c.proposal.number = c.sequence
  /\ c.preparedRound # NilRound =>
        Prepared(c.sequence, c.preparedRound, c.preparedBlock)
  /\ c.preparedRound <= c.round
  /\ c.state \in {"AcceptRequest", "Preprepared"} => c.preparedRound < c.round
  /\ \A m \in c.roundChanges : m \in roundChange /\ m.sequence = c.sequence
  /\ \A a, b \in c.roundChanges : a.source = b.source /\ a.round = b.round => a = b

\* What n has sent does not go past its core: at most one PREPARE in its view,
\* COMMITs up to the round it prepared, ROUND-CHANGEs up to its round.
Bound(n, c) ==
  /\ \A m \in prepare : m.source = n =>
        \/ m.sequence < c.sequence
        \/ m.sequence = c.sequence /\ m.round < c.round
        \/ InView(m, c) /\ c.state # "AcceptRequest" /\ m.block = c.proposal
  /\ \A m \in commit : m.source = n =>
        \/ m.sequence < c.sequence
        \/ m.sequence = c.sequence /\ m.round <= c.preparedRound
  /\ \A m \in roundChange : m.source = n =>
        \/ m.sequence < c.sequence
        \/ m.sequence = c.sequence /\ m.round <= c.round

\* What a core knows is backed by messages, and what it sent is within its view.
CoreInv ==
  \A n \in Validators :
    /\ Backed(core[n])
    /\ n \notin Restarting => Bound(n, core[n])

\* Votes are for blocks of their height.
PrepareInv == \A m \in prepare : m.block.number = m.sequence

\* A COMMIT is backed by a quorum of PREPAREs.
CommitInv == \A m \in commit : Prepared(m.sequence, m.round, m.block)

\* So is the prepared round of a ROUND-CHANGE.
RoundChangeInv ==
  \A m \in roundChange : m.preparedRound # NilRound =>
    /\ m.preparedRound < m.round
    /\ Prepared(m.sequence, m.preparedRound, m.preparedBlock)

\* The ROUND-CHANGEs of a proposal are of its view, one per sender.
Justification(S, s, r) ==
  /\ \A m \in S : m \in roundChange /\ m.sequence = s /\ m.round = r
  /\ \A a, b \in S : a.source = b.source => a = b

\* A PRE-PREPARE of a later round is justified by ROUND-CHANGEs that were sent.
PreprepareInv ==
  \A p \in preprepare :
    /\ p.block.number = p.sequence
    /\ Justification(p.roundChanges, p.sequence, p.round)

\* n has left the rounds up to d of a sequence, and has committed to no block but
\* b in round d.
Left(n, s, d, b) ==
  /\ \E m \in roundChange : m.source = n /\ m.sequence = s /\ m.round > d
  /\ \A m \in commit : m.source = n /\ m.sequence = s /\ m.round = d => m.block = b

\* No block but b can be committed in a round of the sequence before r.
Safe(s, r, b) ==
  \A d \in Nat : d < r => \E Q \in Quorums : \A n \in Q \ Restarting : Left(n, s, d, b)

\* Only safe blocks are voted for.
SafeInv == \A m \in prepare : Safe(m.sequence, m.round, m.block)

\* A sealed block has a quorum of COMMITs.
SealedInv == \A b \in sealed : \E r \in Nat : Committed(b.number, r, b)

\* The inductive invariant.
IInv ==
  /\ TypeInv /\ CoreInv
  /\ PrepareInv /\ CommitInv /\ RoundChangeInv /\ PreprepareInv
  /\ OneVotePerView /\ CommitsAreCarried
  /\ SafeInv /\ SealedInv

-----------------------------------------------------------------------------
(***************************************************************************)
(* What the invariant says of proposals and decisions.                     *)
(***************************************************************************)

\* Two quorums of PREPAREs of one view are for one block.
LEMMA OnePreparedPerView ==
  ASSUME QuorumsMeet, OneVotePerView, NEW s, NEW r, NEW a, NEW b,
         Prepared(s, r, a), Prepared(s, r, b)
  PROVE  a = b
<1>1. PICK P \in Quorums : \A n \in P : Msg(n, s, r, a) \in prepare
  BY DEF Prepared
<1>2. PICK Q \in Quorums : \A n \in Q : Msg(n, s, r, b) \in prepare
  BY DEF Prepared
<1>3. PICK n \in P \cap Q : n \notin Restarting
  BY DEF QuorumsMeet
<1>4. Msg(n, s, r, a) \in prepare /\ Msg(n, s, r, b) \in prepare
  BY <1>1, <1>2
<1> QED
  BY <1>3, <1>4 DEF OneVotePerView, Msg

\* A quorum of PREPAREs shows that a block is safe.
LEMMA PreparedIsSafe ==
  ASSUME QuorumsMeet, SafeInv, NEW s, NEW r, NEW b, Prepared(s, r, b)
  PROVE  Safe(s, r, b)
<1>1. PICK Q \in Quorums : \A n \in Q : Msg(n, s, r, b) \in prepare
  BY DEF Prepared
<1>2. PICK n \in Q \cap Q : n \notin Restarting
  BY DEF QuorumsMeet
<1>3. Msg(n, s, r, b) \in prepare
  BY <1>1
<1> QED
  BY <1>3 DEF SafeInv, Msg

\* A justified proposal of a later round is safe (isJustified,
\* justification.go:20-109): this is what the round change is for.
LEMMA JustifiedIsSafe ==
  ASSUME IInv, QuorumsMeet, NEW s \in Nat, NEW r \in Nat, NEW b,
         NEW S, NEW prepares, prepares \subseteq Certificate,
         Justification(S, s, r), isJustified(b, S, prepares)
  PROVE  Safe(s, r, b)
<1>1. /\ S \subseteq RoundChangeMsg
      /\ commit \subseteq PrepareMsg
      /\ \A m \in S : m \in roundChange /\ m.sequence = s /\ m.round = r
      /\ \A x, y \in S : x.source = y.source => x = y
  BY DEF IInv, TypeInv, TypeOK, Justification
<1>2. \A m \in RoundChangeMsg : /\ m.source \in Validators
                                /\ m.preparedRound \in Int /\ m.round \in Nat
                                /\ m.preparedRound # NilRound => m.preparedRound \in Nat
  BY DEF RoundChangeMsg, NilRound
<1>3. \A m \in commit : m.round \in Nat
  BY <1>1 DEF PrepareMsg
\* The validators of a quorum of S have left round d, and have not committed in
\* it when they report a lower prepared round.
<1>4. ASSUME NEW d \in Nat, d < r, NEW m \in S, m.source \notin Restarting
      PROVE  /\ \E x \in roundChange : x.source = m.source /\ x.sequence = s /\ x.round > d
             /\ \A c \in commit : c.source = m.source /\ c.sequence = s /\ c.round = d
                    => m.preparedRound >= d
  <2>1. m \in roundChange /\ m.sequence = s /\ m.round = r
    BY <1>1
  <2> QED
    BY <1>4, <2>1 DEF IInv, CommitsAreCarried
<1>5. CASE prepares = {}
  <2> DEFINE T == {m \in S : m.preparedRound = NilRound}
             Q == {m.source : m \in T}
  <2>1. Cardinality(T) >= QuorumSize
    BY <1>1, <1>5 DEF isJustified
  <2>2. Q \in Quorums
    <3>1. \A m \in T : m.source \in Validators
      BY <1>1, <1>2
    <3>2. \A x, y \in T : x.source = y.source => x = y
      BY <1>1
    <3> HIDE DEF T
    <3> QED
      BY <2>1, <3>1, <3>2, Senders
  <2>3. ASSUME NEW d \in Nat, d < r, NEW n \in Q \ Restarting
        PROVE  Left(n, s, d, b)
    <3>1. PICK m \in S : m.source = n /\ m.preparedRound = NilRound
      OBVIOUS
    <3>2. ~(NilRound >= d)
      BY DEF NilRound
    <3> QED
      BY <1>4, <2>3, <3>1, <3>2 DEF Left
  <2> HIDE DEF Q
  <2> QED
    BY <2>2, <2>3 DEF Safe
<1>6. CASE prepares # {}
  <2>1. PICK p \in prepares :
            /\ Cardinality({m \in S : m.preparedRound <= p.round}) >= QuorumSize
            /\ \E m \in S : m.preparedRound = p.round /\ m.preparedBlock = b
    BY <1>6 DEF isJustified
  <2>2. PICK k \in Nat : k = p.round
    BY <2>1 DEF Certificate
  <2>3. Prepared(s, k, b)
    <3>1. PICK m \in S : m.preparedRound = k /\ m.preparedBlock = b
      BY <2>1, <2>2
    <3>2. k # NilRound
      BY DEF NilRound
    <3>3. m \in roundChange /\ m.sequence = s
      BY <1>1
    <3> QED
      BY <3>1, <3>2, <3>3 DEF IInv, RoundChangeInv
  <2> DEFINE T == {m \in S : m.preparedRound <= k}
             Q == {m.source : m \in T}
  <2>4. Q \in Quorums
    <3>0. Cardinality(T) >= QuorumSize
      BY <2>1, <2>2
    <3>1. \A m \in T : m.source \in Validators
      BY <1>1, <1>2
    <3>2. \A x, y \in T : x.source = y.source => x = y
      BY <1>1
    <3> HIDE DEF T
    <3> QED
      BY <3>0, <3>1, <3>2, Senders
  <2>5. ASSUME NEW d \in Nat, d < r, d >= k, NEW n \in Q \ Restarting
        PROVE  Left(n, s, d, b)
    <3>1. PICK m \in S : m.source = n /\ m.preparedRound <= k
      OBVIOUS
    <3>2. ASSUME NEW c \in commit, c.source = n, c.sequence = s, c.round = d
          PROVE  c.block = b
      <4>1. m.preparedRound >= d
        BY <1>4, <2>5, <3>1, <3>2
      <4>2. d = k
        BY <1>1, <1>2, <2>5, <3>1, <4>1
      <4>3. Prepared(s, k, c.block)
        BY <3>2, <4>2 DEF IInv, CommitInv
      <4> QED
        BY <2>3, <4>3, OnePreparedPerView DEF IInv
    <3> QED
      BY <1>4, <2>5, <3>1, <3>2 DEF Left
  <2>6. Safe(s, k, b)
    BY <2>3, PreparedIsSafe DEF IInv
  <2> HIDE DEF Q
  <2>7. ASSUME NEW d \in Nat, d < r
        PROVE  \E P \in Quorums : \A n \in P \ Restarting : Left(n, s, d, b)
    <3>1. CASE d < k
      BY <2>6, <3>1 DEF Safe
    <3>2. CASE d >= k
      BY <2>4, <2>5, <2>7, <3>2
    <3> QED
      BY <3>1, <3>2
  <2> QED
    BY <2>7 DEF Safe
<1> QED
  BY <1>5, <1>6

-----------------------------------------------------------------------------
(***************************************************************************)
(* Every step keeps the invariant.                                         *)
(***************************************************************************)

\* The numbers of a core.
LEMMA CoreNumbers ==
  ASSUME NEW c \in CoreState
  PROVE  /\ c.sequence \in Nat /\ c.round \in Nat /\ c.preparedRound \in Int
         /\ c.preparedRound # NilRound => c.preparedRound \in Nat
         /\ c.preparedRound >= NilRound
         /\ NilRound = -1
BY DEF CoreState, NilRound

\* The numbers of the messages.
LEMMA MessageNumbers ==
  ASSUME TypeOK
  PROVE  /\ \A m \in prepare : m.sequence \in Nat /\ m.round \in Nat
         /\ \A m \in commit : m.sequence \in Nat /\ m.round \in Nat
         /\ \A m \in roundChange : /\ m.sequence \in Nat /\ m.round \in Nat
                                   /\ m.preparedRound \in Int
BY DEF TypeOK, PrepareMsg, RoundChangeMsg, NilRound

\* Quorums of messages stay.
LEMMA QuorumsStay ==
  /\ prepare \subseteq prepare' =>
        \A s, r, b : Prepared(s, r, b) => Prepared(s, r, b)'
  /\ commit \subseteq commit' =>
        \A s, r, b : Committed(s, r, b) => Committed(s, r, b)'
BY DEF Prepared, Committed

\* One core steps and sends messages of its own: the other cores stay backed and
\* bound.
LEMMA CoreStep ==
  ASSUME CoreInv, core \in [Validators -> CoreState],
         NEW n \in Validators, NEW d, Becomes(n, d),
         prepare \subseteq prepare', commit \subseteq commit',
         roundChange \subseteq roundChange',
         \A m \in prepare' : m \in prepare \/ m.source = n,
         \A m \in commit' : m \in commit \/ m.source = n,
         \A m \in roundChange' : m \in roundChange \/ m.source = n,
         Backed(d)', n \notin Restarting => Bound(n, d)'
  PROVE  CoreInv'
<1> SUFFICES ASSUME NEW k \in Validators
             PROVE  /\ Backed(core[k])'
                    /\ k \notin Restarting => Bound(k, core[k])'
  BY DEF CoreInv
<1>1. CASE k = n
  <2>1. core'[k] = d
    BY <1>1 DEF Becomes
  <2> QED
    BY <1>1, <2>1 DEF Backed, Bound, InView
<1>2. CASE k # n
  <2>1. core'[k] = core[k]
    BY <1>2 DEF Becomes
  <2>2. Backed(core[k]) /\ (k \notin Restarting => Bound(k, core[k]))
    BY DEF CoreInv
  <2>3. \A s, r, b : Prepared(s, r, b) => Prepared(s, r, b)'
    BY QuorumsStay
  <2>4. Backed(core[k])'
    BY <2>1, <2>2, <2>3 DEF Backed
  <2>5. k \notin Restarting => Bound(k, core[k])'
    BY <1>2, <2>1, <2>2 DEF Bound, InView
  <2> QED
    BY <2>4, <2>5
<1> QED
  BY <1>1, <1>2

\* What the invariant says of the votes stays when no vote is cast.
LEMMA VotesStay ==
  ASSUME IInv, UNCHANGED <<prepare, commit, roundChange>>
  PROVE  /\ PrepareInv' /\ CommitInv' /\ RoundChangeInv'
         /\ OneVotePerView' /\ CommitsAreCarried' /\ SafeInv'
         /\ sealed' = sealed => SealedInv'
<1>1. PrepareInv' /\ OneVotePerView' /\ CommitsAreCarried'
  BY DEF IInv, PrepareInv, OneVotePerView, CommitsAreCarried
<1>2. \A s, r, b : (Prepared(s, r, b) => Prepared(s, r, b)')
                /\ (Committed(s, r, b) => Committed(s, r, b)')
  BY QuorumsStay
<1>3. CommitInv' /\ RoundChangeInv' /\ (sealed' = sealed => SealedInv')
  BY <1>2 DEF IInv, CommitInv, RoundChangeInv, SealedInv
<1>4. SafeInv'
  BY DEF IInv, SafeInv, Safe, Left
<1> QED
  BY <1>1, <1>3, <1>4

\* A step that casts no vote and leaves what the votes of its core depend on.
LEMMA QuietKeeps ==
  ASSUME IInv, TypeInv', NEW n \in Validators, NEW d, Becomes(n, d),
         SameVotes(core[n], d),
         \A m \in d.roundChanges : m \in roundChange /\ m.sequence = d.sequence,
         \A a, b \in d.roundChanges : a.source = b.source /\ a.round = b.round => a = b,
         UNCHANGED <<prepare, commit, roundChange, sealed>>,
         \A p \in preprepare' : \/ p \in preprepare
                                \/ /\ p.block.number = p.sequence
                                   /\ Justification(p.roundChanges, p.sequence, p.round)
  PROVE  IInv'
<1>1. /\ core \in [Validators -> CoreState] /\ CoreInv
      /\ Backed(core[n]) /\ (n \notin Restarting => Bound(n, core[n]))
  BY DEF IInv, TypeInv, TypeOK, CoreInv
<1>2. Backed(d)'
  <2>1. \A s, r, b : Prepared(s, r, b) => Prepared(s, r, b)'
    BY QuorumsStay
  <2> QED
    BY <1>1, <2>1 DEF Backed, SameVotes
<1>3. n \notin Restarting => Bound(n, d)'
  BY <1>1 DEF Bound, SameVotes, InView
<1>4. CoreInv'
  BY <1>1, <1>2, <1>3, CoreStep
<1>5. PreprepareInv'
  BY DEF IInv, PreprepareInv, Justification
<1> QED
  BY <1>4, <1>5, VotesStay DEF IInv

\* A core that starts a later sequence with nothing prepared has sent nothing in it.
LEMMA NewSequenceKeeps ==
  ASSUME IInv, TypeInv', NEW n \in Validators, NEW d, Becomes(n, d),
         d.sequence > core[n].sequence \/ n \in Restarting,
         d.round = 0, d.state = "AcceptRequest", d.preparedRound = NilRound,
         d.roundChanges = {},
         UNCHANGED <<preprepare, prepare, commit, roundChange, sealed>>
  PROVE  IInv'
<1>1. /\ core \in [Validators -> CoreState] /\ CoreInv /\ TypeOK
      /\ n \notin Restarting => Bound(n, core[n])
  BY DEF IInv, TypeInv, TypeOK, CoreInv
<1>2. Backed(d)'
  BY DEF Backed, NilRound
<1>3. n \notin Restarting => Bound(n, d)'
  <2>1. core[n].sequence \in Nat /\ d.sequence \in Nat
    BY <1>1, CoreNumbers DEF Becomes
  <2>2. n \notin Restarting =>
            /\ \A m \in prepare : m.source = n => m.sequence < d.sequence
            /\ \A m \in commit : m.source = n => m.sequence < d.sequence
            /\ \A m \in roundChange : m.source = n => m.sequence < d.sequence
    BY <1>1, <2>1, MessageNumbers DEF Bound, InView
  <2> QED
    BY <2>2 DEF Bound
<1>4. CoreInv'
  BY <1>1, <1>2, <1>3, CoreStep
<1>5. PreprepareInv'
  BY DEF IInv, PreprepareInv, Justification
<1> QED
  BY <1>4, <1>5, VotesStay DEF IInv

\* Supporting a justified proposal (handlePreprepareMsg, preprepare.go:103-163).
LEMMA HandlePreprepareKeeps ==
  ASSUME IInv, TypeInv', QuorumsMeet, NEW n \in Validators, HandlePreprepare(n)
  PROVE  IInv'
<1>0. TypeOK /\ core \in [Validators -> CoreState] /\ CoreInv
  BY DEF IInv, TypeInv, TypeOK
<1>1. PICK m, d :
            /\ m \in preprepare
            /\ Becomes(n, d)
            /\ core[n].state = "AcceptRequest"
            /\ InView(m, core[n])
            /\ m.round > 0 => isJustified(m.block, m.roundChanges, m.prepares)
            /\ d.sequence = core[n].sequence /\ d.round = core[n].round
            /\ d.state = "Preprepared" /\ d.proposal = m.block
            /\ d.preparedRound = core[n].preparedRound
            /\ d.preparedBlock = core[n].preparedBlock
            /\ d.roundChanges = core[n].roundChanges
            /\ prepare' = prepare \cup {Msg(n, m.sequence, m.round, m.block)}
  BY <1>0, HandlePreprepareStep
<1> DEFINE v == Msg(n, m.sequence, m.round, m.block)
<1>2. /\ v.source = n /\ v.sequence = m.sequence /\ v.round = m.round
      /\ v.block = m.block
      /\ m.sequence = core[n].sequence /\ m.round = core[n].round
  BY <1>1 DEF Msg, InView
<1>3. prepare' = prepare \cup {v} /\ UNCHANGED <<preprepare, commit, roundChange, sealed>>
  BY <1>1 DEF HandlePreprepare
<1> HIDE DEF v
<1>4. \A s, r, b : Prepared(s, r, b) => Prepared(s, r, b)'
  BY <1>3, QuorumsStay
<1>5. /\ Backed(core[n]) /\ (n \notin Restarting => Bound(n, core[n]))
      /\ m.block.number = m.sequence
      /\ Justification(m.roundChanges, m.sequence, m.round)
  BY <1>1 DEF IInv, CoreInv, PreprepareInv
<1>6. Backed(d)'
  BY <1>1, <1>2, <1>3, <1>4, <1>5 DEF Backed
<1>7. n \notin Restarting => Bound(n, d)'
  <2> SUFFICES ASSUME n \notin Restarting PROVE Bound(n, d)'
    OBVIOUS
  <2>1. Bound(n, core[n])
    BY <1>5
  <2>2. \A x \in prepare : x.source = n =>
            \/ x.sequence < d.sequence
            \/ x.sequence = d.sequence /\ x.round < d.round
    BY <1>1, <2>1 DEF Bound
  <2>3. \A x \in prepare' : x.source = n =>
            \/ x.sequence < d.sequence
            \/ x.sequence = d.sequence /\ x.round < d.round
            \/ InView(x, d) /\ d.state # "AcceptRequest" /\ x.block = d.proposal
    BY <1>1, <1>2, <1>3, <2>2 DEF InView
  <2>4. /\ \A x \in commit' : x.source = n =>
                \/ x.sequence < d.sequence
                \/ x.sequence = d.sequence /\ x.round <= d.preparedRound
        /\ \A x \in roundChange' : x.source = n =>
                \/ x.sequence < d.sequence
                \/ x.sequence = d.sequence /\ x.round <= d.round
    BY <1>1, <1>3, <2>1 DEF Bound
  <2> QED
    BY <2>3, <2>4 DEF Bound, InView
<1>8. CoreInv'
  BY <1>0, <1>1, <1>2, <1>3, <1>6, <1>7, CoreStep
<1>9. PrepareInv' /\ CommitInv' /\ RoundChangeInv' /\ PreprepareInv'
  BY <1>2, <1>3, <1>4, <1>5
     DEF IInv, PrepareInv, CommitInv, RoundChangeInv, PreprepareInv, Justification
<1>10. OneVotePerView'
  <2>1. \A x \in prepare : x.source = n /\ n \notin Restarting =>
            ~(x.sequence = v.sequence /\ x.round = v.round)
    <3>1. core[n].sequence \in Nat /\ core[n].round \in Nat
      BY <1>0, CoreOf
    <3> QED
      BY <1>1, <1>2, <1>5, <3>1 DEF Bound
  <2> QED
    BY <1>2, <1>3, <2>1 DEF IInv, OneVotePerView
<1>11. CommitsAreCarried' /\ SealedInv'
  BY <1>3 DEF IInv, CommitsAreCarried, SealedInv, Committed
<1>12. SafeInv'
  <2>1. \A s, r, b : Safe(s, r, b) => Safe(s, r, b)'
    BY <1>3 DEF Safe, Left
  <2>2. Safe(m.sequence, m.round, m.block)
    <3>1. m.sequence \in Nat /\ m.round \in Nat /\ m.prepares \subseteq Certificate
      BY <1>0, <1>1 DEF TypeOK, PreprepareMsg
    <3>2. CASE m.round = 0
      BY <3>2 DEF Safe
    <3>3. CASE m.round > 0
      BY <1>1, <1>5, <3>1, <3>3, JustifiedIsSafe
    <3> QED
      BY <3>1, <3>2, <3>3
  <2>3. \A x \in prepare : Safe(x.sequence, x.round, x.block)
    BY DEF IInv, SafeInv
  <2> QED
    BY <1>2, <1>3, <2>1, <2>2, <2>3 DEF SafeInv
<1> QED
  BY <1>8, <1>9, <1>10, <1>11, <1>12 DEF IInv

\* Preparing and committing to the proposal (handlePrepare, prepare.go:73-119).
LEMMA HandlePrepareKeeps ==
  ASSUME IInv, TypeInv', NEW n \in Validators, HandlePrepare(n)
  PROVE  IInv'
<1>0. TypeInv /\ TypeOK /\ core \in [Validators -> CoreState] /\ CoreInv
  BY DEF IInv, TypeInv, TypeOK
<1>1. PICK d :
            /\ Becomes(n, d)
            /\ core[n].state = "Preprepared"
            /\ core[n].proposal \in Block
            /\ Prepared(core[n].sequence, core[n].round, core[n].proposal)
            /\ d.sequence = core[n].sequence /\ d.round = core[n].round
            /\ d.state = "Prepared" /\ d.proposal = core[n].proposal
            /\ d.preparedRound = core[n].round
            /\ d.preparedBlock = core[n].proposal
            /\ d.roundChanges = core[n].roundChanges
            /\ commit' = commit \cup {Msg(n, d.sequence, d.round, d.proposal)}
  BY <1>0, HandlePrepareStep
<1> DEFINE v == Msg(n, d.sequence, d.round, d.proposal)
<1>2. v.source = n /\ v.sequence = d.sequence /\ v.round = d.round /\ v.block = d.proposal
  BY DEF Msg
<1>3. commit' = commit \cup {v} /\ UNCHANGED <<preprepare, prepare, roundChange, sealed>>
  BY <1>1 DEF HandlePrepare
<1> HIDE DEF v
<1>4. \A s, r, b : Prepared(s, r, b) => Prepared(s, r, b)'
  BY <1>3, QuorumsStay
<1>5. Backed(core[n]) /\ (n \notin Restarting => Bound(n, core[n]))
  BY DEF IInv, CoreInv
<1>6. core[n] \in CoreState /\ core[n].round \in Nat /\ core[n].sequence \in Nat
  BY <1>0, CoreOf
<1>7. Backed(d)'
  BY <1>1, <1>3, <1>4, <1>5, <1>6 DEF Backed
<1>8. n \notin Restarting => Bound(n, d)'
  <2> SUFFICES ASSUME n \notin Restarting PROVE Bound(n, d)'
    OBVIOUS
  <2>1. Bound(n, core[n]) /\ core[n].preparedRound < core[n].round
    BY <1>1, <1>5 DEF Backed
  <2>2. \A x \in commit : x.source = n =>
            \/ x.sequence < d.sequence
            \/ x.sequence = d.sequence /\ x.round <= d.preparedRound
    <3>1. core[n].preparedRound \in Int
      BY <1>6, CoreNumbers
    <3> QED
      BY <1>0, <1>1, <1>6, <2>1, <3>1, MessageNumbers DEF Bound
  <2>3. \A x \in commit' : x.source = n =>
            \/ x.sequence < d.sequence
            \/ x.sequence = d.sequence /\ x.round <= d.preparedRound
    BY <1>1, <1>2, <1>3, <1>6, <2>2
  <2>4. \A x \in prepare' : x.source = n =>
            \/ x.sequence < d.sequence
            \/ x.sequence = d.sequence /\ x.round < d.round
            \/ InView(x, d) /\ d.state # "AcceptRequest" /\ x.block = d.proposal
    BY <1>1, <1>3, <2>1 DEF Bound, InView
  <2>5. \A x \in roundChange' : x.source = n =>
            \/ x.sequence < d.sequence
            \/ x.sequence = d.sequence /\ x.round <= d.round
    BY <1>1, <1>3, <2>1 DEF Bound
  <2> QED
    BY <2>3, <2>4, <2>5 DEF Bound, InView
<1>9. CoreInv'
  BY <1>0, <1>1, <1>2, <1>3, <1>7, <1>8, CoreStep
<1>10. PrepareInv' /\ CommitInv' /\ RoundChangeInv' /\ PreprepareInv' /\ OneVotePerView'
  BY <1>1, <1>2, <1>3, <1>4
     DEF IInv, PrepareInv, CommitInv, RoundChangeInv, PreprepareInv, Justification,
         OneVotePerView
\* n has sent no ROUND-CHANGE for a later round of the sequence.
<1>11. ASSUME n \notin Restarting, NEW x \in roundChange, x.source = n,
              x.sequence = d.sequence
       PROVE  ~(x.round > d.round)
  BY <1>0, <1>1, <1>5, <1>6, <1>11, MessageNumbers DEF Bound
<1>12. CommitsAreCarried'
  <2>1. \A x \in roundChange : x.source = n /\ n \notin Restarting
                                /\ x.sequence = d.sequence => ~(d.round < x.round)
    BY <1>0, <1>1, <1>6, <1>11, MessageNumbers
  <2> QED
    BY <1>2, <1>3, <2>1 DEF IInv, CommitsAreCarried
<1>13. SealedInv'
  BY <1>3, QuorumsStay DEF IInv, SealedInv
<1>14. SafeInv'
  <2>1. ASSUME NEW k \in Validators \ Restarting, NEW s, NEW e, NEW b, Left(k, s, e, b)
        PROVE  Left(k, s, e, b)'
    <3>1. ~(k = v.source /\ s = v.sequence /\ e = v.round)
      BY <1>2, <1>11, <2>1 DEF Left
    <3> QED
      BY <1>3, <2>1, <3>1 DEF Left
  <2>2. \A s, r, b : Safe(s, r, b) => Safe(s, r, b)'
    BY <2>1 DEF Safe, Quorums
  <2> QED
    BY <1>3, <2>2 DEF IInv, SafeInv
<1> QED
  BY <1>9, <1>10, <1>12, <1>13, <1>14 DEF IInv

\* Committing: what is sealed has a quorum of COMMITs (handleCommitMsg,
\* commit.go:88-142).
LEMMA HandleCommitKeeps ==
  ASSUME IInv, TypeInv', NEW n \in Validators, HandleCommit(n)
  PROVE  IInv'
<1>0. TypeInv /\ TypeOK /\ core \in [Validators -> CoreState] /\ CoreInv
  BY DEF IInv, TypeInv, TypeOK
<1>1. PICK d :
            /\ Becomes(n, d)
            /\ core[n].state = "Prepared"
            /\ core[n].proposal \in Block
            /\ Committed(core[n].sequence, core[n].round, core[n].proposal)
            /\ d.sequence = core[n].sequence /\ d.round = core[n].round
            /\ d.state = "Committed" /\ d.proposal = core[n].proposal
            /\ d.preparedRound = core[n].preparedRound
            /\ d.preparedBlock = core[n].preparedBlock
            /\ d.roundChanges = core[n].roundChanges
            /\ sealed' = sealed \cup {core[n].proposal}
  BY <1>0, HandleCommitStep
<1>2. UNCHANGED <<preprepare, prepare, commit, roundChange>>
  BY DEF HandleCommit, messageVars
<1>3. Backed(core[n]) /\ (n \notin Restarting => Bound(n, core[n]))
  BY DEF IInv, CoreInv
<1>4. Backed(d)'
  <2>1. \A s, r, b : Prepared(s, r, b) => Prepared(s, r, b)'
    BY <1>2, QuorumsStay
  <2> QED
    BY <1>1, <1>2, <1>3, <2>1 DEF Backed
<1>5. n \notin Restarting => Bound(n, d)'
  BY <1>1, <1>2, <1>3 DEF Bound, InView
<1>6. CoreInv'
  BY <1>0, <1>1, <1>2, <1>4, <1>5, CoreStep
<1>7. PreprepareInv'
  BY <1>2 DEF IInv, PreprepareInv, Justification
<1>8. SealedInv'
  <2>1. core[n].proposal.number = core[n].sequence /\ core[n].round \in Nat
    BY <1>0, <1>1, <1>3, CoreOf DEF Backed
  <2>2. \A s, r, b : Committed(s, r, b) => Committed(s, r, b)'
    BY <1>2, QuorumsStay
  <2> QED
    BY <1>1, <2>1, <2>2 DEF IInv, SealedInv
<1> QED
  BY <1>2, <1>6, <1>7, <1>8, VotesStay DEF IInv

\* Entering a later round: the ROUND-CHANGE reports what the core had prepared
\* (startNewRound and broadcastRoundChange, core.go:117-211, roundchange.go:45-90).
LEMMA EntersKeeps ==
  ASSUME IInv, TypeInv', NEW n \in Validators, NEW c, NEW d, NEW m, Enters(n, c, d, m),
         SameVotes(core[n], c),
         \A x \in c.roundChanges : x \in roundChange /\ x.sequence = c.sequence,
         \A a, b \in c.roundChanges : a.source = b.source /\ a.round = b.round => a = b,
         UNCHANGED <<preprepare, prepare, commit, sealed>>
  PROVE  IInv'
<1>0. TypeOK /\ core \in [Validators -> CoreState] /\ CoreInv
  BY DEF IInv, TypeInv, TypeOK
<1>1. /\ Becomes(n, d)
      /\ d.sequence = core[n].sequence /\ d.round > core[n].round
      /\ d.state = "AcceptRequest"
      /\ d.preparedRound = core[n].preparedRound
      /\ d.preparedBlock = core[n].preparedBlock
      /\ d.roundChanges \subseteq c.roundChanges
      /\ m.source = n /\ m.sequence = d.sequence /\ m.round = d.round
      /\ m.preparedRound = d.preparedRound /\ m.preparedBlock = d.preparedBlock
      /\ roundChange' = roundChange \cup {m}
  BY DEF Enters, SameVotes
<1>2. Backed(core[n]) /\ (n \notin Restarting => Bound(n, core[n]))
  BY DEF IInv, CoreInv
<1>3. /\ core[n] \in CoreState /\ core[n].round \in Nat /\ core[n].sequence \in Nat
      /\ core[n].preparedRound \in Int
      /\ d.round \in Nat
  BY <1>0, <1>1, CoreOf, CoreNumbers DEF Becomes
<1>4. \A s, r, b : Prepared(s, r, b) => Prepared(s, r, b)'
  BY QuorumsStay
<1>5. Backed(d)'
  <2>1. core[n].preparedRound <= core[n].round
    BY <1>2 DEF Backed
  <2>2. d.preparedRound < d.round /\ d.preparedRound <= d.round
    BY <1>1, <1>3, <2>1
  <2>3. d.preparedRound # NilRound => Prepared(d.sequence, d.preparedRound, d.preparedBlock)'
    BY <1>1, <1>2, <1>4 DEF Backed
  <2>4. /\ \A x \in d.roundChanges : x \in roundChange' /\ x.sequence = d.sequence
        /\ \A a, b \in d.roundChanges : a.source = b.source /\ a.round = b.round => a = b
    BY <1>1 DEF SameVotes
  <2> QED
    BY <1>1, <2>2, <2>3, <2>4 DEF Backed
<1>6. n \notin Restarting => Bound(n, d)'
  <2> SUFFICES ASSUME n \notin Restarting PROVE Bound(n, d)'
    OBVIOUS
  <2>1. \A x \in prepare' : x.source = n =>
            x.sequence < d.sequence \/ (x.sequence = d.sequence /\ x.round < d.round)
    BY <1>0, <1>1, <1>2, <1>3, MessageNumbers DEF Bound, InView
  <2>2. \A x \in commit' : x.source = n =>
            \/ x.sequence < d.sequence
            \/ x.sequence = d.sequence /\ x.round <= d.preparedRound
    BY <1>1, <1>2 DEF Bound
  <2>3. \A x \in roundChange' : x.source = n =>
            \/ x.sequence < d.sequence
            \/ x.sequence = d.sequence /\ x.round <= d.round
    BY <1>0, <1>1, <1>2, <1>3, MessageNumbers DEF Bound
  <2> QED
    BY <2>1, <2>2, <2>3 DEF Bound
<1>7. CoreInv'
  BY <1>0, <1>1, <1>5, <1>6, CoreStep
<1>8. PrepareInv' /\ CommitInv' /\ PreprepareInv' /\ OneVotePerView'
  BY <1>1, <1>4
     DEF IInv, PrepareInv, CommitInv, PreprepareInv, Justification, OneVotePerView
<1>9. RoundChangeInv'
  <2>1. m.preparedRound # NilRound =>
            /\ m.preparedRound < m.round
            /\ Prepared(m.sequence, m.preparedRound, m.preparedBlock)'
    BY <1>1, <1>5 DEF Backed
  <2> QED
    BY <1>1, <1>4, <2>1 DEF IInv, RoundChangeInv
<1>10. CommitsAreCarried'
  <2>1. ASSUME NEW x \in commit, x.source = n, n \notin Restarting,
               x.sequence = m.sequence
        PROVE  m.preparedRound >= x.round
    BY <1>0, <1>1, <1>2, <1>3, <2>1, MessageNumbers DEF Bound
  <2>2. CommitsAreCarried
    BY DEF IInv
  <2> QED
    BY <1>1, <2>1, <2>2 DEF CommitsAreCarried
<1>11. SealedInv'
  BY QuorumsStay DEF IInv, SealedInv
<1>12. SafeInv'
  <2>1. \A s, r, b : Safe(s, r, b) => Safe(s, r, b)'
    BY <1>1 DEF Safe, Left
  <2> QED
    BY <2>1 DEF IInv, SafeInv
<1> QED
  BY <1>7, <1>8, <1>9, <1>10, <1>11, <1>12 DEF IInv

\* A ROUND-CHANGE of the sequence joins the set of a core: still one per sender
\* and round (roundChangeSet.Add, roundchange.go:222-244).
LEMMA AddedSet ==
  ASSUME IInv, NEW n \in Validators, NEW m \in roundChange,
         m.sequence = core[n].sequence, NEW c, c = AddRoundChange(core[n], m)
  PROVE  /\ c \in CoreState /\ SameVotes(core[n], c) /\ c.round \in Nat
         /\ \A x \in c.roundChanges : x \in roundChange /\ x.sequence = c.sequence
         /\ \A a, b \in c.roundChanges : a.source = b.source /\ a.round = b.round => a = b
<1>1. TypeInv /\ m \in RoundChangeMsg /\ Backed(core[n])
  BY DEF IInv, TypeInv, TypeOK, CoreInv
<1>2. /\ c \in CoreState /\ SameVotes(core[n], c) /\ c.round \in Nat
      /\ c.roundChanges =
            {o \in core[n].roundChanges : ~(o.source = m.source /\ o.round = m.round)}
                \cup {m}
  BY <1>1, AddedStep
<1>3. c.sequence = core[n].sequence
  BY <1>2 DEF SameVotes
<1> QED
  BY <1>1, <1>2, <1>3 DEF Backed

\* The event loop of a prompt validator works above its chain.
LEMMA RunsAboveChain ==
  ASSUME Prompt, TypeOK, NEW n \in Validators, Runs(n)
  PROVE  Len(chain[n]) < core[n].sequence
BY DEF Runs

\* Taking a ROUND-CHANGE in: the core enters a later round, proposes with the
\* ROUND-CHANGEs of its round, or keeps the message (handleRoundChange,
\* roundchange.go:95-180).
LEMMA HandleRoundChangeKeeps ==
  ASSUME IInv, TypeInv', Prompt, NEW n \in Validators, HandleRoundChange(n)
  PROVE  IInv'
<1>0. TypeInv /\ TypeOK
  BY DEF IInv, TypeInv
<1>1. PICK m, c :
            /\ m \in roundChange /\ c = AddRoundChange(core[n], m)
            /\ m.sequence = core[n].sequence
            /\ FollowRoundChange(n, c) \/ ProposeAgain(n, c) \/ KeepRoundChange(n, c)
  BY <1>0, HandleRoundChangeCases
<1>2. UNCHANGED <<prepare, commit, sealed>>
  BY DEF HandleRoundChange
<1>3. Len(chain[n]) < core[n].sequence
  BY <1>0, RunsAboveChain DEF HandleRoundChange
<1>4. /\ c \in CoreState /\ SameVotes(core[n], c) /\ c.round \in Nat
      /\ \A x \in c.roundChanges : x \in roundChange /\ x.sequence = c.sequence
      /\ \A a, b \in c.roundChanges : a.source = b.source /\ a.round = b.round => a = b
  BY <1>1, AddedSet
<1>5. c.sequence = core[n].sequence
  BY <1>4 DEF SameVotes
<1>6. CASE FollowRoundChange(n, c)
  <2>1. PICK r \in getMinRoundChange(c, c.round) :
            /\ core' = [core EXCEPT ![n] = startNewRound(n, c, r)]
            /\ roundChange' = roundChange \cup
                    broadcastRoundChange(n, startNewRound(n, c, r), r)
    BY <1>6 DEF FollowRoundChange
  <2>2. r \in Nat /\ r > c.round
    BY <1>4, MinRoundChange
  <2>3. UNCHANGED preprepare
    BY <1>6 DEF FollowRoundChange
  <2>4. PICK d, x : Enters(n, c, d, x)
    BY <1>0, <1>3, <1>4, <1>5, <2>1, <2>2, MoveStep
  <2> QED
    BY <1>2, <1>4, <2>3, <2>4, EntersKeeps
<1>7. CASE ProposeAgain(n, c)
  <2>1. /\ \E d : /\ Becomes(n, d) /\ SameVotes(c, d)
                  /\ d.roundChanges = c.roundChanges
        /\ \A p \in preprepare' :
                \/ p \in preprepare
                \/ /\ p.sequence = c.sequence /\ p.round = c.round
                   /\ p.block.number = p.sequence
                   /\ p.roundChanges = roundChangesFor(c, c.round)
        /\ UNCHANGED roundChange
    BY <1>0, <1>4, <1>7, ProposeAgainStep
  <2>2. PICK d : /\ Becomes(n, d) /\ SameVotes(c, d)
                 /\ d.roundChanges = c.roundChanges
    BY <2>1
  <2>3. SameVotes(core[n], d) /\ d.sequence = c.sequence
    BY <1>4, <2>2 DEF SameVotes
  <2>4. Justification(roundChangesFor(c, c.round), c.sequence, c.round)
    BY <1>4 DEF Justification, roundChangesFor
  <2>5. \A p \in preprepare' :
                \/ p \in preprepare
                \/ /\ p.block.number = p.sequence
                   /\ Justification(p.roundChanges, p.sequence, p.round)
    BY <2>1, <2>4
  <2> QED
    BY <1>2, <1>4, <2>1, <2>2, <2>3, <2>5, QuietKeeps
<1>8. CASE KeepRoundChange(n, c)
  <2>1. core' = [core EXCEPT ![n] = c] /\ UNCHANGED <<preprepare, roundChange>>
    BY <1>8 DEF KeepRoundChange
  <2> QED
    BY <1>2, <1>4, <2>1, QuietKeeps DEF Becomes
<1> QED
  BY <1>1, <1>6, <1>7, <1>8

\* The timer runs out: the core enters the next round (handleTimeoutMsg,
\* handler.go:226-238).
LEMMA HandleTimeoutKeeps ==
  ASSUME IInv, TypeInv', Prompt, NEW n \in Validators, HandleTimeout(n)
  PROVE  IInv'
<1>0. TypeInv /\ TypeOK /\ Backed(core[n])
  BY DEF IInv, TypeInv, CoreInv
<1>1. PICK c \in CoreState : c = core[n]
  BY <1>0, CoreOf
<1>2. PICK r \in Nat : r = c.round + 1
  BY CoreNumbers
<1>3. /\ core' = [core EXCEPT ![n] = startNewRound(n, c, r)]
      /\ roundChange' = roundChange \cup
                broadcastRoundChange(n, startNewRound(n, c, r), r)
      /\ UNCHANGED <<preprepare, prepare, commit, sealed>>
  BY <1>1, <1>2 DEF HandleTimeout
<1>4. Len(chain[n]) < c.sequence
  BY <1>0, <1>1, RunsAboveChain DEF HandleTimeout
<1>5. r > c.round
  BY <1>2, CoreNumbers
<1>6. PICK d, m : Enters(n, c, d, m)
  BY <1>0, <1>3, <1>4, <1>5, MoveStep
<1>7. /\ SameVotes(core[n], c)
      /\ \A x \in c.roundChanges : x \in roundChange /\ x.sequence = c.sequence
      /\ \A a, b \in c.roundChanges : a.source = b.source /\ a.round = b.round => a = b
  BY <1>0, <1>1 DEF Backed, SameVotes
<1> QED
  BY <1>3, <1>6, <1>7, EntersKeeps

\* Taking a request of the miner and the callback that proposes it
\* (request.go:32-88).
LEMMA RequestKeeps ==
  ASSUME IInv, TypeInv', NEW n \in Validators, HandleRequest(n) \/ NewRoundTimer(n)
  PROVE  IInv'
<1>0. TypeInv /\ TypeOK /\ Backed(core[n])
  BY DEF IInv, TypeInv, CoreInv
<1>1. ASSUME NEW d, Becomes(n, d), SameVotes(core[n], d),
             d.roundChanges = core[n].roundChanges
      PROVE  /\ \A m \in d.roundChanges : m \in roundChange /\ m.sequence = d.sequence
             /\ \A a, b \in d.roundChanges :
                    a.source = b.source /\ a.round = b.round => a = b
  BY <1>0, <1>1 DEF Backed, SameVotes
<1>2. UNCHANGED <<prepare, commit, roundChange, sealed>>
  BY DEF HandleRequest, NewRoundTimer, messageVars
<1>3. CASE HandleRequest(n)
  <2>1. PICK d : /\ Becomes(n, d) /\ SameVotes(core[n], d)
                 /\ d.roundChanges = core[n].roundChanges
    BY <1>0, <1>3, HandleRequestStep
  <2>2. UNCHANGED preprepare
    BY <1>3 DEF HandleRequest, messageVars
  <2> QED
    BY <1>1, <1>2, <2>1, <2>2, QuietKeeps
<1>4. CASE NewRoundTimer(n)
  <2>1. /\ \E d : /\ Becomes(n, d) /\ SameVotes(core[n], d)
                  /\ d.roundChanges = core[n].roundChanges
        /\ \A p \in preprepare' :
                \/ p \in preprepare
                \/ p.block.number = p.sequence /\ p.roundChanges = {}
    BY <1>0, <1>4, NewRoundTimerStep
  <2>2. PICK d : /\ Becomes(n, d) /\ SameVotes(core[n], d)
                 /\ d.roundChanges = core[n].roundChanges
    BY <2>1
  <2>3. \A p \in preprepare' :
                \/ p \in preprepare
                \/ /\ p.block.number = p.sequence
                   /\ Justification(p.roundChanges, p.sequence, p.round)
    BY <2>1 DEF Justification
  <2> QED
    BY <1>1, <1>2, <2>2, <2>3, QuietKeeps
<1> QED
  BY <1>3, <1>4

\* The chain has grown (handleFinalCommitted, final_committed.go:21-29).
LEMMA HandleFinalCommittedKeeps ==
  ASSUME IInv, TypeInv', NEW n \in Validators, HandleFinalCommitted(n)
  PROVE  IInv'
<1>0. TypeInv /\ TypeOK /\ Backed(core[n])
  BY DEF IInv, TypeInv, CoreInv
<1>1. UNCHANGED <<preprepare, prepare, commit, roundChange, sealed>>
  BY DEF HandleFinalCommitted, messageVars
<1>2. PICK d : /\ Becomes(n, d)
               /\ \/ SameVotes(core[n], d) /\ d.roundChanges = core[n].roundChanges
                  \/ /\ d.sequence > core[n].sequence /\ d.round = 0
                     /\ d.state = "AcceptRequest" /\ d.preparedRound = NilRound
                     /\ d.roundChanges = {}
  BY <1>0, HandleFinalCommittedStep
<1>3. CASE SameVotes(core[n], d) /\ d.roundChanges = core[n].roundChanges
  <2>1. /\ \A m \in d.roundChanges : m \in roundChange /\ m.sequence = d.sequence
        /\ \A a, b \in d.roundChanges :
                a.source = b.source /\ a.round = b.round => a = b
    BY <1>0, <1>3 DEF Backed, SameVotes
  <2> QED
    BY <1>1, <1>2, <1>3, <2>1, QuietKeeps
<1>4. CASE d.sequence > core[n].sequence /\ d.round = 0
           /\ d.state = "AcceptRequest" /\ d.preparedRound = NilRound
           /\ d.roundChanges = {}
  BY <1>1, <1>2, <1>4, NewSequenceKeeps
<1> QED
  BY <1>2, <1>3, <1>4

\* A restart starts the sequence above the chain (Start, core.go; the core keeps
\* nothing on disk).
LEMMA RestartKeeps ==
  ASSUME IInv, TypeInv', NEW n \in Validators, Restart(n)
  PROVE  IInv'
<1>0. TypeOK
  BY DEF IInv, TypeInv
<1>1. PICK q \in Nat : q = Len(chain[n]) + 1
  BY <1>0, CoreOf
<1>2. Becomes(n, NewSequence(q))
  BY <1>1, NewSequenceType DEF Restart, Becomes
<1>3. UNCHANGED <<preprepare, prepare, commit, roundChange, sealed>> /\ n \in Restarting
  BY DEF Restart, messageVars
<1>4. PICK d : d = NewSequence(q)
  OBVIOUS
<1>5. /\ d.round = 0 /\ d.state = "AcceptRequest" /\ d.preparedRound = NilRound
      /\ d.roundChanges = {}
  BY <1>4 DEF NewSequence
<1> QED
  BY <1>2, <1>3, <1>4, <1>5, NewSequenceKeeps

\* A step that leaves the cores and the messages as they are.
LEMMA IdleKeeps ==
  ASSUME IInv, TypeInv', UNCHANGED <<core, messageVars, sealed>>
  PROVE  IInv'
<1>1. UNCHANGED <<core, preprepare, prepare, commit, roundChange, sealed>>
  BY DEF messageVars
<1>2. CoreInv'
  <2>1. CoreInv /\ (\A s, r, b : Prepared(s, r, b) => Prepared(s, r, b)')
    BY <1>1, QuorumsStay DEF IInv
  <2> QED
    BY <1>1, <2>1 DEF CoreInv, Backed, Bound, InView
<1>3. PreprepareInv'
  BY <1>1 DEF IInv, PreprepareInv, Justification
<1> QED
  BY <1>1, <1>2, <1>3, VotesStay DEF IInv

\* The invariant holds at the start.
LEMMA InvInit == Init => IInv
<1> SUFFICES ASSUME Init PROVE IInv
  OBVIOUS
<1>1. TypeInv
  BY TypeInit
<1>2. /\ preprepare = {} /\ prepare = {} /\ commit = {} /\ roundChange = {}
      /\ sealed = {}
  BY DEF Init
<1>3. CoreInv
  <2>1. \A n \in Validators : core[n] = NewSequence(1)
    BY DEF Init
  <2>2. PICK c : c = NewSequence(1)
    OBVIOUS
  <2>3. /\ c.round = 0 /\ c.state = "AcceptRequest" /\ c.preparedRound = NilRound
        /\ c.roundChanges = {}
    BY <2>2 DEF NewSequence
  <2>4. Backed(c)
    BY <2>3 DEF Backed, NilRound
  <2>5. \A n \in Validators : Bound(n, c)
    BY <1>2 DEF Bound
  <2> QED
    BY <2>1, <2>2, <2>4, <2>5 DEF CoreInv
<1>4. /\ PrepareInv /\ CommitInv /\ RoundChangeInv /\ PreprepareInv
      /\ OneVotePerView /\ CommitsAreCarried /\ SafeInv /\ SealedInv
  BY <1>2 DEF PrepareInv, CommitInv, RoundChangeInv, PreprepareInv, OneVotePerView,
              CommitsAreCarried, SafeInv, SealedInv
<1> QED
  BY <1>1, <1>3, <1>4 DEF IInv

\* Every step keeps the invariant.
LEMMA InvNext ==
  ASSUME IInv, Prompt, QuorumsMeet, [Next]_vars
  PROVE  IInv'
<1>1. CASE Next
  <2>1. TypeInv'
    BY <1>1, TypeNext DEF IInv
  <2>2. PICK n \in Validators :
            \/ HandleRequest(n) \/ NewRoundTimer(n) \/ HandlePreprepare(n)
            \/ HandlePrepare(n) \/ HandleCommit(n) \/ HandleRoundChange(n)
            \/ HandleTimeout(n) \/ HandleFinalCommitted(n) \/ InsertBlock(n)
            \/ Restart(n)
    BY <1>1 DEF Next
  <2>3. CASE HandleRequest(n) \/ NewRoundTimer(n)
    BY <2>1, <2>3, RequestKeeps
  <2>4. CASE HandlePreprepare(n)
    BY <2>1, <2>4, HandlePreprepareKeeps
  <2>5. CASE HandlePrepare(n)
    BY <2>1, <2>5, HandlePrepareKeeps
  <2>6. CASE HandleCommit(n)
    BY <2>1, <2>6, HandleCommitKeeps
  <2>7. CASE HandleRoundChange(n)
    BY <2>1, <2>7, HandleRoundChangeKeeps
  <2>8. CASE HandleTimeout(n)
    BY <2>1, <2>8, HandleTimeoutKeeps
  <2>9. CASE HandleFinalCommitted(n)
    BY <2>1, <2>9, HandleFinalCommittedKeeps
  <2>10. CASE InsertBlock(n)
    BY <2>1, <2>10, IdleKeeps DEF InsertBlock
  <2>11. CASE Restart(n)
    BY <2>1, <2>11, RestartKeeps
  <2> QED
    BY <2>2, <2>3, <2>4, <2>5, <2>6, <2>7, <2>8, <2>9, <2>10, <2>11
<1>2. CASE UNCHANGED vars
  <2>1. TypeInv'
    BY <1>2 DEF IInv, TypeInv, TypeOK, vars, messageVars, HasProposal
  <2> QED
    BY <1>2, <2>1, IdleKeeps DEF vars
<1> QED
  BY <1>1, <1>2

-----------------------------------------------------------------------------
(***************************************************************************)
(* The theorems.                                                           *)
(***************************************************************************)

\* A quorum of COMMITs for a block of a later round meets what an earlier quorum
\* has committed to.
LEMMA CommittedIsKept ==
  ASSUME QuorumsMeet, TypeOK, NEW s, NEW r \in Nat, NEW d \in Nat, d < r, NEW a, NEW b,
         Committed(s, d, a), Safe(s, r, b)
  PROVE  a = b
<1>1. PICK P \in Quorums : \A n \in P : Msg(n, s, d, a) \in commit
  BY DEF Committed
<1>2. PICK Q \in Quorums : \A n \in Q \ Restarting : Left(n, s, d, b)
  BY DEF Safe
<1>3. PICK n \in P \cap Q : n \notin Restarting
  BY DEF QuorumsMeet
<1>4. Msg(n, s, d, a) \in commit /\ Left(n, s, d, b)
  BY <1>1, <1>2, <1>3
<1> QED
  BY <1>4 DEF Left, Msg

\* The invariant excludes a fork.
LEMMA InvAgreement ==
  ASSUME IInv, QuorumsMeet
  PROVE  Agreement
<1>0. TypeOK /\ CommitInv /\ OneVotePerView /\ SafeInv /\ SealedInv
  BY DEF IInv, TypeInv
<1>1. ASSUME NEW s, NEW r \in Nat, NEW b, Committed(s, r, b)
      PROVE  Prepared(s, r, b)
  <2>1. PICK Q \in Quorums : \A n \in Q : Msg(n, s, r, b) \in commit
    BY <1>1 DEF Committed
  <2>2. PICK n \in Q \cap Q : n \notin Restarting
    BY DEF QuorumsMeet
  <2>3. Msg(n, s, r, b) \in commit
    BY <2>1, <2>2
  <2> QED
    BY <1>0, <2>3 DEF CommitInv, Msg
<1>2. ASSUME NEW s, NEW d \in Nat, NEW r \in Nat, d < r, NEW a, NEW b,
             Committed(s, d, a), Committed(s, r, b)
      PROVE  a = b
  <2>1. Safe(s, r, b)
    BY <1>0, <1>1, <1>2, PreparedIsSafe
  <2> QED
    BY <1>0, <1>2, <2>1, CommittedIsKept
<1> SUFFICES ASSUME NEW a \in sealed, NEW b \in sealed, a.number = b.number
             PROVE  a = b
  BY DEF Agreement
<1>3. PICK d \in Nat, r \in Nat : Committed(a.number, d, a) /\ Committed(a.number, r, b)
  BY <1>0 DEF SealedInv
<1>4. CASE d = r
  BY <1>0, <1>1, <1>3, <1>4, OnePreparedPerView
<1>5. CASE d # r
  <2>1. d < r \/ r < d
    BY <1>5
  <2> QED
    BY <1>2, <1>3, <2>1
<1> QED
  BY <1>4, <1>5

\* The invariant makes a justified proposal keep what has been decided.
LEMMA InvProposals ==
  ASSUME IInv, QuorumsMeet
  PROVE  ProposalsKeepDecisions
<1>0. /\ TypeOK /\ PreprepareInv
      /\ preprepare \subseteq PreprepareMsg /\ commit \in SUBSET PrepareMsg
  BY DEF IInv, TypeInv, TypeOK
<1> SUFFICES ASSUME NEW p \in preprepare, NEW c \in commit, p.sequence = c.sequence,
                    c.round < p.round,
                    isJustified(p.block, p.roundChanges, p.prepares),
                    Decided(c.sequence, c.round, c.block)
             PROVE  p.block = c.block
  BY DEF ProposalsKeepDecisions
<1>1. /\ p.sequence \in Nat /\ p.round \in Nat /\ p.prepares \subseteq Certificate
      /\ c.round \in Nat
  BY <1>0 DEF PreprepareMsg, PrepareMsg
<1>2. Safe(p.sequence, p.round, p.block)
  <2>1. Justification(p.roundChanges, p.sequence, p.round)
    BY <1>0 DEF PreprepareInv
  <2>2. PICK s, r, b, S, prepares :
            /\ s = p.sequence /\ r = p.round /\ b = p.block
            /\ S = p.roundChanges /\ prepares = p.prepares
    OBVIOUS
  <2> QED
    BY <1>1, <2>1, <2>2, JustifiedIsSafe
<1>3. Committed(c.sequence, c.round, c.block)
  <2>1. PICK e : e = [sequence |-> c.sequence, round |-> c.round, proposal |-> c.block]
    OBVIOUS
  <2>2. e.sequence = c.sequence /\ e.round = c.round /\ e.proposal = c.block
    BY <2>1
  <2>3. Matching(commit, e) =
            {m \in commit : m.sequence = c.sequence /\ m.round = c.round
                                /\ m.block = c.block}
    BY <2>2 DEF Matching, InView
  <2>4. Cardinality(Matching(commit, e)) >= QuorumSize
    BY <2>3 DEF Decided
  <2>5. \E Q \in Quorums : \A n \in Q : Msg(n, e.sequence, e.round, e.proposal) \in commit
    BY <1>0, <2>4, QuorumOfVotes
  <2> QED
    BY <2>2, <2>5 DEF Committed
<1> QED
  BY <1>0, <1>1, <1>2, <1>3, CommittedIsKept

\* The invariant holds in every state.
THEOREM QbftInvariant ==
  ASSUME Prompt, QuorumsMeet
  PROVE  Spec => []IInv
<1>1. IInv /\ [Next]_vars => IInv'
  BY InvNext
<1> QED
  BY <1>1, InvInit, PTL DEF Spec

\* No two validators commit different blocks of a height.
THEOREM QbftAgreement ==
  ASSUME Prompt, QuorumsMeet
  PROVE  Spec => []Agreement
<1>1. IInv => Agreement
  BY InvAgreement
<1> QED
  BY <1>1, QbftInvariant, PTL

\* With the default quorum rule, agreement survives the restart of at most F
\* validators that lose what they had prepared (QuorumSize, core.go:277-284).
THEOREM QbftAgreementWithRestarts ==
  ASSUME Prompt, ~TwoFPlusOne, Cardinality(Restarting) <= F
  PROVE  Spec => []Agreement
BY CeilQuorumsMeet, QbftAgreement

\* A validator that has committed reports it in every later round change.
THEOREM QbftCommitsAreCarried ==
  ASSUME Prompt, QuorumsMeet
  PROVE  Spec => []CommitsAreCarried
<1>1. IInv => CommitsAreCarried
  BY DEF IInv
<1> QED
  BY <1>1, QbftInvariant, PTL

\* No validator supports two blocks in a view.
THEOREM QbftOneVotePerView ==
  ASSUME Prompt, QuorumsMeet
  PROVE  Spec => []OneVotePerView
<1>1. IInv => OneVotePerView
  BY DEF IInv
<1> QED
  BY <1>1, QbftInvariant, PTL

\* What is justified in a later round is what a quorum has committed to.
THEOREM QbftProposalsKeepDecisions ==
  ASSUME Prompt, QuorumsMeet
  PROVE  Spec => []ProposalsKeepDecisions
<1>1. IInv => ProposalsKeepDecisions
  BY InvProposals
<1> QED
  BY <1>1, QbftInvariant, PTL

\* Every step of the validators is a step of the ledger of final blocks, or
\* changes neither the final blocks nor the chains.
LEMMA LedgerStep ==
  ASSUME TypeOK, TypeOK', Agreement', [Next]_vars
  PROVE  [Ledger!LedgerNext]_(Ledger!ledgerVars)
<1> SUFFICES ASSUME ~UNCHANGED <<sealed, chain>>
             PROVE  Ledger!LedgerNext
  BY DEF Ledger!ledgerVars
<1>1. PICK n \in Validators : HandleCommit(n) \/ InsertBlock(n)
  BY DEF Next, vars, HandleRequest, NewRoundTimer, HandlePreprepare, HandlePrepare,
         HandleRoundChange, HandleTimeout, HandleFinalCommitted, Restart
<1>2. CASE HandleCommit(n)
  <2>1. PICK b : b = core[n].proposal
    OBVIOUS
  <2>2. sealed' = sealed \cup {b} /\ UNCHANGED chain
    BY <1>2, <2>1 DEF HandleCommit
  <2>3. b \in sealed' /\ b \in Block
    BY <2>2 DEF TypeOK
  <2>4. \A f \in sealed : f.number = b.number => f = b
    BY <2>2, <2>3 DEF Agreement
  <2> QED
    BY <2>2, <2>3, <2>4 DEF Ledger!LedgerNext, Ledger!Finalise
<1>3. CASE InsertBlock(n)
  <2>1. PICK b \in sealed : /\ b.number = Len(chain[n]) + 1
                            /\ chain' = [chain EXCEPT ![n] = Append(@, b)]
    BY <1>3 DEF InsertBlock
  <2>2. UNCHANGED sealed
    BY <1>3 DEF InsertBlock
  <2> QED
    BY <2>1, <2>2 DEF Ledger!LedgerNext, Ledger!Adopt
<1> QED
  BY <1>1, <1>2, <1>3

\* The validators implement the ledger: a sealed block is final, and chains grow
\* by final blocks.
THEOREM QbftImplementsFinalLedger ==
  ASSUME Prompt, QuorumsMeet
  PROVE  Spec => ImplementsFinalLedger
<1>1. Init => Ledger!LedgerInit
  BY DEF Init, Ledger!LedgerInit
<1>2. TypeOK /\ TypeOK' /\ Agreement' /\ [Next]_vars
        => [Ledger!LedgerNext]_(Ledger!ledgerVars)
  BY LedgerStep
<1> QED
  BY <1>1, <1>2, QbftTypeCorrect, QbftAgreement, PTL
     DEF Spec, ImplementsFinalLedger, Ledger!LedgerSpec
=============================================================================
