-------------------------------- MODULE Qbft --------------------------------
(***************************************************************************)
(* The QBFT core of the GoQuorum nodes: the event loop of every validator  *)
(* (consensus/istanbul/qbft/core), its round-change timer, the callback    *)
(* that proposes a block, and the chain the backend inserts blocks into.   *)
(*                                                                         *)
(* The validators follow the code; they may be slow, restart and lose      *)
(* their volatile state, and the network may lose, delay, duplicate and    *)
(* reorder messages.  Each message that was ever broadcast stays in one of *)
(* four sets and may be handled at any later time or never: this covers    *)
(* the gossip, the event mux and the backlogs, which only decide when a    *)
(* message is handled (Backlog models the backlog itself).                 *)
(*                                                                         *)
(* A hash stands for its block.  PREPARE and COMMIT messages are counted   *)
(* when the quorum is complete; ROUND-CHANGE messages are kept one by one, *)
(* because the code acts on partial counts.  The list of PREPAREs a        *)
(* validator keeps and sends as a justification holds a quorum for one     *)
(* round and block: it is a set with that pair, or empty.                  *)
(***************************************************************************)
EXTENDS Integers, Sequences, FiniteSets

CONSTANTS
    N,              \* number of validators, sorted by address: 0 .. N-1
    Payloads,       \* the different blocks a validator may build for a height
    NoBlock,        \* nil
    Building,       \* who seals what in the instance: pairs of a validator and a payload
    Impatient,      \* the validators whose round-change timer runs out in the instance
    Restarting,     \* the validators that may restart
    TwoFPlusOne,    \* the configured quorum rule: 2F+1 or ceil(2N/3)
    Prompt,         \* FinalCommitted is handled as soon as the chain has grown
    MaxSequence,    \* bound: heights the validators work on
    MaxRound,       \* bound: rounds of a height
    MaxRestarts     \* bound: restarts in a behaviour

Validators == 0 .. N-1
Block == [number : Nat, author : Validators, payload : Payloads]

ASSUME NAssumption == N \in Nat \ {0}
ASSUME NoBlockAssumption == NoBlock \notin Block
ASSUME SubsetsAssumption ==
    /\ Building \subseteq Validators \X Payloads
    /\ Restarting \subseteq Validators
ASSUME FlagsAssumption == TwoFPlusOne \in BOOLEAN /\ Prompt \in BOOLEAN

VARIABLES
    core,           \* core[n]: the volatile state of the core of validator n
    chain,          \* chain[n]: the chain of n, block k at position k
    headEvent,      \* headEvent[n]: a FinalCommittedEvent is posted and not handled
    panicked,       \* the validators whose process has panicked
    restarts,       \* number of restarts so far (bound)
    preprepare, prepare, commit, roundChange,   \* the messages broadcast so far
    sealed          \* the blocks some validator committed with a quorum of seals

messageVars == <<preprepare, prepare, commit, roundChange>>
vars == <<core, chain, headEvent, panicked, restarts, messageVars, sealed>>

NilRound == -1
F == (N + 2) \div 3 - 1
QuorumSize == IF TwoFPlusOne THEN 2 * F + 1 ELSE (2 * N + 2) \div 3

Certificate == [round : Nat, block : Block]
PrepareMsg == [source : Validators, sequence : Nat, round : Nat, block : Block]
RoundChangeMsg ==
    [source : Validators, sequence : Nat, round : Nat,
     preparedRound : Nat \cup {NilRound}, preparedBlock : Block \cup {NoBlock},
     justification : SUBSET Certificate]
PreprepareMsg ==
    [source : Validators, sequence : Nat, round : Nat, block : Block,
     roundChanges : SUBSET RoundChangeMsg, prepares : SUBSET Certificate]

CoreState ==
    [sequence : Nat, round : Nat,
     state : {"AcceptRequest", "Preprepared", "Prepared", "Committed"},
     proposal : Block \cup {NoBlock},
     preparedRound : Nat \cup {NilRound}, preparedBlock : Block \cup {NoBlock},
     preparedPrepares : SUBSET Certificate,
     pendingRequest : Block \cup {NoBlock},
     preprepareSent : Nat,
     roundChanges : SUBSET RoundChangeMsg,
     rounds : SUBSET Nat,
     highest : SUBSET [key : Nat, round : Nat, block : Block],
     timer : {"stopped", "running"},
     newRoundTimers : SUBSET Block]

TypeOK ==
    /\ core \in [Validators -> CoreState]
    /\ chain \in [Validators -> Seq(Block)]
    /\ headEvent \in [Validators -> BOOLEAN]
    /\ panicked \subseteq Validators
    /\ restarts \in Nat
    /\ preprepare \subseteq PreprepareMsg
    /\ prepare \subseteq PrepareMsg
    /\ commit \subseteq PrepareMsg
    /\ roundChange \subseteq RoundChangeMsg
    /\ sealed \subseteq Block

-----------------------------------------------------------------------------
(***************************************************************************)
(* The round-change set and the justification of a proposal.               *)
(***************************************************************************)

\* Senders of a ROUND-CHANGE for a round above r.
higherRoundMessages(c, r) == {m.source : m \in {m \in c.roundChanges : m.round > r}}

roundChangesFor(c, r) == {m \in c.roundChanges : m.round = r}

\* The lowest round above r in the set (a singleton, or none).
getMinRoundChange(c, r) ==
    {k \in c.rounds : k > r /\ \A j \in c.rounds : j > r => k <= j}

\* Mutant of Improves: the PREPAREs of the message are not looked at.
ImprovesUnproved(c, m) ==
    \A h \in c.highest : h.key = m.round => m.preparedRound > h.round

\* The message proves a higher prepared round than the others of its round do.
Improves(c, m) ==
    /\ [round |-> m.preparedRound, block |-> m.preparedBlock] \in m.justification
    /\ \A h \in c.highest : h.key = m.round => m.preparedRound > h.round

\* The message replaces an earlier one of its sender for its round.
AddRoundChange(c, m) ==
    [c EXCEPT
        !.rounds = @ \cup {m.round},
        !.roundChanges =
            {o \in @ : ~(o.source = m.source /\ o.round = m.round)} \cup {m},
        !.highest =
            IF Improves(c, m)
            THEN {h \in @ : h.key # m.round} \cup
                    {[key |-> m.round, round |-> m.preparedRound,
                      block |-> m.preparedBlock]}
            ELSE @]

\* Drops the rounds below r and those without a message.
ClearLowerThan(c, r) ==
    LET kept == {k \in c.rounds : k >= r /\ roundChangesFor(c, k) # {}}
    IN  [c EXCEPT !.rounds = kept,
                  !.roundChanges = {m \in @ : m.round \in kept},
                  !.highest = {h \in @ : h.key \in kept}]

\* Mutant of isJustified: the ROUND-CHANGEs are not counted.
isJustifiedByPrepares(block, roundChanges, prepares) ==
    \A p \in prepares : p.block = block

\* A quorum of ROUND-CHANGEs, and the proposal is the prepared block of the
\* highest prepared round of a quorum of them, or none of a quorum had prepared.
isJustified(block, roundChanges, prepares) ==
    /\ Cardinality(roundChanges) >= QuorumSize
    /\ \A p \in prepares : p.block = block
    /\ IF prepares = {}
       THEN Cardinality({m \in roundChanges : m.preparedRound = NilRound}) >= QuorumSize
       ELSE \E p \in prepares :
                /\ Cardinality({m \in roundChanges : m.preparedRound <= p.round})
                        >= QuorumSize
                /\ \E m \in roundChanges :
                        m.preparedRound = p.round /\ m.preparedBlock = block

-----------------------------------------------------------------------------
(***************************************************************************)
(* Rounds and sequences.                                                   *)
(***************************************************************************)

\* Round robin from the author of the last block.
Proposer(n, c) ==
    IF c.sequence = 1 THEN c.round % N
    ELSE (chain[n][c.sequence - 1].author + c.round + 1) % N

IsProposer(n, c) == Proposer(n, c) = n

\* The state of a core at round 0 of a sequence.
NewSequence(sequence) ==
    [sequence |-> sequence, round |-> 0, state |-> "AcceptRequest",
     proposal |-> NoBlock, preparedRound |-> NilRound, preparedBlock |-> NoBlock,
     preparedPrepares |-> {}, pendingRequest |-> NoBlock, preprepareSent |-> 0,
     roundChanges |-> {}, rounds |-> {0}, highest |-> {},
     timer |-> "stopped", newRoundTimers |-> {}]

\* Mutant of ChangeRound: what was prepared is forgotten with the round.
ChangeRoundForgets(c, round) ==
    [c EXCEPT !.round = round, !.state = "AcceptRequest", !.preprepareSent = 0,
              !.preparedRound = NilRound, !.preparedBlock = NoBlock]

\* updateRoundState and setState of a round change: the request, the proposal
\* and what was prepared survive.
ChangeRound(c, round) ==
    [c EXCEPT !.round = round, !.state = "AcceptRequest", !.preprepareSent = 0]

\* The chain has reached the sequence: the next one, at round 0 whatever the
\* target round; only the target round 0 empties the round-change set.
CatchUp(c, sequence, round) ==
    [NewSequence(sequence) EXCEPT
        !.timer = c.timer, !.newRoundTimers = c.newRoundTimers,
        !.preparedPrepares = IF round = 0 THEN {} ELSE c.preparedPrepares,
        !.roundChanges = IF round = 0 THEN {} ELSE c.roundChanges,
        !.rounds = IF round = 0 THEN {0} ELSE c.rounds,
        !.highest = IF round = 0 THEN {} ELSE c.highest]

\* The target round gets an entry in the round-change set and a timer.
Arm(c, round) ==
    IF round = 0 THEN c
    ELSE [ClearLowerThan(c, round) EXCEPT !.rounds = @ \cup {round}, !.timer = "running"]

startNewRound(n, c, round) ==
    LET last == Len(chain[n])
    IN  IF last >= c.sequence THEN Arm(CatchUp(c, last + 1, round), round)
        ELSE IF round # 0 /\ round >= c.round THEN Arm(ChangeRound(c, round), round)
        ELSE c

\* The ROUND-CHANGE of a core for a round; none for a round already passed.
broadcastRoundChange(n, c, round) ==
    IF c.round > round THEN {}
    ELSE {[source |-> n, sequence |-> c.sequence, round |-> round,
           preparedRound |-> c.preparedRound, preparedBlock |-> c.preparedBlock,
           justification |-> c.preparedPrepares]}

-----------------------------------------------------------------------------
Init ==
    /\ core = [n \in Validators |-> NewSequence(1)]
    /\ chain = [n \in Validators |-> <<>>]
    /\ headEvent = [n \in Validators |-> FALSE]
    /\ panicked = {}
    /\ restarts = 0
    /\ preprepare = {} /\ prepare = {} /\ commit = {} /\ roundChange = {}
    /\ sealed = {}

\* The event loop of n takes an event that is not a FinalCommittedEvent.
Runs(n) ==
    /\ n \notin panicked
    /\ core[n].sequence <= MaxSequence
    /\ Prompt => Len(chain[n]) < core[n].sequence

\* A message of the view of the core.
InView(m, c) == m.sequence = c.sequence /\ m.round = c.round

\* sendPreprepareMsg: only the proposer, and only a block of its sequence.
SendPreprepare(n, c, block, roundChanges, prepares) ==
    IF block.number = c.sequence /\ IsProposer(n, c)
    THEN /\ preprepare' = preprepare \cup
                {[source |-> n, sequence |-> c.sequence, round |-> c.round,
                  block |-> block, roundChanges |-> roundChanges,
                  prepares |-> prepares]}
         /\ core' = [core EXCEPT ![n] = [c EXCEPT !.preprepareSent = c.round]]
    ELSE /\ core' = [core EXCEPT ![n] = c]
         /\ UNCHANGED preprepare

\* The block the worker sealed at n arrives.  A callback that has already fired
\* can no longer be stopped, so the earlier ones may stay.
HandleRequest(n) ==
    /\ Runs(n)
    /\ \E p \in {p \in Payloads : <<n, p>> \in Building} :
        LET c == core[n]
            block == [number |-> c.sequence, author |-> n, payload |-> p]
        IN  /\ c.pendingRequest # block
            /\ IF c.state = "AcceptRequest"
               THEN \E fired \in {{}, c.newRoundTimers} :
                      core' = [core EXCEPT ![n].pendingRequest = block,
                                           ![n].newRoundTimers = fired \cup {block}]
               ELSE core' = [core EXCEPT ![n].pendingRequest = block]
    /\ UNCHANGED <<chain, headEvent, panicked, restarts, messageVars, sealed>>

\* The callback of newRoundTimer, which runs outside the event loop: it starts
\* the round-change timer and proposes the block in whatever view there is.
NewRoundTimer(n) ==
    /\ n \notin panicked
    /\ core[n].sequence <= MaxSequence
    /\ \E block \in core[n].newRoundTimers :
        SendPreprepare(n, [core[n] EXCEPT !.newRoundTimers = @ \ {block},
                                          !.timer = "running"],
                       block, {}, {})
    /\ UNCHANGED <<chain, headEvent, panicked, restarts, prepare, commit,
                   roundChange, sealed>>

\* Mutant of AwaitsProposal: a validator that has voted takes another proposal.
AwaitsProposalAgain(c) == c.state \in {"AcceptRequest", "Preprepared"}

\* checkMessage and handlePreprepareMsg take a proposal in this state only.
AwaitsProposal(c) == c.state = "AcceptRequest"

HandlePreprepare(n) ==
    /\ Runs(n)
    /\ AwaitsProposal(core[n])
    /\ \E m \in preprepare :
        /\ InView(m, core[n])
        /\ Proposer(n, core[n]) = m.source
        /\ m.round > 0 => isJustified(m.block, m.roundChanges, m.prepares)
        /\ core' = [core EXCEPT ![n].state = "Preprepared",
                                ![n].proposal = m.block,
                                ![n].timer = "running"]
        /\ prepare' = prepare \cup
                {[source |-> n, sequence |-> m.sequence, round |-> m.round,
                  block |-> m.block]}
    /\ UNCHANGED <<chain, headEvent, panicked, restarts, preprepare, commit,
                   roundChange, sealed>>

\* The messages of a set that count for the proposal of the core.
Matching(messages, c) == {m \in messages : InView(m, c) /\ m.block = c.proposal}

\* The PREPARE that completes the quorum.
HandlePrepare(n) ==
    /\ Runs(n)
    /\ core[n].state = "Preprepared"
    /\ Cardinality(Matching(prepare, core[n])) >= QuorumSize
    /\ LET c == core[n]
       IN  /\ core' = [core EXCEPT
                        ![n].state = "Prepared",
                        ![n].preparedRound = c.round,
                        ![n].preparedBlock = c.proposal,
                        ![n].preparedPrepares =
                            {[round |-> c.round, block |-> c.proposal]}]
           /\ commit' = commit \cup
                {[source |-> n, sequence |-> c.sequence, round |-> c.round,
                  block |-> c.proposal]}
    /\ UNCHANGED <<chain, headEvent, panicked, restarts, preprepare, prepare,
                   roundChange, sealed>>

\* The COMMIT that completes the quorum: the block and its seals go to the backend.
HandleCommit(n) ==
    /\ Runs(n)
    /\ core[n].state = "Prepared"
    /\ Cardinality(Matching(commit, core[n])) >= QuorumSize
    /\ core' = [core EXCEPT ![n].state = "Committed"]
    /\ sealed' = sealed \cup {core[n].proposal}
    /\ UNCHANGED <<chain, headEvent, panicked, restarts, messageVars>>

\* A message for the own round is only ever read by the proposer of the round
\* until it has proposed (and, where a set outlives its sequence, in the next
\* one); elsewhere keeping it changes nothing.
IsRead(n, c, m) ==
    \/ m.round > c.round
    \/ IsProposer(n, c) /\ c.preprepareSent < c.round
    \/ ~Prompt /\ c.sequence < MaxSequence

\* F+1 validators are ahead: the core moves to the lowest of their rounds.
FollowRoundChange(n, c) ==
    /\ Cardinality(higherRoundMessages(c, c.round)) = F + 1
    /\ \E newRound \in getMinRoundChange(c, c.round) :
        LET next == startNewRound(n, c, newRound)
        IN  /\ core' = [core EXCEPT ![n] = next]
            /\ roundChange' = roundChange \cup broadcastRoundChange(n, next, newRound)
    /\ UNCHANGED <<preprepare, panicked>>

\* The proposer of the round has a quorum for it and has not proposed.
MustPropose(n, c) ==
    /\ Cardinality(higherRoundMessages(c, c.round)) # F + 1
    /\ Cardinality(roundChangesFor(c, c.round)) >= QuorumSize
    /\ IsProposer(n, c)
    /\ c.preprepareSent < c.round

\* It proposes the highest prepared block, else its own; without one it panics.
ProposeAgain(n, c) ==
    LET current == roundChangesFor(c, c.round)
        prepared == {h \in c.highest : h.key = c.round}
        prepares == {[round |-> h.round, block |-> h.block] : h \in prepared}
        blocks == IF prepared # {} THEN {h.block : h \in prepared}
                                   ELSE {c.pendingRequest} \ {NoBlock}
    IN  /\ MustPropose(n, c)
        /\ \/ /\ blocks = {}
              /\ panicked' = panicked \cup {n}
              /\ core' = [core EXCEPT ![n] = c]
              /\ UNCHANGED preprepare
           \/ /\ \E block \in blocks :
                    IF isJustified(block, current, prepares)
                    THEN SendPreprepare(n, c, block, current, prepares)
                    ELSE core' = [core EXCEPT ![n] = c] /\ UNCHANGED preprepare
              /\ UNCHANGED panicked
        /\ UNCHANGED roundChange

KeepRoundChange(n, c) ==
    /\ Cardinality(higherRoundMessages(c, c.round)) # F + 1
    /\ ~MustPropose(n, c)
    /\ core' = [core EXCEPT ![n] = c]
    /\ UNCHANGED <<preprepare, roundChange, panicked>>

\* A ROUND-CHANGE of the sequence for this round or a later one.
HandleRoundChange(n) ==
    /\ Runs(n)
    /\ \E m \in roundChange :
        /\ m.sequence = core[n].sequence
        /\ m.round >= core[n].round
        /\ IsRead(n, core[n], m)
        /\ m \notin core[n].roundChanges
        /\ LET c == AddRoundChange(core[n], m)
           IN  \/ FollowRoundChange(n, c)
               \/ ProposeAgain(n, c)
               \/ KeepRoundChange(n, c)
    /\ UNCHANGED <<chain, headEvent, restarts, prepare, commit, sealed>>

HandleTimeout(n) ==
    /\ Runs(n)
    /\ n \in Impatient
    /\ core[n].timer = "running"
    /\ core[n].round < MaxRound
    /\ LET next == startNewRound(n, core[n], core[n].round + 1)
       IN  /\ core' = [core EXCEPT ![n] = next]
           /\ roundChange' = roundChange \cup
                broadcastRoundChange(n, next, core[n].round + 1)
    /\ UNCHANGED <<chain, headEvent, panicked, restarts, preprepare, prepare,
                   commit, sealed>>

\* The chain has grown.  Stopping the timer does not take back a timeout that
\* is already posted.
HandleFinalCommitted(n) ==
    /\ n \notin panicked
    /\ headEvent[n]
    /\ \E posted \in {"stopped", core[n].timer} :
        core' = [core EXCEPT
                    ![n] = startNewRound(n, [core[n] EXCEPT !.timer = posted], 0)]
    /\ headEvent' = [headEvent EXCEPT ![n] = FALSE]
    /\ UNCHANGED <<chain, panicked, restarts, messageVars, sealed>>

\* A block with a quorum of seals is inserted: the result of Seal, a block the
\* fetcher was given, or one imported from a peer.
InsertBlock(n) ==
    /\ n \notin panicked
    /\ Len(chain[n]) + 1 < MaxSequence
    /\ \E block \in sealed :
        /\ block.number = Len(chain[n]) + 1
        /\ chain' = [chain EXCEPT ![n] = Append(@, block)]
    /\ headEvent' = [headEvent EXCEPT ![n] = TRUE]
    /\ UNCHANGED <<core, panicked, restarts, messageVars, sealed>>

\* The process of n starts again: the chain is on disk, the core is not.
Restart(n) ==
    /\ n \in Restarting
    /\ restarts < MaxRestarts
    /\ restarts' = restarts + 1
    /\ core' = [core EXCEPT ![n] = NewSequence(Len(chain[n]) + 1)]
    /\ headEvent' = [headEvent EXCEPT ![n] = FALSE]
    /\ panicked' = panicked \ {n}
    /\ UNCHANGED <<chain, messageVars, sealed>>

Next ==
    \E n \in Validators :
        \/ HandleRequest(n)
        \/ NewRoundTimer(n)
        \/ HandlePreprepare(n)
        \/ HandlePrepare(n)
        \/ HandleCommit(n)
        \/ HandleRoundChange(n)
        \/ HandleTimeout(n)
        \/ HandleFinalCommitted(n)
        \/ InsertBlock(n)
        \/ Restart(n)

Spec == Init /\ [][Next]_vars

-----------------------------------------------------------------------------
(***************************************************************************)
(* Properties.                                                             *)
(***************************************************************************)

\* No two validators commit different blocks of a height, in whatever rounds
\* they do it (handleCommitMsg, commit.go).
Agreement == \A a, b \in sealed : a.number = b.number => a = b

\* A COMMIT binds its sender for the rounds to come: each ROUND-CHANGE it sends
\* for a later round reports a prepared round that is at least as high, however
\* many rounds lie between and however the round was left (updateRoundState).
CommitsAreCarried ==
    \A c \in commit : \A m \in roundChange :
        (/\ c.source = m.source
         /\ c.source \notin Restarting
         /\ c.sequence = m.sequence
         /\ c.round < m.round)
            => m.preparedRound >= c.round

\* A quorum of COMMITs for a block in a view.
Decided(sequence, round, block) ==
    Cardinality({c \in commit : c.sequence = sequence /\ c.round = round
                                    /\ c.block = block}) >= QuorumSize

\* A proposal of a later round that validators accept as justified is the block
\* a quorum has committed to in an earlier round, if there is one: validators
\* keep no lock of their own, isJustified alone stands between them and a fork.
ProposalsKeepDecisions ==
    \A p \in preprepare : \A c \in commit :
        (/\ p.sequence = c.sequence
         /\ c.round < p.round
         /\ isJustified(p.block, p.roundChanges, p.prepares)
         /\ Decided(c.sequence, c.round, c.block))
            => p.block = c.block

\* A validator that does not restart supports one block in a view, although its
\* proposer may send several (handlePreprepareMsg).
OneVotePerView ==
    \A a, b \in prepare :
        (/\ a.source = b.source
         /\ a.source \notin Restarting
         /\ a.sequence = b.sequence
         /\ a.round = b.round)
            => a.block = b.block

\* The validators implement the ledger of final blocks: sealed blocks are final
\* and the chains grow by them.
Ledger == INSTANCE FinalLedger
            WITH Nodes <- Validators, Blocks <- Block, final <- sealed, ledger <- chain
ImplementsFinalLedger == Ledger!LedgerSpec

\* "propose the block proposal that we generated" (roundchange.go:148-150): a
\* proposer that is asked to propose has generated one.
NeverPanics == panicked = {}

=============================================================================
