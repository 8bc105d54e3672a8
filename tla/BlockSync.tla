----------------------------- MODULE BlockSync -----------------------------
(* engine/blocksync.go: the BlockSyncer of a node that is behind, the       *)
(* PeerSet it takes heights from, and the host around it: the store, the    *)
(* network, and the callbacks, each in a goroutine of its own.              *)
(*                                                                          *)
(* The host, which is not in this repository, is taken to be a careful one: *)
(* it calls Start and Stop in turn, hands over blocks only in between, runs *)
(* the block callbacks in the order of heights, and has applied what is in  *)
(* the store before it calls Start.                                         *)
EXTENDS PeerState, Integers, FiniteSets, FiniteSetsExt

CONSTANTS
  MaxHeight,           \* the highest block there will be
  MaxPendingRequests,
  ValSetAt,            \* ValSetAt[h]: the validator set that signs block h
  MaxUpsets            \* bound on calls of Stop and peers that leave, together

ASSUME MaxHeightAssumption == MaxHeight \in Nat
ASSUME PendingAssumption == MaxPendingRequests \in Nat

VARIABLES
  state, startHeight, currentHeight, targetHeight, pendingRequests, valSet, started,
  loop,       \* where syncLoop is: "none", "wait", "request" or "check"
  stopping,   \* Stop waits for the goroutines
  store,      \* the blocks saved: <<height, block>>
  callbacks,  \* the heights whose onBlockCommitted is still to run
  caughtUps,  \* the number of onCaughtUp that are still to run
  notified,   \* history: the heights for which onBlockCommitted was started
  peers,      \* PeerSet.peers
  ahead,      \* peers report the height they have (0) or work on (1)
  answers,    \* the heights of blocks that peers have sent on request
  upsets      \* the number of stops and leaves so far

syncer == <<state, startHeight, currentHeight, targetHeight, pendingRequests, valSet, started>>
net == <<peers, ahead, answers>>
vars == <<syncer, loop, stopping, store, callbacks, caughtUps, notified, net, upsets>>

Heights == 1 .. MaxHeight

(* The block of the chain, and one that its commit is not for. *)
Blocks == {"chain", "other"}

(* BlockStore.Height, of a store whose height is that below its first gap. *)
Stored == {x[1] : x \in store}
IsStoreHeight(h) == 1 .. h \subseteq Stored /\ h + 1 \notin Stored

Init ==
  /\ state = "Idle" /\ startHeight = 0 /\ currentHeight = 0 /\ targetHeight = 0
  /\ pendingRequests = {} /\ started = FALSE
  /\ loop = "none" /\ stopping = FALSE
  /\ store = {}
  /\ valSet = ValSetAt[1]
  /\ callbacks = {} /\ caughtUps = 0 /\ notified = {}
  /\ peers = [p \in {} |-> NewPeerState(0)] /\ ahead \in {0, 1}
  /\ answers = {} /\ upsets = 0

-----------------------------------------------------------------------------
(* The life of the syncer. *)

(* Mutant: the height of the store is not asked for. *)
StartOver ==
  /\ ~started /\ ~stopping
  /\ started' = TRUE /\ state' = "Idle" /\ loop' = "wait"
  /\ startHeight' = 0 /\ currentHeight' = 0
  /\ valSet' = ValSetAt[1]
  /\ UNCHANGED <<targetHeight, pendingRequests, stopping, store, callbacks, caughtUps,
                 notified, net, upsets>>

(* Start.  The host has applied the blocks of the store and calls          *)
(* UpdateValidatorSet first.  Requests of an earlier life stay pending.    *)
Start ==
  /\ ~started /\ ~stopping
  /\ started' = TRUE /\ state' = "Idle" /\ loop' = "wait"
  /\ \E h \in 0 .. MaxHeight :
       /\ IsStoreHeight(h)
       /\ startHeight' = h /\ currentHeight' = h /\ valSet' = ValSetAt[h + 1]
  /\ UNCHANGED <<targetHeight, pendingRequests, stopping, store, callbacks, caughtUps,
                 notified, net, upsets>>

(* Stop: until it waits, and when the goroutines have ended. *)
Stop ==
  /\ started /\ upsets < MaxUpsets
  /\ started' = FALSE /\ stopping' = TRUE /\ upsets' = upsets + 1
  /\ UNCHANGED <<state, startHeight, currentHeight, targetHeight, pendingRequests, valSet,
                 loop, store, callbacks, caughtUps, notified, net>>

StopReturns ==
  /\ stopping /\ loop = "none" /\ callbacks = {} /\ caughtUps = 0
  /\ stopping' = FALSE
  /\ UNCHANGED <<syncer, loop, store, callbacks, caughtUps, notified, net, upsets>>

(* syncLoop finds its context cancelled. *)
LoopEnds ==
  /\ loop = "wait" /\ stopping
  /\ loop' = "none"
  /\ UNCHANGED <<syncer, stopping, store, callbacks, caughtUps, notified, net, upsets>>

(* The callbacks run.  With block h applied the host knows the validators  *)
(* of h + 1.                                                               *)
BlockCallback ==
  /\ callbacks # {}
  /\ LET h == Min(callbacks)
     IN  /\ callbacks' = callbacks \ {h}
         /\ valSet' = ValSetAt[h + 1]
  /\ UNCHANGED <<state, startHeight, currentHeight, targetHeight, pendingRequests, started,
                 loop, stopping, store, caughtUps, notified, net, upsets>>

(* Mutant: the goroutine does not tell the WaitGroup that it has ended. *)
CaughtUpCallbackKept ==
  /\ caughtUps > 0
  /\ UNCHANGED vars

CaughtUpCallback ==
  /\ caughtUps > 0
  /\ caughtUps' = caughtUps - 1
  /\ UNCHANGED <<syncer, loop, stopping, store, callbacks, notified, net, upsets>>

-----------------------------------------------------------------------------
(* One round of syncLoop: three calls, each under the lock. *)

(* The highest height of a connected peer, or the own if that is higher. *)
IsTarget(target) ==
  LET known == {currentHeight} \cup {peers[p].height : p \in DOMAIN peers}
  IN  target \in known /\ \A h \in known : h <= target

(* UpdateTargetHeight *)
UpdateTargetHeight(target) ==
  /\ IsTarget(target)
  /\ targetHeight' = target
  /\ state' = IF currentHeight < target THEN "Syncing"
              ELSE IF state = "Syncing" THEN "CaughtUp" ELSE state
  /\ caughtUps' = IF state = "Syncing" /\ currentHeight >= target
                    THEN caughtUps + 1 ELSE caughtUps

Tick ==
  /\ loop = "wait"
  /\ \E target \in 0 .. MaxHeight + 1 : UpdateTargetHeight(target)
  /\ loop' = "request"
  /\ UNCHANGED <<startHeight, currentHeight, pendingRequests, valSet, started, stopping,
                 store, callbacks, notified, net, upsets>>

(* Mutant: the limit is looked at before the loop and not in it. *)
RequestedUnlimited(asked) ==
  IF state # "Syncing" \/ Cardinality(pendingRequests) >= MaxPendingRequests THEN {} ELSE asked

(* The heights that requestMissingBlocks requests, of those that are asked *)
(* for without an error: from the lowest, up to the limit.                 *)
Requested(asked) ==
  IF state # "Syncing" THEN {}
  ELSE {h \in asked : Cardinality(pendingRequests)
                        + Cardinality({k \in asked : k < h}) < MaxPendingRequests}

(* The heights that are missing, not requested and reported by a peer. *)
Missing ==
  {h \in currentHeight + 1 .. targetHeight :
     h \notin pendingRequests /\ \E p \in DOMAIN peers : peers[p].height >= h}

(* A peer that has the block answers. *)
HasBlock(h) == \E p \in DOMAIN peers : peers[p].height - ahead >= h

requestMissingBlocks(asked) ==
  /\ loop = "request"
  /\ asked \subseteq Missing
  /\ pendingRequests' = pendingRequests \cup Requested(asked)
  /\ answers' = answers \cup {h \in Requested(asked) : HasBlock(h)}
  /\ loop' = "check"
  /\ UNCHANGED <<state, startHeight, currentHeight, targetHeight, valSet, started, stopping,
                 store, callbacks, caughtUps, notified, peers, ahead, upsets>>

(* Mutant: a request is never too old. *)
checkTimeoutsNever(old) ==
  /\ loop = "check"
  /\ loop' = "wait"
  /\ UNCHANGED <<syncer, stopping, store, callbacks, caughtUps, notified, net, upsets>>

(* checkTimeouts: some requests are too old. *)
checkTimeouts(old) ==
  /\ loop = "check"
  /\ pendingRequests' = pendingRequests \ old
  /\ loop' = "wait"
  /\ UNCHANGED <<state, startHeight, currentHeight, targetHeight, valSet, started, stopping,
                 store, callbacks, caughtUps, notified, net, upsets>>

-----------------------------------------------------------------------------
(* ReceiveBlock: the block b of height h comes with the commit of height k. *)

(* VerifyCommit, for the commits that exist: the commit of h is for the    *)
(* block of the chain and signed by the validators of h.  Sets that differ *)
(* do not accept each other's commits.                                     *)
VerifyCommit(h, b) == b = "chain" /\ valSet = ValSetAt[h]

(* Mutant: a block of the wanted height is saved as it comes. *)
AcceptsUnverified(h, k, b) ==
  /\ k = h
  /\ h \in pendingRequests \/ h = currentHeight + 1

Accepts(h, k, b) ==
  /\ k = h
  /\ h \in pendingRequests \/ h = currentHeight + 1
  /\ VerifyCommit(h, b)

(* Mutant: the last block does not end the synchronisation. *)
AdvanceOnly(h) ==
  IF h # currentHeight + 1 THEN UNCHANGED <<currentHeight, callbacks, notified, state, caughtUps>>
  ELSE /\ currentHeight' = h
       /\ callbacks' = callbacks \cup {h} /\ notified' = notified \cup {h}
       /\ UNCHANGED <<state, caughtUps>>

(* Progress, and the callbacks that are started. *)
Advance(h) ==
  IF h # currentHeight + 1 THEN UNCHANGED <<currentHeight, callbacks, notified, state, caughtUps>>
  ELSE /\ currentHeight' = h
       /\ callbacks' = callbacks \cup {h} /\ notified' = notified \cup {h}
       /\ IF h >= targetHeight /\ state = "Syncing"
            THEN state' = "CaughtUp" /\ caughtUps' = caughtUps + 1
            ELSE UNCHANGED <<state, caughtUps>>

ReceiveBlock(h, k, b) ==
  /\ started \/ stopping
  /\ Accepts(h, k, b)
  /\ store' = store \cup {<<h, b>>}
  /\ pendingRequests' = pendingRequests \ {h}
  /\ Advance(h)
  /\ UNCHANGED <<startHeight, targetHeight, valSet, started, loop, stopping, peers, ahead,
                 upsets>>

(* The answer to a request: it is used up, and maybe refused.  SaveBlock   *)
(* that fails changes nothing, which is like losing the answer.            *)
Answer(h) ==
  /\ h \in answers
  /\ answers' = answers \ {h}
  /\ \/ ReceiveBlock(h, h, "chain")
     \/ /\ ~Accepts(h, h, "chain") \/ ~(started \/ stopping)
        /\ UNCHANGED <<syncer, loop, stopping, store, callbacks, caughtUps, notified, peers,
                       ahead, upsets>>

(* A block that was not asked for, comes twice, too late or mixed up. *)
Gossip(h, k, b) == ReceiveBlock(h, k, b) /\ UNCHANGED answers

-----------------------------------------------------------------------------
(* The network. *)

Lose(h) ==
  /\ h \in answers
  /\ answers' = answers \ {h}
  /\ UNCHANGED <<syncer, loop, stopping, store, callbacks, caughtUps, notified, peers, ahead,
                 upsets>>

PeerReports(p, h) ==
  /\ peers' = [AddPeer(peers, p, 0) EXCEPT ![p] = ApplyNewRoundStep(@, h, 0, RoundStepNewHeight)]
  /\ UNCHANGED <<syncer, loop, stopping, store, callbacks, caughtUps, notified, ahead,
                 answers, upsets>>

PeerLeaves(p) ==
  /\ p \in DOMAIN peers /\ upsets < MaxUpsets
  /\ peers' = RemovePeer(peers, p) /\ upsets' = upsets + 1
  /\ UNCHANGED <<syncer, loop, stopping, store, callbacks, caughtUps, notified, ahead,
                 answers>>

Next ==
  \/ Start \/ Stop \/ StopReturns \/ LoopEnds \/ BlockCallback \/ CaughtUpCallback
  \/ Tick
  \/ \E asked \in SUBSET Missing : requestMissingBlocks(asked)
  \/ \E old \in SUBSET pendingRequests : checkTimeouts(old)
  \/ \E h \in Heights : Answer(h) \/ Lose(h)
  \/ \E h, k \in Heights, b \in Blocks : Gossip(h, k, b)
  \/ \E p \in Peers : PeerLeaves(p) \/ \E h \in 1 .. MaxHeight + ahead : PeerReports(p, h)

Spec == Init /\ [][Next]_vars

(* The goroutines go on, and the ticker ticks.  The next block is asked    *)
(* for and sent if that can be tried again and again; of requests that     *)
(* stay pending one, and the one for the next block, is too old at some    *)
(* check; a cancelled context is seen, as the ticker is not always ready.  *)
(* Nothing is assumed of Gossip, Start and Stop, nor of peers that come    *)
(* and go.                                                                 *)
LoopStep ==
  \/ Tick
  \/ \E asked \in SUBSET Missing : requestMissingBlocks(asked)
  \/ \E old \in SUBSET pendingRequests : checkTimeouts(old)

Fairness ==
  /\ WF_vars(LoopStep) /\ WF_vars(BlockCallback \/ CaughtUpCallback)
  /\ WF_vars(StopReturns) /\ SF_vars(LoopEnds)
  /\ SF_vars(\E asked \in SUBSET Missing :
               currentHeight + 1 \in Requested(asked) /\ requestMissingBlocks(asked))
  /\ SF_vars(\E old \in SUBSET pendingRequests : old # {} /\ checkTimeouts(old))
  /\ SF_vars(\E old \in SUBSET pendingRequests : currentHeight + 1 \in old /\ checkTimeouts(old))
  /\ SF_vars(Answer(currentHeight + 1))

FairSpec == Spec /\ Fairness

-----------------------------------------------------------------------------
(* Properties. *)

(* Also, no more than MaxPendingRequests requests are pending, late       *)
(* answers, timeouts and restarts included (requestMissingBlocks).        *)
TypeOK ==
  /\ state \in {"Idle", "Syncing", "CaughtUp"}
  /\ startHeight \in 0 .. MaxHeight /\ currentHeight \in startHeight .. MaxHeight
  /\ targetHeight \in Nat /\ pendingRequests \subseteq 1 .. MaxHeight + 1
  /\ Cardinality(pendingRequests) <= MaxPendingRequests
  /\ started \in BOOLEAN /\ stopping \in BOOLEAN
  /\ loop \in {"none", "wait", "request", "check"}
  /\ store \subseteq Heights \X Blocks
  /\ callbacks \subseteq notified /\ notified \subseteq Heights /\ caughtUps \in Nat

(* Progress is real: every height up to currentHeight is in the store, and *)
(* whatever is in the store is the block that its commit is for, although  *)
(* blocks come out of order, twice, unasked and mixed up (ReceiveBlock).   *)
SyncedIsStored ==
  /\ 1 .. currentHeight \subseteq Stored
  /\ \A x \in store : x[2] = "chain"

(* The state that the host sees agrees with the heights: a node that is    *)
(* Syncing is behind its target and one that is CaughtUp is not, whichever *)
(* of UpdateTargetHeight and ReceiveBlock came last.                       *)
StateMatchesHeights ==
  /\ state = "Syncing" => currentHeight < targetHeight
  /\ state = "CaughtUp" => currentHeight >= targetHeight

(* onBlockCommitted is started once for a height and in the order of       *)
(* heights, also over a Stop and a Start (Start, ReceiveBlock).            *)
NotifiedOnce == [][\A h \in callbacks' \ callbacks : \A k \in notified : k < h]_vars

(* Again and again the syncer has all the blocks that connected peers      *)
(* have, or is stopped: as long as it runs and a peer stays, the peer's    *)
(* blocks are synchronised, although answers are lost, requests time out   *)
(* and blocks come before the validator set they need.                     *)
CatchesUp == []<>(~started \/ ~HasBlock(currentHeight + 1))

(* Stop returns: the loop and the callbacks it waits for end. *)
StopEnds == stopping ~> ~stopping
====
