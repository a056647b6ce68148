-------------------------------- MODULE Base --------------------------------
(* The passive parts of base/ that share nothing: the list, the pools, the  *)
(* polls and the buffers.  A behaviour is a behaviour of one of them, the   *)
(* part; the others stand still, so that the states are those of the four   *)
(* specifications side by side and not their product.                       *)
EXTENDS Slist

CONSTANTS
  Pools, NumBlocks, PoolThreads, PoolTimeouts,
  Pollers, Raisers, Signals, Queues, EventsOf, PollTimeouts,
  BufCount, BufThreads, BufTimeouts, MaxRef, Shares, Headless

(* info.num_blocks is a number of blocks; an event names an object.         *)
ASSUME NumBlocksAssumption == NumBlocks \in Nat
ASSUME EventsOfAssumption == EventsOf \in [Pollers -> Seq(Signals \cup Queues)]

(* pool->buf_count is a number of buffers, NULL is none of them, and there  *)
(* are finitely many threads.                                               *)
ASSUME BufAssumption == /\ BufCount \in Nat /\ NULL \notin 1..BufCount
                        /\ IsFiniteSet(BufThreads)

VARIABLES
  part,
  poolFreeList, poolNumUsed, poolWait, poolLock, poolPc, poolArg, poolHeld,
  pollSignaled, pollData, pollEvents, pollAttached, pollReady, pollLock,
  pollPc, pollTimeout, pollIi, pollRegistered, pollIsPolling, pollSem,
  pollRet, pollRaising, pollUnseen,
  bufUninit, bufFree, bufRef, bufFrags, bufExternal, bufList, bufPc,
  bufCall, bufCur, bufVal, bufRest, bufOwn

poolVars == <<poolFreeList, poolNumUsed, poolWait, poolLock, poolPc,
              poolArg, poolHeld>>
pollVars == <<pollSignaled, pollData, pollEvents, pollAttached, pollReady,
              pollLock, pollPc, pollTimeout, pollIi, pollRegistered,
              pollIsPolling, pollSem, pollRet, pollRaising, pollUnseen>>
bufVars == <<bufUninit, bufFree, bufRef, bufFrags, bufExternal, bufList,
             bufPc, bufCall, bufCur, bufVal, bufRest, bufOwn>>

Pool == INSTANCE MemPool WITH
    Threads <- PoolThreads, Timeouts <- PoolTimeouts,
    freeList <- poolFreeList,
    numUsed <- poolNumUsed, wait <- poolWait, lock <- poolLock,
    pc <- poolPc, arg <- poolArg, held <- poolHeld

Poll == INSTANCE BtPoll WITH
    Timeouts <- PollTimeouts, signaled <- pollSignaled,
    data <- pollData, events <- pollEvents, attached <- pollAttached,
    ready <- pollReady, lock <- pollLock, pc <- pollPc,
    timeout <- pollTimeout, ii <- pollIi, registered <- pollRegistered,
    isPolling <- pollIsPolling, sem <- pollSem, ret <- pollRet,
    raising <- pollRaising, unseen <- pollUnseen

Buf == INSTANCE BtBuf WITH
    Threads <- BufThreads, Timeouts <- BufTimeouts,
    uninit <- bufUninit, free <- bufFree,
    ref <- bufRef, frags <- bufFrags, external <- bufExternal,
    list <- bufList, pc <- bufPc, call <- bufCall, cur <- bufCur,
    val <- bufVal, rest <- bufRest, own <- bufOwn

Parts == {"list", "pool", "poll", "buf"}

BaseInit ==
  /\ part \in Parts
  /\ Init /\ Pool!Init /\ Poll!Init /\ Buf!Init
  /\ part # "list" => list.next = [n \in Nodes |-> NULL]

BaseNext ==
  /\ UNCHANGED part
  /\ \/ part = "list" /\ Next /\ UNCHANGED <<poolVars, pollVars, bufVars>>
     \/ part = "pool" /\ Pool!Next /\ UNCHANGED <<vars, pollVars, bufVars>>
     \/ part = "poll" /\ Poll!Next /\ UNCHANGED <<vars, poolVars, bufVars>>
     \/ part = "buf" /\ Buf!Next /\ UNCHANGED <<vars, poolVars, pollVars>>

BaseSpec == BaseInit /\ [][BaseNext]_<<part, vars, poolVars, pollVars, bufVars>>

(* What each part promises, where it is the part that moves.                *)
PoolConserved == part = "pool" => Pool!PoolConserved
PollExact     == part = "poll" => Poll!PollExact
BufsExact     == part = "buf" => Buf!BufsExact
=============================================================================
