---------------------------- MODULE ChainLocks ----------------------------
(***************************************************************************)
(* The ChainLocks handler of one masternode (src/llmq/chainlocks.cpp) and  *)
(* the part of the chain state it steers (src/validation.cpp): a CLSIG     *)
(* names a block whose chain is final; headers and blocks that conflict    *)
(* with it are refused, marked, and left.                                  *)
(*                                                                         *)
(* Three threads use the handler: "net" (messages), "sig" (the sigshares   *)
(* worker, which reports recovered signatures) and the handler's own       *)
(* scheduler.  Blocks come from the net thread and, if RpcBlocks, from RPC *)
(* threads too.  A step of the model is one critical section of the        *)
(* handler's `cs', or the stretch between two of them under `cs_main';     *)
(* every gap is a place where the other threads may run.                   *)
(***************************************************************************)
EXTENDS Integers, FiniteSets, BlockTree

CONSTANTS
  Start,        \* the tip when the run begins
  ClSigs,       \* the blocks for which a valid CLSIG comes into being
  Handlers,     \* the threads among {"net", "sig"} that process CLSIGs
  RpcBlocks,    \* headers also arrive on threads other than "net"
  StartEnforced, \* the first CheckActiveState already happened
  DIP0008Height,
  MaxEvents,    \* bound on the spork changes and restarts
  ExpireSeen    \* a run long enough for seenChainLocks entries to expire

ASSUME StartAssumption == Start \in Blocks
ASSUME ClSigsAssumption == ClSigs \subseteq Blocks
ASSUME HandlersAssumption == Handlers \subseteq {"net", "sig"}
ASSUME FlagsAssumption ==
  RpcBlocks \in BOOLEAN /\ StartEnforced \in BOOLEAN /\ ExpireSeen \in BOOLEAN
ASSUME BoundsAssumption == DIP0008Height \in Nat /\ MaxEvents \in Nat

VARIABLES
  index,      \* mapBlockIndex: the headers known
  data,       \* the blocks received in full
  conflict,   \* blocks flagged BLOCK_CONFLICT_CHAINLOCK
  failed,     \* blocks flagged BLOCK_FAILED_*
  tip,        \* ChainActive().Tip()
  header,     \* the header AcceptBlockHeader is at, holding cs_main, or None
  from, goal, \* of ActivateBestChain: starting_tip while it holds cs_main,
              \* and pindexMostWork while it works towards one; or None
  tipSignal,  \* an UpdatedBlockTip notification is queued
  spork,      \* SPORK_19_CHAINLOCKS_ENABLED is active
  events,     \* spork changes and restarts so far
  isEnabled, isEnforced,
  seen,       \* seenChainLocks
  best,       \* bestChainLock (and its hash): the block, or None
  bestIdx,    \* bestChainLockWithKnownBlock and bestChainLockBlockIndex
  lastNotify, \* lastNotifyChainLockBlockIndex
  lastSigned, \* lastSignedHeight and lastSignedMsgHash: the last block passed
              \* to AsyncSignIfMember
  jobs,       \* jobs queued with the scheduler, besides the periodic one
  tryLock,    \* tryLockChainTipScheduled
  th,         \* th[t]: the locals of handler thread t
  sched       \* the locals of the scheduler thread

step == <<header, from, goal>>
chain == <<index, data, conflict, failed, tip, step, tipSignal>>
active == <<spork, events, isEnabled, isEnforced>>
locks == <<seen, best, bestIdx, lastNotify>>
queue == <<jobs, tryLock>>
vars == <<chain, active, locks, lastSigned, queue, th, sched>>

\* A thread that does nothing; cl: its CLSIG, found: its LookupBlockIndex hit.
IdleHandler == [pc |-> "idle", cl |-> None, found |-> FALSE]
IdleSched == [pc |-> "idle", job |-> "none", blk |-> None]

Init ==
  /\ index = Chain[Start] /\ data = Chain[Start] /\ conflict = {} /\ failed = {}
  /\ tip = Start /\ header = None /\ from = None /\ goal = None /\ tipSignal = FALSE
  /\ spork = TRUE /\ events = 0
  /\ isEnabled = StartEnforced /\ isEnforced = StartEnforced
  /\ seen = {} /\ best = None /\ bestIdx = None /\ lastNotify = None
  /\ lastSigned = None
  /\ jobs = {} /\ tryLock = FALSE
  /\ th = [t \in Handlers |-> IdleHandler] /\ sched = IdleSched

HeightOf(cl) == IF cl = None THEN -1 ELSE Height[cl]

\* Nobody holds cs_main; the tip that the others last saw.
MainFree == header = None /\ from = None
ActiveTip == IF from = None THEN tip ELSE from

\* InternalHasChainLock and InternalHasConflictingChainLock.
HasChainLock(b) == isEnforced /\ bestIdx # None /\ b \in Chain[bestIdx]
HasConflictingChainLock(b) ==
  isEnforced /\ bestIdx # None /\ Height[b] <= Height[bestIdx] /\ b \notin Chain[bestIdx]
-----------------------------------------------------------------------------
(* CheckActiveState *)

DIP0008Active == ActiveTip # Genesis /\ Height[Parent[ActiveTip]] >= DIP0008Height

\* The flags, two atomics, which no lock protects; `activated' tells whether
\* the second half, the reset, follows.
SetActiveState(activated) ==
  /\ isEnabled' = spork
  /\ isEnforced' = (DIP0008Active /\ spork)
  /\ activated = (~isEnforced /\ isEnforced')

ResetChainLocks ==
  /\ best' = None /\ bestIdx' = None /\ lastNotify' = None
-----------------------------------------------------------------------------
(* ProcessNewChainLock on thread t: a CLSIG message, or a recovered
   signature of what was signed last (HandleNewRecoveredSig). *)

Goto(t, pc) == th' = [th EXCEPT ![t].pc = pc]
Return(t) == th' = [th EXCEPT ![t] = IdleHandler]

ProcessMessage(cl) ==
  /\ "net" \in Handlers /\ th["net"].pc = "idle"
  /\ spork
  /\ RpcBlocks \/ (header = None /\ (goal = None \/ sched.pc = "activate"))
  /\ th' = [th EXCEPT !["net"] = [pc |-> "check", cl |-> cl, found |-> FALSE]]
  /\ UNCHANGED <<chain, active, locks, lastSigned, queue, sched>>

HandleNewRecoveredSig(cl) ==
  /\ "sig" \in Handlers /\ th["sig"].pc = "idle"
  /\ isEnabled
  /\ cl = lastSigned /\ HeightOf(best) < Height[lastSigned]
  /\ th' = [th EXCEPT !["sig"] = [pc |-> "check", cl |-> cl, found |-> FALSE]]
  /\ UNCHANGED <<chain, active, locks, lastSigned, queue, sched>>

HandlerCheckActive(t) ==
  /\ th[t].pc = "check"
  /\ \E activated \in BOOLEAN :
       SetActiveState(activated) /\ Goto(t, IF activated THEN "reset" ELSE "seen")
  /\ UNCHANGED <<chain, spork, events, locks, lastSigned, queue, sched>>

HandlerReset(t) ==
  /\ th[t].pc = "reset"
  /\ ResetChainLocks
  /\ Goto(t, "seen")
  /\ UNCHANGED <<chain, active, seen, lastSigned, queue, sched>>

\* Known CLSIGs, and ones no higher than the best, go no further.
CheckSeen(t) ==
  /\ th[t].pc = "seen"
  /\ seen' = seen \cup {th[t].cl}
  /\ IF th[t].cl \in seen \/ (best # None /\ Height[th[t].cl] <= Height[best])
     THEN Return(t) ELSE Goto(t, "lookup")
  /\ UNCHANGED <<chain, active, best, bestIdx, lastNotify, lastSigned, queue, sched>>

\* The signature is verified and, under cs_main, the block is looked up.
LookupBlock(t) ==
  /\ th[t].pc = "lookup"
  /\ MainFree
  /\ th' = [th EXCEPT ![t].pc = "store", ![t].found = th[t].cl \in index]
  /\ UNCHANGED <<chain, active, locks, lastSigned, queue, sched>>

\* The CLSIG becomes the best one, known block or not, and is relayed; if the
\* block is known its enforcement is scheduled.
StoreChainLock(t) ==
  /\ th[t].pc = "store"
  /\ best' = th[t].cl
  /\ bestIdx' = IF th[t].found THEN th[t].cl ELSE bestIdx
  /\ jobs' = IF th[t].found THEN jobs \cup {"enforce"} ELSE jobs
  /\ Return(t)
  /\ UNCHANGED <<chain, active, seen, lastNotify, lastSigned, tryLock, sched>>

Handler(t) ==
  \/ HandlerCheckActive(t) \/ HandlerReset(t) \/ CheckSeen(t)
  \/ LookupBlock(t) \/ StoreChainLock(t)
-----------------------------------------------------------------------------
(* The chain state, under cs_main *)

\* The thread that receives blocks is not busy with a CLSIG.
BlocksMayCome == RpcBlocks \/ "net" \notin Handlers \/ th["net"].pc = "idle"

\* AcceptBlockHeader up to its HasConflictingChainLock check.  A header that
\* conflicts is indexed with the conflict flag; one whose parent is flagged is
\* refused, and so is one above a failed block, which flags what is between.
AcceptBlockHeader(b) ==
  /\ MainFree /\ BlocksMayCome
  /\ b \notin index /\ Parent[b] \in index \ (conflict \cup failed)
  /\ \/ /\ Chain[Parent[b]] \cap failed # {}
        /\ failed' = failed \cup {a \in Chain[Parent[b]] : Chain[a] \cap failed # {}}
        /\ UNCHANGED <<index, conflict, header>>
     \/ /\ Chain[Parent[b]] \cap failed = {}
        /\ HasConflictingChainLock(b)
        /\ index' = index \cup {b} /\ conflict' = conflict \cup {b}
        /\ UNCHANGED <<failed, header>>
     \/ /\ Chain[Parent[b]] \cap failed = {}
        /\ ~HasConflictingChainLock(b)
        /\ header' = b
        /\ UNCHANGED <<index, conflict, failed>>
  /\ UNCHANGED <<data, tip, from, goal, tipSignal, active, locks, lastSigned, queue, th, sched>>

\* Mutant: the handler is not told about the new header.
AcceptedBlockHeaderSilent ==
  /\ header # None
  /\ index' = index \cup {header}
  /\ header' = None
  /\ UNCHANGED <<data, conflict, failed, tip, from, goal, tipSignal, active, locks, lastSigned, queue, th, sched>>

\* ... and from AddToBlockIndex on: CChainLocksHandler::AcceptedBlockHeader
\* recognises the block of the best CLSIG.
AcceptedBlockHeader ==
  /\ header # None
  /\ index' = index \cup {header}
  /\ bestIdx' = IF header = best THEN header ELSE bestIdx
  /\ header' = None
  /\ UNCHANGED <<data, conflict, failed, tip, from, goal, tipSignal, active, seen, best, lastNotify,
                 lastSigned, queue, th, sched>>

\* Mutant: the block is kept although its header was not accepted.
AcceptBlockUnindexed(b) ==
  /\ MainFree
  /\ b \notin data
  /\ data' = data \cup {b}
  /\ UNCHANGED <<index, conflict, failed, tip, step, tipSignal, active, locks, lastSigned,
                 queue, th, sched>>

\* AcceptBlock of a block whose header was accepted.
AcceptBlock(b) ==
  /\ MainFree /\ BlocksMayCome
  /\ b \in index \ (data \cup conflict \cup failed)
  /\ data' = data \cup {b}
  /\ UNCHANGED <<index, conflict, failed, tip, step, tipSignal, active, locks, lastSigned,
                 queue, th, sched>>

\* setBlockIndexCandidates: of equal work, the active tip came first.
Candidates ==
  {c \in index \ (conflict \cup failed) :
     Chain[c] \subseteq data /\ (Height[c] > Height[ActiveTip] \/ c = ActiveTip)}

\* Blocks of c's chain that are not active, and where it leaves the active one.
ToConnect(c) == Chain[c] \ Chain[tip]
Fork(c) == FindFork(c, tip)

\* ActivateBestChain looks for the candidate with the most work.  A flag found
\* on the way to it is passed on to what lies above (FindMostWorkChain);
\* without one, the active chain is taken back to the fork.
FindMostWorkChain ==
  /\ header = None /\ goal = None
  /\ from # None \/ sched.pc = "activate" \/ BlocksMayCome
  /\ \E m \in Candidates \ {tip} :
       /\ \A c \in Candidates : Height[c] <= Height[m]
       /\ from' = ActiveTip
       /\ \/ /\ ToConnect(m) \cap (conflict \cup failed) = {}
             /\ goal' = m /\ tip' = Fork(m)
             /\ UNCHANGED <<conflict, failed>>
          \/ \E x \in ToConnect(m) \cap (conflict \cup failed) :
               LET above == {a \in ToConnect(m) : Height[a] > Height[x]}
               IN /\ above \cap (conflict \cup failed) = {}
                  /\ failed' = IF x \in failed THEN failed \cup above ELSE failed
                  /\ conflict' = IF x \in failed THEN conflict ELSE conflict \cup above
                  /\ UNCHANGED <<goal, tip>>
  /\ UNCHANGED <<index, data, header, tipSignal, active, locks, lastSigned, queue, th, sched>>

\* Mutant: ConnectBlock does not ask for conflicting ChainLocks.
ConnectTipAny ==
  /\ header = None /\ goal # None
  /\ LET b == CHOOSE b \in Chain[goal] : Height[b] = Height[tip] + 1
         done == b = ActiveTip \/ Height[b] > Height[ActiveTip]
     IN /\ tip' = b
        /\ goal' = IF b = goal THEN None ELSE goal
        /\ from' = IF done THEN None ELSE ActiveTip
        /\ tipSignal' = (tipSignal \/ (done /\ b \notin Chain[ActiveTip]))
        /\ UNCHANGED failed
  /\ UNCHANGED <<index, data, conflict, header, active, locks, lastSigned, queue, th, sched>>

\* ActivateBestChainStep connects the next block towards the goal.  A block
\* that conflicts with the best ChainLock has failed, and another goal is
\* sought.  cs_main is released, and a new tip is signalled, as soon as the
\* chain is not worse than the one it began with.
ConnectTip ==
  /\ header = None /\ goal # None
  /\ LET b == CHOOSE b \in Chain[goal] : Height[b] = Height[tip] + 1
         refused == HasConflictingChainLock(b)
         done == tip' = ActiveTip \/ Height[tip'] > Height[ActiveTip]
     IN /\ tip' = IF refused THEN tip ELSE b
        /\ failed' = IF refused THEN failed \cup {b} ELSE failed
        /\ goal' = IF refused \/ b = goal THEN None ELSE goal
        /\ from' = IF done THEN None ELSE ActiveTip
        /\ tipSignal' = (tipSignal \/ (done /\ tip' \notin Chain[ActiveTip]))
  /\ UNCHANGED <<index, data, conflict, header, active, locks, lastSigned, queue, th, sched>>

\* No candidate is left that is better than what is connected.
EndActivation ==
  /\ from # None /\ goal = None /\ Candidates \subseteq {tip}
  /\ from' = None
  /\ tipSignal' = (tipSignal \/ tip \notin Chain[from])
  /\ UNCHANGED <<index, data, conflict, failed, tip, header, goal, active, locks, lastSigned,
                 queue, th, sched>>

ActivateBestChain == FindMostWorkChain \/ ConnectTip \/ EndActivation

\* Mutant: the blocks of L's chain are not left out.
SiblingsAndSelf(L) ==
  {b \in index \ {Genesis} : \E w \in ToConnect(L) : Parent[b] = Parent[w]}

\* Siblings of the blocks of L's chain that are not active.
Siblings(L) ==
  {b \in index \ {Genesis} : \E w \in ToConnect(L) : b # w /\ Parent[b] = Parent[w]}

\* CChainState::EnforceBlock(L): every sibling of L's chain down to the active
\* one is marked conflicting; if one of them is active, the active chain is
\* rolled back to the fork and what was disconnected is marked too.  Failure
\* flags on L's chain and above it are reset.
EnforceBlock(L) ==
  /\ conflict' = conflict \cup Siblings(L)
                 \cup (IF L \in Chain[tip] THEN {} ELSE Chain[tip] \ Chain[L])
  /\ tip' = IF L \in Chain[tip] THEN tip ELSE Fork(L)
  /\ failed' = IF L \in failed \/ L \notin data
               THEN {b \in failed : b \notin Chain[L] /\ L \notin Chain[b]} ELSE failed
  /\ tipSignal' = (tipSignal \/ Siblings(L) # {})
-----------------------------------------------------------------------------
(* The scheduler thread: "enforce" jobs (CheckActiveState and
   EnforceBestChainLock), and "tip" and "periodic" jobs, which go on to
   TrySignChainTip. *)

SchedGoto(pc) ==
  sched' = [sched EXCEPT !.pc = pc, !.blk = IF pc \in {"tip", "end"} THEN None ELSE @]
AfterEnforce == IF sched.job = "enforce" THEN "end" ELSE "tip"

UpdatedBlockTip ==
  /\ tipSignal
  /\ tipSignal' = FALSE
  /\ tryLock' = TRUE
  /\ jobs' = IF tryLock THEN jobs ELSE jobs \cup {"tip"}
  /\ UNCHANGED <<index, data, conflict, failed, tip, step, active, locks, lastSigned, th, sched>>

StartJob(job) ==
  /\ sched.pc = "idle"
  /\ job \in jobs \cup {"periodic"}
  /\ jobs' = jobs \ {job}
  /\ sched' = [pc |-> "check", job |-> job, blk |-> None]
  /\ UNCHANGED <<chain, active, locks, lastSigned, tryLock, th>>

SchedCheckActive ==
  /\ sched.pc = "check"
  /\ \E activated \in BOOLEAN :
       SetActiveState(activated) /\ SchedGoto(IF activated THEN "reset" ELSE "enforce")
  /\ UNCHANGED <<chain, spork, events, locks, lastSigned, queue, th>>

SchedReset ==
  /\ sched.pc = "reset"
  /\ ResetChainLocks
  /\ SchedGoto("enforce")
  /\ UNCHANGED <<chain, active, seen, lastSigned, queue, th>>

\* EnforceBestChainLock: the block to enforce is read under cs ...
EnforceRead ==
  /\ sched.pc = "enforce"
  /\ IF isEnforced /\ bestIdx # None
     THEN sched' = [sched EXCEPT !.pc = "mark", !.blk = bestIdx]
     ELSE SchedGoto(AfterEnforce)
  /\ UNCHANGED <<chain, active, locks, lastSigned, queue, th>>

\* ... its competitors are marked under cs_main and m_cs_chainstate ...
EnforceMark ==
  /\ sched.pc = "mark"
  /\ MainFree /\ goal = None
  /\ EnforceBlock(sched.blk)
  /\ SchedGoto("activate")
  /\ UNCHANGED <<index, data, step, active, locks, lastSigned, queue, th>>

\* ... ActivateBestChain is called if need be (the chain may be incomplete) ...
EnforceActivate ==
  /\ sched.pc = "activate"
  /\ MainFree
  /\ \/ sched.blk \in Chain[tip] /\ SchedGoto("notify")
     \/ /\ sched.blk \notin Chain[tip] /\ goal = None /\ Candidates \subseteq {tip}
        /\ SchedGoto(AfterEnforce)
  /\ UNCHANGED <<chain, active, locks, lastSigned, queue, th>>

\* ... and listeners are told once.
EnforceNotify ==
  /\ sched.pc = "notify"
  /\ lastNotify' = sched.blk
  /\ SchedGoto(AfterEnforce)
  /\ UNCHANGED <<chain, active, seen, best, bestIdx, lastSigned, queue, th>>

\* TrySignChainTip: Cleanup forgets old CLSIG hashes, the tip is read, ...
ReadTip ==
  /\ sched.pc = "tip"
  /\ MainFree
  /\ \E old \in SUBSET seen : (ExpireSeen \/ old = {}) /\ seen' = seen \ old
  /\ sched' = IF isEnabled /\ spork /\ tip # Genesis
              THEN [sched EXCEPT !.pc = "safe", !.blk = tip] ELSE [sched EXCEPT !.pc = "end"]
  /\ UNCHANGED <<chain, active, best, bestIdx, lastNotify, lastSigned, queue, th>>

\* ... checked under cs, and so are the transactions of the last six blocks,
\* with any outcome, ...
CheckTip ==
  /\ sched.pc = "safe"
  /\ \E txsSafe \in BOOLEAN :
       SchedGoto(IF /\ HeightOf(lastSigned) # Height[sched.blk]
                    /\ HeightOf(best) < Height[sched.blk]
                    /\ ~HasConflictingChainLock(sched.blk)
                    /\ txsSafe
                 THEN "sign" ELSE "end")
  /\ UNCHANGED <<chain, active, locks, lastSigned, queue, th>>

\* ... and, unless a CLSIG of that height came in, the quorum is asked to sign.
SignTip ==
  /\ sched.pc = "sign"
  /\ IF HeightOf(best) < Height[sched.blk]
     THEN lastSigned' = sched.blk
     ELSE UNCHANGED lastSigned
  /\ SchedGoto("end")
  /\ UNCHANGED <<chain, active, locks, queue, th>>

\* Mutant: the flag is not cleared when the job is done.
EndJobKeepsFlag ==
  /\ sched.pc = "end"
  /\ sched' = IdleSched
  /\ UNCHANGED <<chain, active, locks, lastSigned, queue, th>>

EndJob ==
  /\ sched.pc = "end"
  /\ sched' = IdleSched
  /\ tryLock' = (tryLock /\ sched.job # "tip")
  /\ UNCHANGED <<chain, active, locks, lastSigned, jobs, th>>

SchedStep ==
  \/ SchedCheckActive \/ SchedReset \/ EnforceRead \/ EnforceMark \/ EnforceActivate
  \/ EnforceNotify \/ ReadTip \/ CheckTip \/ SignTip \/ EndJob
-----------------------------------------------------------------------------
SporkChange ==
  /\ events < MaxEvents
  /\ events' = events + 1
  /\ spork' = ~spork
  /\ UNCHANGED <<chain, isEnabled, isEnforced, locks, lastSigned, queue, th, sched>>

\* The node stops and starts again: the handler's state is in memory only;
\* conflict flags may be lost (MarkConflictingBlock does not queue the block for
\* writing); LoadBlockIndex passes failure flags on to all descendants.
Restart ==
  /\ events < MaxEvents
  /\ events' = events + 1
  /\ MainFree
  /\ \E lost \in SUBSET conflict : conflict' = conflict \ lost
  /\ failed' = {b \in index : Chain[b] \cap failed # {}}
  /\ isEnabled' = FALSE /\ isEnforced' = FALSE
  /\ seen' = {} /\ best' = None /\ bestIdx' = None /\ lastNotify' = None
  /\ lastSigned' = None
  /\ goal' = None /\ jobs' = {} /\ tryLock' = FALSE /\ tipSignal' = TRUE
  /\ th' = [t \in Handlers |-> IdleHandler] /\ sched' = IdleSched
  /\ UNCHANGED <<index, data, tip, header, from, spork>>

Next ==
  \/ \E cl \in ClSigs : ProcessMessage(cl) \/ HandleNewRecoveredSig(cl)
  \/ \E t \in Handlers : Handler(t)
  \/ \E b \in Blocks \ {Genesis} : AcceptBlockHeader(b) \/ AcceptBlock(b)
  \/ AcceptedBlockHeader \/ ActivateBestChain \/ UpdatedBlockTip
  \/ \E job \in {"enforce", "tip", "periodic"} : StartJob(job)
  \/ SchedStep \/ SporkChange \/ Restart

Spec == Init /\ [][Next]_vars

\* Threads finish what they began, the scheduler serves its queue, queued
\* notifications are delivered, received blocks are acted upon.
Fairness ==
  /\ \A t \in Handlers : WF_vars(Handler(t))
  /\ WF_vars(SchedStep) /\ WF_vars(\E job \in {"enforce", "tip", "periodic"} : StartJob(job))
  /\ WF_vars(AcceptedBlockHeader) /\ WF_vars(UpdatedBlockTip) /\ WF_vars(ActivateBestChain)

FairSpec == Spec /\ Fairness
-----------------------------------------------------------------------------
\* The state of the handler and of the chain is well formed.
TypeOK ==
  /\ index \subseteq Blocks /\ data \subseteq index /\ conflict \subseteq index
  /\ failed \subseteq index /\ tip \in data
  /\ header \in (Blocks \ {Genesis}) \cup {None}
  /\ from \in data \cup {None} /\ goal \in data \cup {None} /\ tipSignal \in BOOLEAN
  /\ spork \in BOOLEAN /\ events \in 0..MaxEvents
  /\ isEnabled \in BOOLEAN /\ isEnforced \in BOOLEAN
  /\ seen \subseteq ClSigs
  /\ best \in ClSigs \cup {None} /\ bestIdx \in ClSigs \cup {None}
  /\ lastNotify \in ClSigs \cup {None} /\ lastSigned \in Blocks \cup {None}
  /\ jobs \subseteq {"enforce", "tip"} /\ tryLock \in BOOLEAN
  /\ th \in [Handlers -> [pc : {"idle", "check", "reset", "seen", "lookup", "store"},
                           cl : ClSigs \cup {None}, found : BOOLEAN]]
  /\ sched \in [pc : {"idle", "check", "reset", "enforce", "mark", "activate", "notify", "tip",
                       "safe", "sign", "end"},
                 job : {"none", "enforce", "tip", "periodic"}, blk : Blocks \cup {None}]

\* The quorums signed blocks of one chain only.
ConsistentLocks == \A a, b \in ClSigs : a \in Chain[b] \/ b \in Chain[a]

\* The blocks that CLSIGs make final.
LockedChain == UNION {Chain[cl] : cl \in ClSigs}

\* Neither marking competitors, nor refused headers, nor failed connections
\* ever flag a block of the locked chain: nothing clears a conflict flag, so
\* such a node could never follow the network again.
LockedChainUsable == LockedChain \cap (conflict \cup failed) = {}

\* A thread found ChainLocks activated and is about to drop the old values.
ResetPending == sched.pc = "reset" \/ \E t \in Handlers : th[t].pc = "reset"

\* What NotifyChainLock told the listeners stays true: while it is the lock
\* being enforced, the block is active whenever cs_main is free, whatever
\* blocks, CLSIGs and activations under way come in between.
NotifiedLockIsActive ==
  isEnforced /\ lastNotify # None /\ lastNotify = bestIdx /\ ~ResetPending
    => bestIdx \in Chain[ActiveTip]

\* No thread is inside ProcessNewChainLock or AcceptBlockHeader.
Quiet == header = None /\ \A t \in Handlers : th[t].pc = "idle"

\* If the block of the best CLSIG is known, it is the one being enforced:
\* either ProcessNewChainLock or AcceptedBlockHeader notices ("when the block
\* or the header later comes in, we will enforce the correct chain").
KnownBestIsTracked == Quiet /\ best \in index => bestIdx = best

\* tryLockChainTipScheduled stays set only while a job that will clear it is
\* queued or running; otherwise no new tip would ever be signed again.
TipJobNotLost == tryLock => "tip" \in jobs \/ sched.job = "tip"

\* A block is signed only if its chain contains the block of the best CLSIG
\* ("don't sign if another conflicting CLSIG is already present").
NoConflictingSign ==
  [][lastSigned' # lastSigned /\ lastSigned' # None /\ isEnforced /\ bestIdx # None
       => bestIdx \in Chain[lastSigned']]_vars

\* A stored CLSIG whose chain has been received is eventually active, whatever
\* headers, blocks and jobs come in between, unless the spork or a restart takes
\* the CLSIG or its enforcement away.
StoredLockEnforced ==
  \A cl \in ClSigs : (best = cl /\ Chain[cl] \subseteq data)
                        ~> (cl \in Chain[tip] \/ best # cl \/ ~isEnforced)
=============================================================================
