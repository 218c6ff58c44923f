--------------------------- MODULE MCBlocks ---------------------------------
(***************************************************************************)
(* What becomes of the transactions of an epoch, side by side: the block   *)
(* generator with its storage (with the constants of the configuration,    *)
(* which has it crash and restart without reset_epoch, in "crash"; without *)
(* a crash in "blocks"; with early_return in "early"; with blocks in       *)
(* memory in "memory"), and a user who follows the chain (several clients  *)
(* whose requests may be lost in "user"; one client, held to its rate, in  *)
(* "paced").                                                               *)
(***************************************************************************)
EXTENDS BlockGenerator, Sequences, TLC

CONSTANT Clients    \* client threads of the user

Symmetry == Permutations(Clients)

VARIABLES
    part,   \* which of them the behaviour is about
    pc, sent, next, permits, ticks, pending, flying, blocks, finish, uTip, uHeight,
    txMap, committed, aborted, unknown  \* of the user

client ==
    <<pc, sent, next, permits, ticks, pending, flying, blocks, finish, uTip, uHeight,
      txMap, committed, aborted, unknown>>
MCvars == <<part, vars, client>>

B == INSTANCE BlockGenerator WITH LastEpoch <- 3, PoolSize <- 2, Peer <- {1, 2}, MaxCrash <- 0,
         EarlyReturn <- FALSE, ResetEpoch <- TRUE, NumberMayTear <- FALSE, InMemory <- FALSE
E == INSTANCE BlockGenerator WITH LastEpoch <- 3, PoolSize <- 2, Peer <- {1}, MaxCrash <- 0,
         EarlyReturn <- TRUE, ResetEpoch <- TRUE, NumberMayTear <- FALSE, InMemory <- FALSE
M == INSTANCE BlockGenerator WITH LastEpoch <- 3, PoolSize <- 1, Peer <- {1}, MaxCrash <- 1,
         EarlyReturn <- FALSE, ResetEpoch <- FALSE, NumberMayTear <- FALSE, InMemory <- TRUE
R == INSTANCE UserClient WITH Clients <- {1}, TotalOp <- 3, Lossy <- FALSE,
         tip <- uTip, height <- uHeight
U == INSTANCE UserClient WITH TotalOp <- 1, Lossy <- TRUE, tip <- uTip, height <- uHeight

\* What a behaviour is not about keeps its initial value.
MCInit ==
    \/ part = "crash" /\ Init /\ R!Init
    \/ part = "blocks" /\ B!Init /\ R!Init
    \/ part = "early" /\ E!Init /\ R!Init
    \/ part = "memory" /\ M!Init /\ R!Init
    \/ part = "paced" /\ Init /\ R!Init
    \/ part = "user" /\ Init /\ U!Init

MCNext ==
    \/ part = "crash" /\ Next /\ UNCHANGED <<part, client>>
    \/ part = "blocks" /\ B!Next /\ UNCHANGED <<part, client>>
    \/ part = "early" /\ E!Next /\ UNCHANGED <<part, client>>
    \/ part = "memory" /\ M!Next /\ UNCHANGED <<part, client>>
    \/ part = "paced" /\ R!Next /\ UNCHANGED <<part, vars>>
    \/ part = "user" /\ U!Next /\ UNCHANGED <<part, vars>>
    \/ part = "paced" /\ pc = "done" /\ UNCHANGED MCvars
    \/ part = "user" /\ (pc = "done" \/ flying = {}) /\ UNCHANGED MCvars

MCSpec == MCInit /\ [][MCNext]_MCvars
-----------------------------------------------------------------------------
\* The body of an epoch is in the block with its number, though the pool finishes the
\* bodies in any order and insertBlock takes its number from the storage.  Every saved
\* block can be loaded when a header or a signature needs it, the cached
\* previousDataHash is that of the last block (no CHECK fails as long as the process
\* lives), and a user who asks for the blocks up to the tip gets every one of them
\* (without early_return, which answers with the bodies as they are finished).  The
\* block that getLatestSavedEpoch names ("return max number of block chain") is there,
\* after a crash, too.
BlocksServed ==
    /\ part = "crash" => TypeOK /\ BodyInItsBlock /\ LatestHasBlock
    /\ part = "blocks" =>
           B!TypeOK /\ B!BodyInItsBlock /\ B!NoCheckFails /\ B!NoBlockMissed
    /\ part = "early" => E!TypeOK /\ E!BodyInItsBlock /\ E!NoCheckFails
    /\ part = "memory" =>
           M!TypeOK /\ M!BodyInItsBlock /\ M!NoCheckFails /\ M!LatestHasBlock

\* The user's monitor counts every transaction once and by its result: what it has
\* counted is what the blocks below its height hold, the rest is pending or in the map.
\* It knows every transaction it meets in a block (no "missing tx in tx map"), although
\* sendInvokeRequest notes a transaction in one thread and the status thread takes the
\* notes over in another.
CountedByResult ==
    /\ part = "user" => U!TypeOK /\ U!CountedByResult /\ U!NoMissing /\ U!IInv
    /\ part = "paced" => R!TypeOK /\ R!CountedByResult /\ R!NoMissing /\ R!RateKept /\ R!IInv
=============================================================================
