------------------------------- MODULE IdGen -------------------------------
(***************************************************************************)
(* shard_1.id_generator (database/imsto_21_procedure_id.sql), called by    *)
(* MetaWrap.NextID from concurrent sessions.  A call draws a number from a *)
(* sequence and then, as a second step, reads the clock: the id packs the  *)
(* milliseconds, the shard and the number modulo the size of its field.    *)
(*                                                                         *)
(* Upload takes ids as unique.  Here they are unique in calm conditions,   *)
(* and repeat otherwise only after a lap of the sequence.                  *)
(***************************************************************************)
EXTENDS Integers, Sequences

CONSTANTS
    Sessions,   \* database sessions that call the generator
    SeqMod,     \* 2^11 in the code: values of the field of the sequence
    ShardMod,   \* 2^10 in the code: values of the field of the shard
    ShardId,    \* the number of this shard, 1 in the code
    Epoch,      \* our_epoch, on the clock of the model
    Second,     \* 1000 in the code: the milliseconds of a second
    Lag,        \* in calm conditions, the milliseconds a call takes at most
    MaxMillis,  \* bound: the clock stops here
    MaxDraws    \* bound: numbers drawn from the sequence

ASSUME IdGenAssumption ==
    /\ SeqMod \in Nat \ {0}
    /\ ShardMod \in Nat \ {0}
    /\ ShardId \in 0 .. (ShardMod - 1)
    /\ Epoch \in Nat
    /\ Second \in Nat \ {0}
    /\ Lag \in Nat
    /\ MaxMillis \in Nat
    /\ MaxDraws \in Nat

VARIABLES
    calm,       \* no clock is set back, no call stalls, no lap of the sequence is
                \* faster than a call; fixed in the initial state
    now,        \* clock_timestamp() in milliseconds
    drawnAt,    \* when each number was drawn; its length is the sequence
    pending,    \* the number a session has drawn and not used, 0 for none
    minted      \* the ids returned: [draw, millis, id]

vars == <<calm, now, drawnAt, pending, minted>>

TypeOK ==
    /\ calm \in BOOLEAN
    /\ now \in 0 .. MaxMillis
    /\ drawnAt \in Seq(0 .. MaxMillis)
    /\ pending \in [Sessions -> 0 .. Len(drawnAt)]
    /\ minted \subseteq [draw: 1 .. Len(drawnAt), millis: 0 .. MaxMillis, id: Nat]

Init ==
    /\ calm \in BOOLEAN
    /\ now = 0
    /\ drawnAt = <<>>
    /\ pending = [s \in Sessions |-> 0]
    /\ minted = {}

-----------------------------------------------------------------------------
\* Mutant of Pack: the shard is shifted by the width of its own field.
PackWrongShift(millis, seqId) ==
    ((millis - Epoch) * ShardMod + ShardId) * ShardMod + seqId

\* Mutant of Pack: the epoch is rounded before it is scaled.
PackCoarse(millis, seqId) ==
    (((millis - Epoch) \div 2) * ShardMod + ShardId) * SeqMod + seqId

\* The fields do not overlap, so that | is +; a shift is a product.
Pack(millis, seqId) == ((millis - Epoch) * ShardMod + ShardId) * SeqMod + seqId

\* id_split: ms is a bigint, so that ms / 1000 is a whole second.
Millis(id) == id \div (SeqMod * ShardMod) + Epoch
SplitSecond(id) == Millis(id) \div Second
SplitShard(id) == (id \div SeqMod) % ShardMod
SplitSeq(id) == id % SeqMod

\* Mutant of SeqOf: the field is a bit short.
SeqOfShort(draw) == draw % (SeqMod - 1)

SeqOf(draw) == draw % SeqMod

-----------------------------------------------------------------------------
\* nextval: a number of the sequence is drawn once, whatever becomes of the call.
\* Calm: the number that shared its residue was drawn more than Lag ago.
NextVal(s) ==
    /\ pending[s] = 0
    /\ Len(drawnAt) < MaxDraws
    /\ LET draw == Len(drawnAt) + 1 IN
       /\ calm /\ draw > SeqMod => drawnAt[draw - SeqMod] + Lag < now
       /\ pending' = [pending EXCEPT ![s] = draw]
    /\ drawnAt' = Append(drawnAt, now)
    /\ UNCHANGED <<calm, now, minted>>

\* Mutant of Mint: a negative id is taken for a large one.
MintNegative(s) ==
    /\ pending[s] # 0
    /\ LET id == Pack(now, SeqOf(pending[s])) IN
       minted' = minted \cup {[draw |-> pending[s], millis |-> now, id |-> id]}
    /\ pending' = [pending EXCEPT ![s] = 0]
    /\ UNCHANGED <<calm, now, drawnAt>>

\* The clock is read and the id packed; NextID returns it.
Mint(s) ==
    /\ pending[s] # 0
    /\ LET id == Pack(now, SeqOf(pending[s])) IN
       /\ id >= 0
       /\ minted' = minted \cup {[draw |-> pending[s], millis |-> now, id |-> id]}
    /\ pending' = [pending EXCEPT ![s] = 0]
    /\ UNCHANGED <<calm, now, drawnAt>>

\* The call fails: its session is cut, or the id is negative (the clock is before
\* the epoch) and does not scan into a uint64.  The number stays drawn.
Fail(s) ==
    /\ pending[s] # 0
    /\ pending' = [pending EXCEPT ![s] = 0]
    /\ UNCHANGED <<calm, now, drawnAt, minted>>

\* Calm: no call is left pending for more than Lag.
Tick ==
    /\ now < MaxMillis
    /\ calm => \A s \in Sessions : pending[s] # 0 => now < drawnAt[pending[s]] + Lag
    /\ now' = now + 1
    /\ UNCHANGED <<calm, drawnAt, pending, minted>>

SetBack ==
    /\ ~calm
    /\ now' \in 0 .. (now - 1)
    /\ UNCHANGED <<calm, drawnAt, pending, minted>>

\* The bounds are reached.
Terminating ==
    /\ now = MaxMillis
    /\ \A s \in Sessions : pending[s] = 0
    /\ UNCHANGED vars

Next ==
    \/ \E s \in Sessions : NextVal(s) \/ Mint(s) \/ Fail(s)
    \/ Tick
    \/ SetBack
    \/ Terminating

Spec == Init /\ [][Next]_vars

-----------------------------------------------------------------------------
\* In calm conditions no two calls of the generator return the same id.
UniqueIds ==
    calm => \A a, b \in minted : a.id = b.id => a = b

\* Whatever the clock does, two calls return the same id only if they read the clock in
\* the same millisecond and all of the sequence was drawn between the two.
RepeatNeedsLap ==
    \A a, b \in minted :
        a.id = b.id /\ a.draw < b.draw =>
            /\ a.millis = b.millis
            /\ b.draw - a.draw >= SeqMod

\* id_split gives back the second, the shard and the number that were packed.
SplitInverts ==
    \A m \in minted :
        /\ SplitSecond(m.id) = m.millis \div Second
        /\ SplitShard(m.id) = ShardId
        /\ SplitSeq(m.id) = SeqOf(m.draw)

\* "tm = time.Unix(sec, (ms-sec*1000)*int64(time.Millisecond))", the comment before
\* id_split (imsto_21_procedure_id.sql:32): the time of an id, to the millisecond.
SplitKeepsMillis ==
    \A m \in minted : SplitSecond(m.id) * Second = m.millis

-----------------------------------------------------------------------------
(* The inductive invariant.                                                *)

Drawn == 1 .. Len(drawnAt)

\* In calm conditions the numbers are drawn in the order of time, and the same residue
\* comes back only when its last holder cannot be pending any more.
DrawsPaced ==
    calm =>
        /\ \A d \in Drawn : drawnAt[d] <= now
        /\ \A d, e \in Drawn : d <= e => drawnAt[d] <= drawnAt[e]
        /\ \A d, e \in Drawn : e = d + SeqMod => drawnAt[d] + Lag < drawnAt[e]

\* A pending number is held by one session, has not been used, and is not stale when calm.
PendingFresh ==
    \A s \in Sessions : pending[s] # 0 =>
        /\ \A t \in Sessions : pending[t] = pending[s] => t = s
        /\ \A m \in minted : m.draw # pending[s]
        /\ calm => now <= drawnAt[pending[s]] + Lag

\* An id was packed from its number, once, within Lag of the draw when calm.
MintedPacked ==
    \A m \in minted :
        /\ m.id = Pack(m.millis, SeqOf(m.draw))
        /\ calm => drawnAt[m.draw] <= m.millis /\ m.millis <= drawnAt[m.draw] + Lag
        /\ \A k \in minted : k.draw = m.draw => k = m

IInv == TypeOK /\ DrawsPaced /\ PendingFresh /\ MintedPacked
=============================================================================
