---------------------------- MODULE IdGenProofs ----------------------------
(* IInv of IdGen is inductive; what the ids promise follows from it.       *)
EXTENDS IdGen, TLAPS

\* A number and its remainder determine the quotient.
LEMMA QuotientIsUnique ==
    ASSUME NEW k \in Nat \ {0}, NEW x \in Int, NEW y \in Int,
           NEW r \in 0 .. (k - 1), NEW t \in 0 .. (k - 1),
           x * k + r = y * k + t
    PROVE  x = y /\ r = t
<1>1. ASSUME NEW p \in Int, NEW q \in Int, p >= q + 1
      PROVE  p * k >= q * k + k
  <2>1. (p - q - 1) * k >= 0
    BY <1>1, SMT
  <2>2. (p - q - 1) * k = p * k - q * k - k
    BY SMT
  <2> QED
    BY <2>1, <2>2, SMT
<1>2. x * k \in Int /\ y * k \in Int
  BY SMT
<1>3. ~ (x >= y + 1)
  BY <1>1, <1>2, SMT
<1>4. ~ (y >= x + 1)
  BY <1>1, <1>2, SMT
<1> QED
  BY <1>2, <1>3, <1>4, SMT

\* Packing loses nothing: equal ids have equal times and equal residues.
LEMMA PackIsInjective ==
    ASSUME NEW m \in Int, NEW n \in Int,
           NEW r \in 0 .. (SeqMod - 1), NEW t \in 0 .. (SeqMod - 1),
           Pack(m, r) = Pack(n, t)
    PROVE  m = n /\ r = t
<1> USE IdGenAssumption
<1> DEFINE hm == (m - Epoch) * ShardMod + ShardId
           hn == (n - Epoch) * ShardMod + ShardId
<1>1. hm \in Int /\ hn \in Int
  BY SMT
<1>2. hm * SeqMod + r = hn * SeqMod + t
  BY DEF Pack
<1>3. hm = hn /\ r = t
  <2> HIDE DEF hm, hn
  <2> QED
    BY <1>1, <1>2, QuotientIsUnique
<1>4. m - Epoch = n - Epoch
  BY <1>3, QuotientIsUnique
<1> QED
  BY <1>3, <1>4, SMT

\* Two numbers with the same residue are at least a lap of the sequence apart.
LEMMA SameResidueIsALap ==
    ASSUME NEW d \in Nat, NEW e \in Nat, d < e, SeqOf(d) = SeqOf(e)
    PROVE  e >= d + SeqMod
<1> USE IdGenAssumption
<1> DEFINE r == d % SeqMod
           p == d \div SeqMod
           q == e \div SeqMod
<1>1. /\ p \in Int /\ q \in Int /\ r \in 0 .. (SeqMod - 1)
      /\ d = SeqMod * p + r
      /\ e = SeqMod * q + r
  BY SMT DEF SeqOf
<1> HIDE DEF p, q, r
<1>2. q >= p + 1
  <2> SUFFICES ASSUME q <= p PROVE FALSE
    BY <1>1, SMT
  <2>1. SeqMod * (p - q) >= 0
    BY <1>1, SMT
  <2>2. SeqMod * (p - q) = SeqMod * p - SeqMod * q
    BY <1>1, SMT
  <2> QED
    BY <1>1, <2>1, <2>2, SMT
<1>3. SeqMod * (q - p - 1) >= 0
  BY <1>1, <1>2, SMT
<1>4. SeqMod * (q - p - 1) = SeqMod * q - SeqMod * p - SeqMod
  BY <1>1, SMT
<1> QED
  BY <1>1, <1>3, <1>4, SMT

LEMMA ResidueType ==
    ASSUME NEW d \in Nat PROVE SeqOf(d) \in 0 .. (SeqMod - 1)
BY IdGenAssumption, SMT DEF SeqOf

-----------------------------------------------------------------------------
LEMMA InitInv == Init => IInv
BY IdGenAssumption, SMT DEF Init, IInv, TypeOK, DrawsPaced, PendingFresh, MintedPacked, Drawn

\* A draw extends the log; the new number is held by no one and used by no one.
LEMMA NextValInv ==
    ASSUME IInv, NEW s \in Sessions, NextVal(s) PROVE IInv'
<1> USE IdGenAssumption
<1> DEFINE draw == Len(drawnAt) + 1
<1>1. /\ drawnAt \in Seq(0 .. MaxMillis)
      /\ now \in 0 .. MaxMillis
      /\ drawnAt' = Append(drawnAt, now)
      /\ pending' = [pending EXCEPT ![s] = draw]
      /\ calm' = calm /\ now' = now /\ minted' = minted
  BY DEF IInv, TypeOK, NextVal
<1>2. /\ Len(drawnAt) \in Nat
      /\ Len(drawnAt') = draw
      /\ drawnAt'[draw] = now
      /\ \A d \in Drawn : drawnAt'[d] = drawnAt[d] /\ drawnAt[d] \in 0 .. MaxMillis
      /\ Drawn' = 1 .. draw
      /\ Drawn = 1 .. (draw - 1)
  BY <1>1, SMT DEF Drawn
<1>3. \A t \in Sessions : pending[t] \in 0 .. (draw - 1)
  BY DEF IInv, TypeOK
<1>4. \A m \in minted : m.draw \in Drawn
  BY DEF IInv, TypeOK, Drawn
<1>5. TypeOK'
  <2>1. drawnAt' \in Seq(0 .. MaxMillis)
    BY <1>1, SMT
  <2>2. pending' \in [Sessions -> 0 .. Len(drawnAt')]
    BY <1>1, <1>2, <1>3, SMT DEF IInv, TypeOK
  <2>3. minted' \subseteq [draw: 1 .. Len(drawnAt'), millis: 0 .. MaxMillis, id: Nat]
    BY <1>1, <1>2, SMT DEF IInv, TypeOK
  <2> QED
    BY <1>1, <2>1, <2>2, <2>3 DEF IInv, TypeOK
<1>6. DrawsPaced'
  <2> SUFFICES ASSUME calm PROVE DrawsPaced'
    BY <1>1 DEF DrawsPaced
  <2>1. draw > SeqMod => drawnAt[draw - SeqMod] + Lag < now
    BY DEF NextVal
  <2>2. \A d \in Drawn : drawnAt[d] <= now
    BY DEF IInv, DrawsPaced
  <2>3. \A d, e \in Drawn : d <= e => drawnAt[d] <= drawnAt[e]
    BY DEF IInv, DrawsPaced
  <2>4. \A d, e \in Drawn : e = d + SeqMod => drawnAt[d] + Lag < drawnAt[e]
    BY DEF IInv, DrawsPaced
  <2>5. \A d \in Drawn' : drawnAt'[d] <= now'
    BY <1>1, <1>2, <2>2, SMT
  <2>6. \A d, e \in Drawn' : d <= e => drawnAt'[d] <= drawnAt'[e]
    BY <1>1, <1>2, <2>2, <2>3, SMT
  <2>7. \A d, e \in Drawn' : e = d + SeqMod => drawnAt'[d] + Lag < drawnAt'[e]
    <3> SUFFICES ASSUME NEW d \in Drawn', NEW f \in Drawn', f = d + SeqMod
                 PROVE  drawnAt'[d] + Lag < drawnAt'[f]
      OBVIOUS
    <3>1. d \in Drawn /\ drawnAt'[d] = drawnAt[d]
      BY <1>2, SMT
    <3>2. CASE f = draw
      <4>1. d = draw - SeqMod /\ draw > SeqMod
        BY <1>2, <3>1, <3>2, SMT
      <4>2. drawnAt[d] + Lag < now
        BY <2>1, <4>1
      <4>3. drawnAt'[f] = now
        BY <1>2, <3>2
      <4> QED
        BY <3>1, <4>2, <4>3
    <3>3. CASE f # draw
      <4>1. f \in 1 .. draw
        BY <1>2
      <4>2. f \in 1 .. (draw - 1)
        BY <1>2, <3>3, <4>1, SMT
      <4>3. f \in Drawn /\ drawnAt'[f] = drawnAt[f]
        BY <1>2, <4>2
      <4> QED
        BY <2>4, <3>1, <4>3
    <3> QED
      BY <3>2, <3>3
  <2> QED
    BY <2>5, <2>6, <2>7 DEF DrawsPaced
<1>7. PendingFresh'
  <2> SUFFICES ASSUME NEW t \in Sessions, pending'[t] # 0
               PROVE  /\ \A v \in Sessions : pending'[v] = pending'[t] => v = t
                      /\ \A m \in minted : m.draw # pending'[t]
                      /\ calm => now <= drawnAt'[pending'[t]] + Lag
    BY <1>1 DEF PendingFresh
  <2>1. \A v \in Sessions : pending'[v] = IF v = s THEN draw ELSE pending[v]
    BY <1>1 DEF IInv, TypeOK
  <2>2. CASE t = s
    BY <1>1, <1>2, <1>3, <1>4, <2>1, <2>2, SMT
  <2>3. CASE t # s
    BY <1>2, <1>3, <2>1, <2>3, SMT DEF IInv, PendingFresh
  <2> QED
    BY <2>2, <2>3
<1>8. MintedPacked'
  BY <1>1, <1>2, <1>4, SMT DEF IInv, MintedPacked
<1> QED
  BY <1>5, <1>6, <1>7, <1>8 DEF IInv

\* The id joins the minted ones, and its number is not pending any more.
LEMMA MintInv ==
    ASSUME IInv, NEW s \in Sessions, Mint(s) PROVE IInv'
<1> USE IdGenAssumption
<1> DEFINE new == [draw |-> pending[s], millis |-> now, id |-> Pack(now, SeqOf(pending[s]))]
<1>1. /\ pending[s] # 0
      /\ new.id >= 0
      /\ minted' = minted \cup {new}
      /\ pending' = [pending EXCEPT ![s] = 0]
      /\ calm' = calm /\ now' = now /\ drawnAt' = drawnAt
  BY DEF Mint
<1>2. \A t \in Sessions : pending'[t] = IF t = s THEN 0 ELSE pending[t]
  BY <1>1 DEF IInv, TypeOK
<1>3. pending[s] \in Drawn
  BY <1>1, SMT DEF IInv, TypeOK, Drawn
<1>4. TypeOK'
  <2>1. SeqOf(pending[s]) \in Int
    BY <1>3, SMT DEF SeqOf, IInv, TypeOK, Drawn
  <2>2. new.id \in Nat
    BY <1>1, <2>1, SMT DEF Pack, IInv, TypeOK
  <2>3. new \in [draw: Drawn, millis: 0 .. MaxMillis, id: Nat]
    BY <1>3, <2>2 DEF IInv, TypeOK
  <2>4. pending' \in [Sessions -> 0 .. Len(drawnAt')]
    BY <1>1, SMT DEF IInv, TypeOK
  <2> HIDE DEF new
  <2> QED
    BY <1>1, <2>3, <2>4 DEF IInv, TypeOK, Drawn
<1>5. DrawsPaced'
  BY <1>1 DEF IInv, DrawsPaced, Drawn
<1>6. PendingFresh'
  BY <1>1, <1>2, SMT DEF IInv, PendingFresh
<1>7. MintedPacked'
  <2>1. calm => drawnAt[pending[s]] <= now /\ now <= drawnAt[pending[s]] + Lag
    BY <1>1, <1>3 DEF IInv, DrawsPaced, PendingFresh
  <2>2. \A m \in minted : m.draw # pending[s]
    BY <1>1 DEF IInv, PendingFresh
  <2> QED
    BY <1>1, <2>1, <2>2 DEF IInv, MintedPacked
<1> QED
  BY <1>4, <1>5, <1>6, <1>7 DEF IInv

\* A number is given up, or the clock moves.
LEMMA OtherInv ==
    ASSUME IInv, (\E s \in Sessions : Fail(s)) \/ Tick \/ SetBack PROVE IInv'
<1> USE IdGenAssumption
<1>1. ASSUME NEW s \in Sessions, Fail(s) PROVE IInv'
  <2>1. \A t \in Sessions : pending'[t] = IF t = s THEN 0 ELSE pending[t]
    BY <1>1 DEF Fail, IInv, TypeOK
  <2>2. pending' \in [Sessions -> 0 .. Len(drawnAt')]
    BY <1>1, SMT DEF Fail, IInv, TypeOK
  <2> QED
    BY <1>1, <2>1, <2>2
    DEF Fail, IInv, TypeOK, DrawsPaced, PendingFresh, MintedPacked, Drawn
<1>2. CASE Tick
  <2>1. /\ now' = now + 1 /\ now' \in 0 .. MaxMillis /\ now \in 0 .. MaxMillis
        /\ UNCHANGED <<calm, drawnAt, pending, minted>>
    BY <1>2, SMT DEF Tick, IInv, TypeOK
  <2>2. TypeOK'
    BY <2>1 DEF IInv, TypeOK
  <2>3. \A d \in Drawn : drawnAt[d] \in 0 .. MaxMillis
    BY SMT DEF IInv, TypeOK, Drawn
  <2>4. DrawsPaced'
    BY <2>1, <2>3, SMT DEF IInv, DrawsPaced, Drawn
  <2>5. \A s \in Sessions : pending[s] # 0 => pending[s] \in Drawn
    BY SMT DEF IInv, TypeOK, Drawn
  <2>6. PendingFresh'
    <3>1. calm => \A s \in Sessions : pending[s] # 0 => now < drawnAt[pending[s]] + Lag
      BY <1>2 DEF Tick
    <3>2. calm => \A s \in Sessions : pending[s] # 0 => now + 1 <= drawnAt[pending[s]] + Lag
      BY <2>1, <2>3, <2>5, <3>1, SMT
    <3> QED
      BY <2>1, <3>2 DEF IInv, PendingFresh
  <2> QED
    BY <2>1, <2>2, <2>4, <2>6 DEF IInv, MintedPacked
<1>3. CASE SetBack
  <2>1. /\ ~calm /\ now' \in 0 .. MaxMillis
        /\ UNCHANGED <<calm, drawnAt, pending, minted>>
    BY <1>3, SMT DEF SetBack, IInv, TypeOK
  <2> QED
    BY <2>1 DEF IInv, TypeOK, DrawsPaced, PendingFresh, MintedPacked
<1> QED
  BY <1>1, <1>2, <1>3

LEMMA StutterInv == ASSUME IInv, UNCHANGED vars PROVE IInv'
BY DEF vars, IInv, TypeOK, DrawsPaced, PendingFresh, MintedPacked, Drawn

\* The log of draws, the pending numbers and the minted ids stay as the generator keeps
\* them: each number used once, and in order and on time in calm conditions.
THEOREM Invariance == Spec => []IInv
<1>1. ASSUME IInv, [Next]_vars PROVE IInv'
  BY <1>1, NextValInv, MintInv, OtherInv, StutterInv DEF Next, Terminating
<1> QED
  BY InitInv, <1>1, PTL DEF Spec

-----------------------------------------------------------------------------
\* Equal ids were packed from the same millisecond and the same residue.
LEMMA EqualIds ==
    ASSUME IInv, NEW a \in minted, NEW b \in minted, a.id = b.id
    PROVE  a.millis = b.millis /\ SeqOf(a.draw) = SeqOf(b.draw)
<1>1. /\ a.draw \in Nat /\ b.draw \in Nat
      /\ a.millis \in Int /\ b.millis \in Int
  BY SMT DEF IInv, TypeOK
<1>2. Pack(a.millis, SeqOf(a.draw)) = Pack(b.millis, SeqOf(b.draw))
  BY DEF IInv, MintedPacked
<1> QED
  BY <1>1, <1>2, ResidueType, PackIsInjective

LEMMA RepeatFromInv == IInv => RepeatNeedsLap
<1> SUFFICES ASSUME IInv, NEW a \in minted, NEW b \in minted,
                    a.id = b.id, a.draw < b.draw
             PROVE  a.millis = b.millis /\ b.draw - a.draw >= SeqMod
  BY DEF RepeatNeedsLap
<1>1. a.draw \in Nat /\ b.draw \in Nat
  BY SMT DEF IInv, TypeOK
<1>2. b.draw >= a.draw + SeqMod
  BY <1>1, EqualIds, SameResidueIsALap
<1> QED
  BY <1>1, <1>2, EqualIds, IdGenAssumption, SMT

\* In calm conditions the later of two draws a lap apart reads a later clock.
LEMMA CalmLap ==
    ASSUME IInv, calm, NEW a \in minted, NEW b \in minted, b.draw >= a.draw + SeqMod
    PROVE  a.millis < b.millis
<1> USE IdGenAssumption
<1> DEFINE e == a.draw + SeqMod
<1>1. a.draw \in Drawn /\ b.draw \in Drawn /\ e \in Drawn
  BY SMT DEF IInv, TypeOK, Drawn
<1>2. drawnAt[a.draw] + Lag < drawnAt[e] /\ drawnAt[e] <= drawnAt[b.draw]
  BY <1>1 DEF IInv, DrawsPaced
<1>3. a.millis <= drawnAt[a.draw] + Lag /\ drawnAt[b.draw] <= b.millis
  BY DEF IInv, MintedPacked
<1>4. a.millis \in Int /\ b.millis \in Int
  BY SMT DEF IInv, TypeOK
<1>5. \A d \in Drawn : drawnAt[d] \in Int
  BY SMT DEF IInv, TypeOK, Drawn
<1> HIDE DEF e
<1> QED
  BY <1>1, <1>2, <1>3, <1>4, <1>5, SMT

LEMMA UniqueFromInv == IInv => UniqueIds
<1> SUFFICES ASSUME IInv, calm, NEW a \in minted, NEW b \in minted, a.id = b.id
             PROVE  a = b
  BY DEF UniqueIds
<1>1. /\ a.draw \in Nat /\ b.draw \in Nat
      /\ a.millis \in Int /\ b.millis \in Int
  BY SMT DEF IInv, TypeOK
<1>2. ~ (a.draw < b.draw)
  BY <1>1, EqualIds, SameResidueIsALap, CalmLap, SMT
<1>3. ~ (b.draw < a.draw)
  BY <1>1, EqualIds, SameResidueIsALap, CalmLap, SMT
<1>4. a.draw = b.draw
  BY <1>1, <1>2, <1>3, SMT
<1> QED
  BY <1>4 DEF IInv, MintedPacked

\* Two calls of the generator return the same id only when both read the clock in one
\* millisecond and the whole sequence was drawn in between.
THEOREM RepeatsNeedALap == Spec => []RepeatNeedsLap
BY Invariance, RepeatFromInv, PTL

\* While no clock is set back, no call stalls and the sequence does not lap a call, the
\* ids that uploads are given are unique.
THEOREM IdsAreUnique == Spec => []UniqueIds
BY Invariance, UniqueFromInv, PTL

\* Every state of IdGen is well typed: an id is never negative.
THEOREM TypeCorrect == Spec => []TypeOK
<1>1. IInv => TypeOK
  BY DEF IInv
<1> QED
  BY <1>1, Invariance, PTL

-----------------------------------------------------------------------------
\* Dividing gives back a quotient and a remainder.
LEMMA Divided ==
    ASSUME NEW k \in Nat \ {0}, NEW x \in Int, NEW r \in 0 .. (k - 1)
    PROVE  (x * k + r) \div k = x /\ (x * k + r) % k = r
<1> DEFINE n == x * k + r
           q == n \div k
           t == n % k
<1>1. n \in Int
  BY SMT
<1> HIDE DEF n
<1>2. q \in Int /\ t \in 0 .. (k - 1) /\ n = q * k + t
  BY <1>1, SMT
<1> HIDE DEF q, t
<1>3. q * k + t = x * k + r
  BY <1>2 DEF n
<1>4. q = x /\ t = r
  BY <1>2, <1>3, QuotientIsUnique
<1> QED
  BY <1>4 DEF n, q, t

\* Two fields below the time leave less than one unit of it.
LEMMA FieldsFit ==
    ASSUME NEW r \in 0 .. (SeqMod - 1)
    PROVE  /\ SeqMod * ShardMod \in Nat \ {0}
           /\ ShardId * SeqMod + r \in 0 .. (SeqMod * ShardMod - 1)
<1> USE IdGenAssumption
<1>1. (ShardMod - 1 - ShardId) * SeqMod >= 0 /\ ShardId * SeqMod >= 0
  BY SMT
<1>2. (ShardMod - 1 - ShardId) * SeqMod = SeqMod * ShardMod - SeqMod - ShardId * SeqMod
  BY SMT
<1>3. SeqMod * ShardMod \in Int /\ ShardId * SeqMod \in Int
  BY SMT
<1> QED
  BY <1>1, <1>2, <1>3, SMT

\* id_split inverts the packing up to the second, for every width of the fields.
LEMMA SplitOfPack ==
    ASSUME NEW m \in Int, NEW r \in 0 .. (SeqMod - 1)
    PROVE  /\ SplitSecond(Pack(m, r)) = m \div Second
           /\ SplitShard(Pack(m, r)) = ShardId
           /\ SplitSeq(Pack(m, r)) = r
<1> USE IdGenAssumption
<1> DEFINE h == (m - Epoch) * ShardMod + ShardId
           low == ShardId * SeqMod + r
<1>1. h \in Int /\ m - Epoch \in Int
  BY SMT
<1>2. Pack(m, r) \div SeqMod = h /\ Pack(m, r) % SeqMod = r
  <2> HIDE DEF h
  <2>1. (h * SeqMod + r) \div SeqMod = h /\ (h * SeqMod + r) % SeqMod = r
    BY <1>1, Divided
  <2> QED
    BY <2>1 DEF Pack, h
<1>3. h % ShardMod = ShardId
  BY <1>1, Divided
<1>4. Pack(m, r) = (m - Epoch) * (SeqMod * ShardMod) + low
  BY SMT DEF Pack
<1>5. low \in 0 .. (SeqMod * ShardMod - 1) /\ SeqMod * ShardMod \in Nat \ {0}
  BY FieldsFit
<1>6. Pack(m, r) \div (SeqMod * ShardMod) = m - Epoch
  <2> DEFINE unit == SeqMod * ShardMod
             t == m - Epoch
  <2>1. unit \in Nat \ {0} /\ low \in 0 .. (unit - 1) /\ t \in Int
    BY <1>1, <1>5
  <2>2. Pack(m, r) = t * unit + low
    BY <1>4
  <2> HIDE DEF low, unit, t
  <2>3. (t * unit + low) \div unit = t
    BY <2>1, Divided
  <2> QED
    BY <2>2, <2>3 DEF unit, t
<1>7. SplitSeq(Pack(m, r)) = r /\ SplitShard(Pack(m, r)) = ShardId
  BY <1>2, <1>3 DEF SplitSeq, SplitShard
<1>8. Millis(Pack(m, r)) = (m - Epoch) + Epoch
  BY <1>6 DEF Millis
<1>9. (m - Epoch) + Epoch = m
  BY SMT
<1> QED
  BY <1>7, <1>8, <1>9 DEF SplitSecond

\* The second, the shard and the number of every id returned can be read back from it.
THEOREM IdsCanBeSplit == Spec => []SplitInverts
<1>1. IInv => SplitInverts
  <2> SUFFICES ASSUME IInv, NEW m \in minted
               PROVE  /\ SplitSecond(m.id) = m.millis \div Second
                      /\ SplitShard(m.id) = ShardId
                      /\ SplitSeq(m.id) = SeqOf(m.draw)
    BY DEF SplitInverts
  <2>1. m.millis \in Int /\ m.draw \in Nat
    BY SMT DEF IInv, TypeOK
  <2>2. m.id = Pack(m.millis, SeqOf(m.draw))
    BY DEF IInv, MintedPacked
  <2> QED
    BY <2>1, <2>2, ResidueType, SplitOfPack
<1> QED
  BY <1>1, Invariance, PTL
=============================================================================
