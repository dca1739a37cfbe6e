---------------------------- MODULE GuiExtProofs ----------------------------
(***************************************************************************)
(* Proofs about GuiExt, for every number of producers, consumers, pools,   *)
(* buffers, allocations and deaths.                                        *)
(*                                                                         *)
(* A consumer claims a buffer of a pool while it is about to request it,   *)
(* while a caller holds it, and while a disconnect is about to release it. *)
(* The argument: a pool that a living consumer uses is connected, so it    *)
(* does not go away (UsersConnected); a claimed buffer is out, and its     *)
(* slot names the claimant unless an observer is about to clear that slot  *)
(* (ClaimsAreOut), so that nobody else is granted it (OneClaimant).  What  *)
(* the call that holds the lock has done so far, nobody undoes (LockSound).*)
(***************************************************************************)
EXTENDS GuiExt, FiniteSetTheorems, TLAPS

-----------------------------------------------------------------------------
(* The invariants, of the states no mishap led to. *)

Requests(c, id, b) == pc[c].at = "request" /\ pc[c].id = id /\ pc[c].buf = b
Gives(c, id, b)    == pc[c].at = "disconnect" /\ pc[c].id = id /\ b \in pc[c].todo
HoldsOf(c, id, b)  == pool[id].gen # 0 /\ held[c][pool[id].gen][b] > 0

Claims(c, id, b) == Requests(c, id, b) \/ Gives(c, id, b) \/ HoldsOf(c, id, b)

(* What connects a consumer to the pool of an id. *)
Uses(c, id) ==
    \/ \E b \in Bufs : shadow[c][id][b].gen # 0
    \/ pc[c].at = "request" /\ pc[c].id = id
    \/ pc[c].at = "disconnect" /\ pc[c].id = id /\ pc[c].todo # {}

(* An observer has taken the buffer back and is about to clear its slot.     *)
BeingCleared(id, b) ==
    reap.at \in {"clear", "again"} /\ reap.id = id /\ reap.buf = b /\ reap.gen = pool[id].gen

GensDiffer == \A i, j \in Ids : pool[i].gen = pool[j].gen /\ pool[i].gen # 0 => i = j

GensKnown == \A id \in Ids : pool[id].gen <= allocs

(* The dead have nothing, and observers speak of the dead. *)
DeadAreGone ==
    \A c \in Consumers \cap dead :
        /\ pc[c] = Idle
        /\ \A id \in Ids, b \in Bufs : shadow[c][id][b].gen = 0
        /\ \A g \in Gens, b \in Bufs : held[c][g][b] = 0

ObserversOfDead ==
    /\ \A o \in obits : o[1] \in dead
    /\ reap.at # "idle" => reap.who \in dead

ShadowsFit ==
    \A c \in Consumers, id \in Ids, b \in Bufs : shadow[c][id][b].gen \in {0, pool[id].gen}

(* A buffer that is held is held once, and has a shadow; a shadow that says  *)
(* so is of a buffer that is held.                                           *)
HeldHasShadow ==
    \A c \in Consumers, g \in Gens, b \in Bufs :
        held[c][g][b] > 0 =>
            /\ held[c][g][b] = 1
            /\ \E id \in Ids : pool[id].gen = g /\ shadow[c][id][b].gen = g

AcquiredIsHeld ==
    \A c \in Consumers, id \in Ids, b \in Bufs :
        shadow[c][id][b].isAcquired => HoldsOf(c, id, b)

UsersConnected ==
    \A c \in Consumers, id \in Ids :
        Uses(c, id) => pool[id].gen # 0 /\ pool[id].connected

(* What is about to be requested or released is not held at the same time.   *)
CallsAreAlone ==
    \A c \in Consumers, id \in Ids, b \in Bufs :
        Requests(c, id, b) \/ Gives(c, id, b) => ~HoldsOf(c, id, b)

ClaimsAreOut ==
    \A c \in Consumers, id \in Ids, b \in Bufs :
        Claims(c, id, b) =>
            b \in pool[id].dequeued /\ (pool[id].token[b] = c \/ BeingCleared(id, b))

OneClaimant ==
    \A c, d \in Consumers, id \in Ids, b \in Bufs :
        Claims(c, id, b) /\ Claims(d, id, b) => c = d

SlotsMatch ==
    \A id \in Ids, b \in Bufs :
        pool[id].gen # 0 =>
            \/ b \in pool[id].dequeued <=> pool[id].token[b] # Nobody
            \/ BeingCleared(id, b) \/ Slotless(id, b)

Sound ==
    /\ GensDiffer /\ GensKnown /\ DeadAreGone /\ ObserversOfDead
    /\ ShadowsFit /\ HeldHasShadow /\ AcquiredIsHeld /\ UsersConnected
    /\ CallsAreAlone /\ ClaimsAreOut /\ OneClaimant /\ SlotsMatch

(* The pool that is being allocated is new; a buffer that is being acquired  *)
(* is out, nobody's yet, and no observer of its consumer is at work.         *)
AllocSafe ==
    mLock.at = "alloc" => /\ allocs \in Gens /\ pool[mLock.id].gen = 0
                          /\ \A i \in Ids : pool[i].gen # allocs

AcquireSafe ==
    \A c \in Consumers, id \in Ids :
        Acquiring(c, id) =>
            /\ pc[c] = Idle /\ pool[id].gen # 0
            /\ mLock.buf \in pool[id].dequeued
            /\ \A d \in Consumers : ~Claims(d, id, mLock.buf)
            /\ \/ pool[id].token[mLock.buf] = IF mLock.at = "slot" THEN Nobody ELSE c
               \/ BeingCleared(id, mLock.buf)
            /\ ~(reap.at # "idle" /\ reap.who = c /\ reap.id = id)

LockSound == AllocSafe /\ AcquireSafe

SoundUntilMishap == mishaps = {} => Sound /\ LockSound

(* A free id has no item, and nothing of an old one. *)
Vacant == \A id \in Ids : pool[id].gen = 0 => pool[id] = NoPool

Typed == TypeOK /\ Vacant

-----------------------------------------------------------------------------
(* Records and functions. *)

LEMMA CallFields ==
    ASSUME NEW r \in Calls
    PROVE  /\ r.at = "request" => r.id \in Ids /\ r.buf \in Bufs
           /\ r.at = "disconnect" => /\ r.id \in Ids /\ r.todo \in SUBSET Bufs
                                     /\ r = [at |-> "disconnect", id |-> r.id, todo |-> r.todo]
  BY DEF Calls, Idle

LEMMA ReapFields ==
    ASSUME NEW r \in Reaps, r # Idle
    PROVE  /\ r.who \in Consumers /\ r.id \in Ids /\ r.gen \in Gens /\ r.at # "idle"
           /\ r.at \in {"clear", "again"} =>
                /\ r.buf \in Bufs
                /\ r = [at |-> r.at, who |-> r.who, id |-> r.id, gen |-> r.gen, buf |-> r.buf]
           /\ r.at = "note" => r.found \in BOOLEAN
  BY DEF Reaps, Idle

LEMMA LockFields ==
    ASSUME NEW r \in Locks
    PROVE  /\ r.at = "alloc" => r.who \in Producers /\ r.id \in Ids
           /\ r.at \in {"slot", "connect"} =>
                /\ r.who \in Consumers /\ r.id \in Ids /\ r.buf \in Bufs
                /\ r = [at |-> r.at, who |-> r.who, id |-> r.id, buf |-> r.buf]
           /\ r.at \in {"idle", "alloc", "slot", "connect"}
           /\ r.at = "idle" => r = Idle
           /\ Idle \in Locks
  BY DEF Locks, Idle

LEMMA WalkFields ==
    ASSUME NEW r \in Walks, r.at # "idle"
    PROVE  /\ r.who \in Producers /\ r.i \in 0..MaxPools
           /\ r.at \in {"look", "remove"} => r.id \in Ids
  BY DEF Walks, Idle

LEMMA MadeReaps ==
    ASSUME NEW c \in Consumers, NEW id \in Ids, NEW g \in Gens
    PROVE  /\ \A place \in {"scan", "remove"} :
                [at |-> place, who |-> c, id |-> id, gen |-> g] \in Reaps
           /\ \A place \in {"clear", "again"}, b \in Bufs :
                [at |-> place, who |-> c, id |-> id, gen |-> g, buf |-> b] \in Reaps
           /\ \A f \in BOOLEAN :
                [at |-> "note", who |-> c, id |-> id, gen |-> g, found |-> f] \in Reaps
           /\ Idle \in Reaps
  BY DEF Reaps, Idle

LEMMA MadeCalls ==
    ASSUME NEW id \in Ids, NEW b \in Bufs, NEW s \in SUBSET Bufs
    PROVE  /\ [at |-> "request", id |-> id, buf |-> b] \in Calls
           /\ [at |-> "disconnect", id |-> id, todo |-> s] \in Calls
           /\ Idle \in Calls
  BY DEF Calls, Idle

LEMMA Nothing ==
    /\ NoPool \in Pool /\ NoPool.gen = 0 /\ ~NoPool.connected
    /\ NoPool.producer = Nobody /\ NoPool.dequeued = {}
    /\ \A b \in Bufs : NoPool.token[b] = Nobody
    /\ NoShadow \in Shade /\ NoShadow.gen = 0 /\ ~NoShadow.isAcquired
  <1>1. 0 \in 0..MaxAllocs
    BY GuiExtAssumption DEF GuiExtAssumption
  <1>2. NoPool \in Pool /\ NoShadow \in Shade
    BY <1>1 DEF NoPool, Pool, NoShadow, Shade
  <1> QED BY <1>2 DEF NoPool, NoShadow

(* What an item becomes. *)
LEMMA ItemFields ==
    ASSUME NEW item \in Pool
    PROVE  /\ item.gen \in 0..MaxAllocs /\ item.connected \in BOOLEAN
           /\ item.producer \in Producers \cup {Nobody}
           /\ item.dequeued \in SUBSET Bufs /\ item.token \in [Bufs -> Consumers \cup {Nobody}]
           /\ \A b \in Bufs : item.token[b] \in Consumers \cup {Nobody}
  BY DEF Pool

LEMMA Linked ==
    ASSUME NEW item \in Pool, NEW v \in BOOLEAN
    PROVE  LET i == [item EXCEPT !.connected = v]
           IN  /\ i \in Pool /\ i.connected = v
               /\ i.gen = item.gen /\ i.dequeued = item.dequeued /\ i.token = item.token
               /\ i.producer = item.producer
  BY DEF Pool

LEMMA Disowned ==
    ASSUME NEW item \in Pool
    PROVE  LET i == [item EXCEPT !.producer = Nobody]
           IN  /\ i \in Pool /\ i.connected = item.connected
               /\ i.gen = item.gen /\ i.dequeued = item.dequeued /\ i.token = item.token
  BY DEF Pool

LEMMA Returned ==
    ASSUME NEW item \in Pool, NEW b \in Bufs
    PROVE  LET i == Freed(item, b)
           IN  /\ i \in Pool /\ i.connected = item.connected /\ i.gen = item.gen
               /\ i.dequeued = item.dequeued \ {b}
               /\ \A d \in Bufs : i.token[d] = IF d = b THEN Nobody ELSE item.token[d]
  <1> DEFINE i == Freed(item, b)
  <1>1. i.gen = item.gen /\ i.connected = item.connected /\ i.dequeued = item.dequeued \ {b}
    BY DEF Freed, Pool
  <1>2. i.token = [item.token EXCEPT ![b] = Nobody]
    BY DEF Freed, Pool
  <1>3. i \in Pool
    BY DEF Freed, Pool
  <1> HIDE DEF i
  <1>4. \A d \in Bufs : i.token[d] = IF d = b THEN Nobody ELSE item.token[d]
    BY <1>2, ItemFields
  <1> QED BY <1>1, <1>3, <1>4 DEF i

LEMMA Dequeued ==
    ASSUME NEW item \in Pool, NEW b \in Bufs
    PROVE  LET i == [item EXCEPT !.dequeued = @ \cup {b}]
           IN  /\ i \in Pool /\ i.connected = item.connected /\ i.gen = item.gen
               /\ i.dequeued = item.dequeued \cup {b} /\ i.token = item.token
  BY DEF Pool

LEMMA Given ==
    ASSUME NEW item \in Pool, NEW b \in Bufs, NEW c \in Consumers
    PROVE  LET i == [item EXCEPT !.token[b] = c]
           IN  /\ i \in Pool /\ i.connected = item.connected /\ i.gen = item.gen
               /\ i.dequeued = item.dequeued
               /\ \A d \in Bufs : i.token[d] = IF d = b THEN c ELSE item.token[d]
  <1> DEFINE t == [item.token EXCEPT ![b] = c]
             k == [gen |-> item.gen, producer |-> item.producer, connected |-> item.connected,
                   dequeued |-> item.dequeued, token |-> t]
  <1>1. /\ t \in [Bufs -> Consumers \cup {Nobody}]
        /\ \A d \in Bufs : t[d] = IF d = b THEN c ELSE item.token[d]
    BY ItemFields
  <1>2. [item EXCEPT !.token[b] = c] = k
    BY DEF Pool
  <1> HIDE DEF t
  <1>3. k \in Pool
    BY <1>1, ItemFields DEF Pool
  <1> QED BY <1>1, <1>2, <1>3

LEMMA TakenBack ==
    ASSUME NEW item \in Pool, NEW b \in Bufs
    PROVE  /\ LET i == [item EXCEPT !.dequeued = @ \ {b}]
              IN  /\ i \in Pool /\ i.connected = item.connected /\ i.gen = item.gen
                  /\ i.dequeued = item.dequeued \ {b} /\ i.token = item.token
           /\ LET i == [item EXCEPT !.token[b] = Nobody]
              IN  /\ i \in Pool /\ i.connected = item.connected /\ i.gen = item.gen
                  /\ i.dequeued = item.dequeued
                  /\ \A d \in Bufs : i.token[d] = IF d = b THEN Nobody ELSE item.token[d]
  <1>1. LET i == [item EXCEPT !.dequeued = @ \ {b}]
        IN  /\ i \in Pool /\ i.connected = item.connected /\ i.gen = item.gen
            /\ i.dequeued = item.dequeued \ {b} /\ i.token = item.token
    BY DEF Pool
  <1> DEFINE t == [item.token EXCEPT ![b] = Nobody]
             k == [gen |-> item.gen, producer |-> item.producer, connected |-> item.connected,
                   dequeued |-> item.dequeued, token |-> t]
  <1>2. /\ t \in [Bufs -> Consumers \cup {Nobody}]
        /\ \A d \in Bufs : t[d] = IF d = b THEN Nobody ELSE item.token[d]
    BY ItemFields
  <1>3. [item EXCEPT !.token[b] = Nobody] = k
    BY DEF Pool
  <1> HIDE DEF t
  <1>4. k \in Pool
    BY <1>2, ItemFields DEF Pool
  <1> QED BY <1>1, <1>2, <1>3, <1>4

LEMMA SettledItem ==
    ASSUME NEW item \in Pool
    PROVE  /\ Settled(item) \in Pool
           /\ (Settled(item) = item \/ (~item.connected /\ Settled(item) = NoPool))
  <1>1. CASE Unused(item)
    BY <1>1, Nothing DEF Settled, Unused
  <1>2. CASE ~Unused(item)
    <2>1. Settled(item) = item
      BY <1>2 DEF Settled
    <2> QED BY <2>1
  <1> QED BY <1>1, <1>2

LEMMA Allocated ==
    ASSUME NEW g \in Gens, NEW p \in Producers
    PROVE  /\ NewPool(g, p) \in Pool /\ NewPool(g, p).gen = g /\ ~NewPool(g, p).connected
           /\ NewPool(g, p).dequeued = {} /\ \A b \in Bufs : NewPool(g, p).token[b] = Nobody
  <1>1. g \in 0..MaxAllocs
    BY GuiExtAssumption DEF GuiExtAssumption, Gens
  <1> QED BY <1>1, Nothing DEF NewPool, Pool

(* One item, shadow or count becomes another. *)
LEMMA PoolBecomes ==
    ASSUME TypeOK, NEW id \in Ids, NEW item \in Pool, pool' = [pool EXCEPT ![id] = item]
    PROVE  /\ pool' \in [Ids -> Pool]
           /\ \A i \in Ids : pool'[i] = IF i = id THEN item ELSE pool[i]
  BY DEF TypeOK

LEMMA ShadowBecomes ==
    ASSUME TypeOK, NEW c \in Consumers, NEW id \in Ids, NEW b \in Bufs, NEW s \in Shade,
           shadow' = [shadow EXCEPT ![c][id][b] = s]
    PROVE  /\ shadow' \in [Consumers -> [Ids -> [Bufs -> Shade]]]
           /\ \A d \in Consumers, i \in Ids, e \in Bufs :
                shadow'[d][i][e] = IF d = c /\ i = id /\ e = b THEN s ELSE shadow[d][i][e]
  BY DEF TypeOK

LEMMA HeldBecomes ==
    ASSUME TypeOK, NEW c \in Consumers, NEW g \in Gens, NEW b \in Bufs, NEW n \in Nat,
           held' = [held EXCEPT ![c][g][b] = n]
    PROVE  /\ held' \in [Consumers -> [Gens -> [Bufs -> Nat]]]
           /\ \A d \in Consumers, h \in Gens, e \in Bufs :
                held'[d][h][e] = IF d = c /\ h = g /\ e = b THEN n ELSE held[d][h][e]
  BY DEF TypeOK

LEMMA PcBecomes ==
    ASSUME TypeOK, NEW c \in Consumers, NEW r \in Calls, pc' = [pc EXCEPT ![c] = r]
    PROVE  /\ pc' \in [Consumers -> Calls]
           /\ \A d \in Consumers : pc'[d] = IF d = c THEN r ELSE pc[d]
  BY DEF TypeOK

LEMMA Types ==
    ASSUME TypeOK
    PROVE  /\ \A id \in Ids : pool[id] \in Pool /\ pool[id].gen \in 0..MaxAllocs
           /\ \A id \in Ids : pool[id].gen # 0 => pool[id].gen \in Gens
           /\ \A c \in Consumers : pc[c] \in Calls
           /\ \A c \in Consumers, id \in Ids, b \in Bufs :
                /\ shadow[c][id][b] \in Shade
                /\ shadow[c][id][b].gen \in 0..MaxAllocs
                /\ shadow[c][id][b].gen # 0 => shadow[c][id][b].gen \in Gens
           /\ \A c \in Consumers, g \in Gens, b \in Bufs : held[c][g][b] \in Nat
           /\ reap \in Reaps /\ walk \in Walks /\ mLock \in Locks
           /\ allocs \in 0..MaxAllocs /\ MaxAllocs \in Nat
  <1>1. MaxAllocs \in Nat
    BY GuiExtAssumption DEF GuiExtAssumption
  <1>2. \A id \in Ids : pool[id] \in Pool /\ pool[id].gen \in 0..MaxAllocs
    BY ItemFields DEF TypeOK
  <1>3. \A c \in Consumers, id \in Ids, b \in Bufs :
           shadow[c][id][b] \in Shade /\ shadow[c][id][b].gen \in 0..MaxAllocs
    BY DEF TypeOK, Shade
  <1>4. \A n \in 0..MaxAllocs : n # 0 => n \in Gens
    BY <1>1 DEF Gens
  <1> QED BY <1>1, <1>2, <1>3, <1>4 DEF TypeOK

-----------------------------------------------------------------------------
(* The types. *)

LEMMA LiveCount ==
    /\ Cardinality(Live) \in 0..MaxPools
    /\ \A id \in Live : Cardinality(Live) - 1 \in 0..MaxPools
  <1>1. MaxPools \in Nat /\ Live \in SUBSET (1..MaxPools)
    BY GuiExtAssumption DEF GuiExtAssumption, Live, Ids
  <1>2. IsFiniteSet(1..MaxPools) /\ Cardinality(1..MaxPools) = MaxPools
    BY <1>1, FS_Interval
  <1>3. IsFiniteSet(Live) /\ Cardinality(Live) <= MaxPools
    BY <1>1, <1>2, FS_Subset
  <1>4. Cardinality(Live) \in Nat
    BY <1>3, FS_CardinalityType
  <1>5. Cardinality(Live) = 0 <=> Live = {}
    BY <1>3, FS_EmptySet
  <1> QED BY <1>1, <1>3, <1>4, <1>5

LEMMA PoolTyped ==
    ASSUME Typed, NEW id \in Ids, NEW item \in Pool, pool' = [pool EXCEPT ![id] = item],
           item.gen # 0 \/ item = NoPool
    PROVE  pool' \in [Ids -> Pool] /\ Vacant'
  BY PoolBecomes DEF Typed, Vacant

LEMMA TypedInit == Init => Typed
  <1> SUFFICES ASSUME Init PROVE Typed
    OBVIOUS
  <1>1. /\ NoPool \in Pool /\ NoShadow \in Shade
    BY Nothing
  <1>2. Idle \in Calls /\ Idle \in Walks /\ Idle \in Reaps /\ Idle \in Locks
    BY DEF Calls, Walks, Reaps, Locks
  <1>3. 0 \in 0..MaxPools /\ 0 \in 0..MaxAllocs
    BY GuiExtAssumption DEF GuiExtAssumption
  <1> QED BY <1>1, <1>2, <1>3 DEF Init, Typed, TypeOK, Vacant

LEMMA ServerReleaseTyped ==
    ASSUME Typed, NEW id \in Ids, NEW b \in Bufs, ServerRelease(id, b)
    PROVE  pool' \in [Ids -> Pool] /\ Vacant'
  <1>1. CASE pool[id].gen = 0
    BY <1>1 DEF ServerRelease, Typed, TypeOK, Vacant
  <1>2. CASE pool[id].gen # 0
    <2>1. pool' = [pool EXCEPT ![id] = Freed(pool[id], b)]
      BY <1>2 DEF ServerRelease
    <2>2. Freed(pool[id], b) \in Pool /\ Freed(pool[id], b).gen # 0
      BY <1>2, Types, Returned DEF Typed
    <2> QED BY <2>1, <2>2, PoolTyped
  <1> QED BY <1>1, <1>2

LEMMA SettledTyped ==
    ASSUME Typed, NEW id \in Ids, NEW item \in Pool, item.gen # 0,
           pool' = [pool EXCEPT ![id] = Settled(item)]
    PROVE  pool' \in [Ids -> Pool] /\ Vacant'
  <1>1. Settled(item) \in Pool /\ (Settled(item).gen # 0 \/ Settled(item) = NoPool)
    BY SettledItem
  <1> QED BY <1>1, PoolTyped

LEMMA ProducersTyped ==
    ASSUME Typed, LockSound, NEW p \in Producers,
           Alloc(p) \/ ProducerDies(p) \/ \E id \in Ids : Free(p, id)
    PROVE  Typed'
  <1> USE DEF Typed
  <1>1. CASE Alloc(p)
    <2>1. PICK id \in PoolId : /\ mPoolId' = id
                               /\ mLock' = [at |-> "alloc", who |-> p, id |-> id]
      BY <1>1 DEF Alloc
    <2>2. id \in Ids /\ id \in 0..MaxPools
      BY GuiExtAssumption DEF PoolId, Ids, GuiExtAssumption
    <2>3. allocs' \in 0..MaxAllocs
      BY <1>1, Types DEF Alloc
    <2>4. mLock' \in Locks
      BY <2>1, <2>2 DEF Locks
    <2> QED BY <1>1, <2>1, <2>2, <2>3, <2>4 DEF Alloc, TypeOK, Vacant, deathVars, clientVars
  <1>2. CASE ProducerDies(p)
    <2>1. \A i \in Ids : pool[i].producer = p => pool[i].gen \in Gens
      BY Types, Nothing, GuiExtAssumption DEF Vacant, GuiExtAssumption
    <2>2. notices' \subseteq Producers \X Gens
      <3>1. OwnGens(p) \subseteq Gens
        BY <2>1 DEF OwnGens, Allocating, LockSound, AllocSafe
      <3> QED BY <1>2, <3>1 DEF ProducerDies, TypeOK
    <2> QED BY <1>2, <2>2 DEF ProducerDies, TypeOK, serverVars, clientVars, Vacant
  <1>3. ASSUME NEW id \in Ids, Free(p, id) PROVE Typed'
    <2> DEFINE item == [pool[id] EXCEPT !.producer = Nobody]
    <2>1. pool' = [pool EXCEPT ![id] = Settled(item)]
      BY <1>3 DEF Free
    <2>2. pool[id].gen # 0
      BY <1>3, Nothing, GuiExtAssumption DEF Free, Vacant, GuiExtAssumption
    <2>3. item \in Pool /\ item.gen # 0
      BY <2>2, Types, Disowned
    <2> HIDE DEF item
    <2>4. pool' \in [Ids -> Pool] /\ Vacant'
      BY <2>1, <2>3, SettledTyped
    <2> QED BY <1>3, <2>4 DEF Free, TypeOK, deathVars, clientVars
  <1> QED BY <1>1, <1>2, <1>3

LEMMA NoShadows ==
    /\ [b \in Bufs |-> NoShadow] \in [Bufs -> Shade]
    /\ [id \in Ids |-> [b \in Bufs |-> NoShadow]] \in [Ids -> [Bufs -> Shade]]
  BY Nothing

LEMMA ConsumersTyped ==
    ASSUME Typed, LockSound, NEW c \in Consumers,
           \/ Request(c) \/ DisconnectReleases(c) \/ DisconnectDone(c) \/ ConsumerDies(c)
           \/ \E id \in Ids :
                 \/ Acquire(c, id) \/ AcquireBackup(c, id) \/ Disconnect(c, id)
                 \/ \E b \in Bufs : Release(c, id, b)
    PROVE  Typed'
  <1> USE DEF Typed, serverVars, deathVars, clientVars
  <1>1. Idle \in Calls /\ pc[c] \in Calls
    BY MadeCalls, Types DEF Calls
  <1>2. CASE Request(c)
    <2>1. pc' \in [Consumers -> Calls]
      BY <1>1, <1>2, PcBecomes DEF Request
    <2>2. CASE pool[pc[c].id].gen = 0
      <3>1. UNCHANGED <<mPoolId, pool, allocs, mLock, dead, notices, walk, obits, reap, shadow, held, mishaps>>
        BY <1>2, <2>2 DEF Request
      <3> QED BY <2>1, <3>1 DEF TypeOK, Vacant
    <2>3. CASE pool[pc[c].id].gen # 0
      <3> DEFINE id == pc[c].id
                 b == pc[c].buf
                 g == pool[id].gen
      <3>1. id \in Ids /\ b \in Bufs /\ g \in Gens
        BY <1>1, <1>2, <2>3, CallFields, Types DEF Request
      <3>2. /\ [gen |-> g, isAcquired |-> TRUE] \in Shade
            /\ held[c][g][b] + 1 \in Nat
        <4>1. [gen |-> g, isAcquired |-> TRUE] \in Shade
          BY <3>1 DEF Shade, Gens
        <4> HIDE DEF id, b, g
        <4>2. held[c][g][b] \in Nat
          BY <3>1, Types
        <4> QED BY <4>1, <4>2
      <3>3. /\ shadow' = [shadow EXCEPT ![c][id][b] = [gen |-> g, isAcquired |-> TRUE]]
            /\ held' = [held EXCEPT ![c][g][b] = held[c][g][b] + 1]
        BY <1>2, <2>3 DEF Request, Take
      <3> HIDE DEF id, b, g
      <3>4. shadow' \in [Consumers -> [Ids -> [Bufs -> Shade]]]
        BY <3>1, <3>2, <3>3, ShadowBecomes
      <3>5. held' \in [Consumers -> [Gens -> [Bufs -> Nat]]]
        BY <3>1, <3>2, <3>3, HeldBecomes
      <3> QED BY <1>2, <2>1, <3>4, <3>5 DEF Request, TypeOK, Vacant
    <2> QED BY <2>2, <2>3
  <1>3. CASE DisconnectReleases(c)
    <2>1. PICK b \in pc[c].todo : /\ ServerRelease(pc[c].id, b)
                                  /\ pc' = [pc EXCEPT ![c].todo = @ \ {b}]
      BY <1>3 DEF DisconnectReleases
    <2>2. /\ pc[c].id \in Ids /\ b \in Bufs
          /\ pc[c] = [at |-> "disconnect", id |-> pc[c].id, todo |-> pc[c].todo]
          /\ pc[c].todo \in SUBSET Bufs
      BY <1>1, <1>3, <2>1, CallFields DEF DisconnectReleases
    <2>3. pc' = [pc EXCEPT ![c] = [at |-> "disconnect", id |-> pc[c].id, todo |-> pc[c].todo \ {b}]]
      <3>1. pc' = [pc EXCEPT ![c] = [pc[c] EXCEPT !.todo = pc[c].todo \ {b}]]
        BY <2>1
      <3>2. [pc[c] EXCEPT !.todo = pc[c].todo \ {b}]
               = [at |-> "disconnect", id |-> pc[c].id, todo |-> pc[c].todo \ {b}]
        BY <2>2
      <3> QED BY <3>1, <3>2
    <2>4. pc' \in [Consumers -> Calls]
      BY <2>2, <2>3, MadeCalls, PcBecomes
    <2>5. pool' \in [Ids -> Pool] /\ Vacant'
      BY <2>1, <2>2, ServerReleaseTyped
    <2> QED BY <1>3, <2>4, <2>5 DEF DisconnectReleases, TypeOK
  <1>4. CASE DisconnectDone(c)
    <2>1. pc' \in [Consumers -> Calls]
      BY <1>1, <1>4, PcBecomes DEF DisconnectDone
    <2> DEFINE id == pc[c].id
               item == [pool[id] EXCEPT !.connected = FALSE]
    <2>2. id \in Ids
      BY <1>1, <1>4, CallFields DEF DisconnectDone
    <2>3. CASE pool[id].gen = 0
      BY <1>4, <2>1, <2>3 DEF DisconnectDone, TypeOK, Vacant
    <2>4. CASE pool[id].gen # 0
      <3>1. item \in Pool /\ item.gen # 0
        BY <2>2, <2>4, Types, Linked
      <3>2. pool' = [pool EXCEPT ![id] = Settled(item)]
        BY <1>4, <2>4 DEF DisconnectDone
      <3>3. mishaps' \subseteq Mishaps
        BY <1>4, <2>4 DEF DisconnectDone, Cut, TypeOK, Mishaps
      <3> HIDE DEF id, item
      <3>4. pool' \in [Ids -> Pool] /\ Vacant'
        BY <2>2, <3>1, <3>2, SettledTyped
      <3> QED BY <1>4, <2>1, <3>3, <3>4 DEF DisconnectDone, TypeOK
    <2> QED BY <2>3, <2>4
  <1>5. CASE ConsumerDies(c)
    <2>1. \A id \in HoldersItems(c) : id \in Ids /\ pool[id].gen \in Gens
      BY Types, Nothing, GuiExtAssumption
         DEF HoldersItems, Vacant, GuiExtAssumption, LockSound, AcquireSafe
    <2>2. obits' \subseteq Consumers \X Gens
      BY <1>5, <2>1 DEF ConsumerDies, TypeOK
    <2>3. shadow' \in [Consumers -> [Ids -> [Bufs -> Shade]]]
      BY <1>5, NoShadows DEF ConsumerDies, TypeOK
    <2>4. held' \in [Consumers -> [Gens -> [Bufs -> Nat]]]
      BY <1>5 DEF ConsumerDies, TypeOK
    <2>5. mishaps' \subseteq Mishaps
      BY <1>5 DEF ConsumerDies, TypeOK, Mishaps
    <2>6. pc' \in [Consumers -> Calls] /\ dead' \subseteq Producers \cup Consumers
      BY <1>1, <1>5, PcBecomes DEF ConsumerDies, TypeOK
    <2> QED BY <1>5, <2>2, <2>3, <2>4, <2>5, <2>6 DEF ConsumerDies, TypeOK, Vacant
  <1>6. ASSUME NEW id \in Ids, Acquire(c, id) PROVE Typed'
    <2>1. PICK b \in Grantable(id) :
              /\ pool' = [pool EXCEPT ![id].dequeued = @ \cup {b}]
              /\ mLock' = [at |-> "slot", who |-> c, id |-> id, buf |-> b]
      BY <1>6 DEF Acquire
    <2>2. b \in Bufs /\ pool[id].gen # 0 /\ pool[id] \in Pool
      BY <2>1, Types DEF Grantable
    <2> DEFINE item == [pool[id] EXCEPT !.dequeued = @ \cup {b}]
    <2>3. item \in Pool /\ item.gen # 0
      BY <2>2, Dequeued
    <2>4. pool' = [pool EXCEPT ![id] = item]
      BY <2>1
    <2> HIDE DEF item
    <2>5. pool' \in [Ids -> Pool] /\ Vacant'
      BY <2>3, <2>4, PoolTyped
    <2>6. mLock' \in Locks
      BY <2>1, <2>2 DEF Locks
    <2> QED BY <1>6, <2>5, <2>6 DEF Acquire, TypeOK
  <1>7. ASSUME NEW id \in Ids, AcquireBackup(c, id) PROVE Typed'
    <2>1. PICK b \in Bufs : /\ shadow[c][id][b].gen # 0
                            /\ shadow' = [shadow EXCEPT ![c][id][b].isAcquired = TRUE]
                            /\ Take(c, shadow[c][id][b].gen, b)
      BY <1>7 DEF AcquireBackup
    <2> DEFINE g == shadow[c][id][b].gen
               s == [shadow[c][id][b] EXCEPT !.isAcquired = TRUE]
    <2>2. g \in Gens /\ held[c][g][b] + 1 \in Nat
      <3>1. g \in Gens
        BY <2>1, Types
      <3> HIDE DEF g
      <3>2. held[c][g][b] \in Nat
        BY <2>1, <3>1, Types
      <3> QED BY <3>1, <3>2
    <2>3. s \in Shade
      BY Types DEF Shade
    <2>4. /\ held' = [held EXCEPT ![c][g][b] = held[c][g][b] + 1]
          /\ shadow' = [shadow EXCEPT ![c][id][b] = s]
      BY <2>1 DEF Take
    <2> HIDE DEF g, s
    <2>5. shadow' \in [Consumers -> [Ids -> [Bufs -> Shade]]]
      BY <2>3, <2>4, ShadowBecomes
    <2>6. held' \in [Consumers -> [Gens -> [Bufs -> Nat]]]
      BY <2>1, <2>2, <2>4, HeldBecomes
    <2>7. mishaps' \subseteq Mishaps
      BY <1>7 DEF AcquireBackup, TypeOK, Mishaps
    <2> QED BY <1>7, <2>5, <2>6, <2>7 DEF AcquireBackup, TypeOK, Vacant
  <1>8. ASSUME NEW id \in Ids, Disconnect(c, id) PROVE Typed'
    <2> DEFINE todo == {b \in Bufs : shadow[c][id][b].isAcquired}
    <2>1. todo \in SUBSET Bufs
      OBVIOUS
    <2>2. pc' \in [Consumers -> Calls]
      <3>1. pc' = [pc EXCEPT ![c] = [at |-> "disconnect", id |-> id, todo |-> todo]]
        BY <1>8 DEF Disconnect
      <3> HIDE DEF todo
      <3>2. [at |-> "disconnect", id |-> id, todo |-> todo] \in Calls
        BY <2>1 DEF Calls
      <3> QED BY <3>1, <3>2, PcBecomes
    <2>3. shadow' \in [Consumers -> [Ids -> [Bufs -> Shade]]]
      BY <1>8, NoShadows DEF Disconnect, TypeOK
    <2> DEFINE h == [g \in Gens |-> [b \in Bufs |->
                        IF shadow[c][id][b].gen = g THEN 0 ELSE held[c][g][b]]]
    <2>4. h \in [Gens -> [Bufs -> Nat]]
      BY Types
    <2>5. held' = [held EXCEPT ![c] = h]
      BY <1>8 DEF Disconnect
    <2> HIDE DEF h
    <2>6. held' \in [Consumers -> [Gens -> [Bufs -> Nat]]]
      BY <2>4, <2>5 DEF TypeOK
    <2> QED BY <1>8, <2>2, <2>3, <2>6 DEF Disconnect, TypeOK, Vacant
  <1>9. ASSUME NEW id \in Ids, NEW b \in Bufs, Release(c, id, b) PROVE Typed'
    <2> DEFINE g == shadow[c][id][b].gen
               s == [shadow[c][id][b] EXCEPT !.isAcquired = FALSE]
    <2>0. g \in Gens /\ held[c][g][b] > 0
      BY <1>9, Types DEF Release
    <2>1. held[c][g][b] - 1 \in Nat
      <3> HIDE DEF g
      <3> QED BY <2>0, Types
    <2>2. s \in Shade
      BY Types DEF Shade
    <2>3. /\ held' = [held EXCEPT ![c][g][b] = held[c][g][b] - 1]
          /\ shadow' = [shadow EXCEPT ![c][id][b] = s]
      BY <1>9 DEF Release
    <2> HIDE DEF g, s
    <2>4. shadow' \in [Consumers -> [Ids -> [Bufs -> Shade]]]
      BY <2>2, <2>3, ShadowBecomes
    <2>5. held' \in [Consumers -> [Gens -> [Bufs -> Nat]]]
      BY <2>0, <2>1, <2>3, HeldBecomes
    <2>6. pool' \in [Ids -> Pool] /\ Vacant'
      BY <1>9, ServerReleaseTyped DEF Release
    <2> QED BY <1>9, <2>4, <2>5, <2>6 DEF Release, TypeOK
  <1> QED BY <1>2, <1>3, <1>4, <1>5, <1>6, <1>7, <1>8, <1>9

LEMMA LockTyped ==
    ASSUME Typed, LockSound, AllocAdds \/ AcquireSlots \/ AcquireConnects
    PROVE  Typed'
  <1> USE DEF Typed, deathVars, clientVars
  <1>1. mLock \in Locks /\ Idle \in Locks
    BY Types DEF Locks
  <1>2. CASE AllocAdds
    <2>1. mLock.who \in Producers /\ mLock.id \in Ids /\ allocs \in Gens
      BY <1>1, <1>2, LockFields DEF AllocAdds, LockSound, AllocSafe
    <2>2. NewPool(allocs, mLock.who) \in Pool /\ NewPool(allocs, mLock.who).gen # 0
      BY <2>1, Allocated, Types DEF Gens
    <2>3. pool' = [pool EXCEPT ![mLock.id] = NewPool(allocs, mLock.who)]
      BY <1>2 DEF AllocAdds
    <2>4. pool' \in [Ids -> Pool] /\ Vacant'
      BY <2>1, <2>2, <2>3, PoolTyped
    <2>5. mishaps' \subseteq Mishaps
      BY <1>2 DEF AllocAdds, TypeOK, Mishaps
    <2> QED BY <1>1, <1>2, <2>4, <2>5 DEF AllocAdds, TypeOK
  <1>3. CASE AcquireSlots
    <2>1. /\ mLock.who \in Consumers /\ mLock.id \in Ids /\ mLock.buf \in Bufs
          /\ mLock = [at |-> "slot", who |-> mLock.who, id |-> mLock.id, buf |-> mLock.buf]
      BY <1>1, <1>3, LockFields DEF AcquireSlots
    <2>2. pool[mLock.id] \in Pool /\ pool[mLock.id].gen # 0
      BY <1>3, <2>1, Types DEF AcquireSlots, LockSound, AcquireSafe, Acquiring
    <2> DEFINE owner == Owner(pool[mLock.id], mLock.who, mLock.buf)
               item == [pool[mLock.id] EXCEPT !.token[mLock.buf] = owner]
    <2>3. owner \in Consumers
      BY <2>1, <2>2, ItemFields DEF Owner
    <2> HIDE DEF owner
    <2>4. item \in Pool /\ item.gen # 0
      BY <2>1, <2>2, <2>3, Given
    <2>5. pool' = [pool EXCEPT ![mLock.id] = item]
      BY <1>3 DEF AcquireSlots, owner
    <2> HIDE DEF item
    <2>6. pool' \in [Ids -> Pool] /\ Vacant'
      BY <2>1, <2>4, <2>5, PoolTyped
    <2>7. mLock' = [at |-> "connect", who |-> mLock.who, id |-> mLock.id, buf |-> mLock.buf]
      BY <1>3, <2>1 DEF AcquireSlots
    <2>8. mLock' \in Locks
      BY <2>1, <2>7 DEF Locks
    <2> QED BY <1>3, <2>6, <2>8 DEF AcquireSlots, TypeOK
  <1>4. CASE AcquireConnects
    <2>1. PICK c \in Consumers, id \in Ids, b \in Bufs : c = mLock.who /\ id = mLock.id /\ b = mLock.buf
      BY <1>1, <1>4, LockFields DEF AcquireConnects
    <2>2. pool[id] \in Pool /\ pool[id].gen # 0
      BY <1>4, <2>1, Types DEF AcquireConnects, LockSound, AcquireSafe, Acquiring
    <2> DEFINE item == [pool[id] EXCEPT !.connected = TRUE]
    <2>3. item \in Pool /\ item.gen # 0
      BY <2>2, Linked
    <2>4. pool' = [pool EXCEPT ![id] = item]
      BY <1>4, <2>1 DEF AcquireConnects
    <2> HIDE DEF item
    <2>5. pool' \in [Ids -> Pool] /\ Vacant'
      BY <2>3, <2>4, PoolTyped
    <2>6. UNCHANGED <<mPoolId, allocs, dead, notices, walk, obits, reap, shadow, mishaps>> /\ mLock' = Idle
      BY <1>4 DEF AcquireConnects
    <2>7. CASE UNCHANGED <<pc, held>>
      BY <1>1, <2>5, <2>6, <2>7 DEF TypeOK
    <2>8. CASE pc' = [pc EXCEPT ![c] = [at |-> "request", id |-> id, buf |-> b]] /\ UNCHANGED held
      <3>1. pc' \in [Consumers -> Calls]
        BY <2>8, MadeCalls, PcBecomes
      <3> QED BY <1>1, <2>5, <2>6, <2>8, <3>1 DEF TypeOK
    <2>9. CASE shadow[c][id][b].gen # 0 /\ Take(c, shadow[c][id][b].gen, b) /\ UNCHANGED pc
      <3> DEFINE g == shadow[c][id][b].gen
      <3>1. g \in Gens /\ held[c][g][b] + 1 \in Nat
        <4>1. g \in Gens
          BY <2>9, Types
        <4> HIDE DEF g
        <4>2. held[c][g][b] \in Nat
          BY <4>1, Types
        <4> QED BY <4>1, <4>2
      <3>2. held' = [held EXCEPT ![c][g][b] = held[c][g][b] + 1]
        BY <2>9 DEF Take
      <3> HIDE DEF g
      <3>3. held' \in [Consumers -> [Gens -> [Bufs -> Nat]]]
        BY <3>1, <3>2, HeldBecomes
      <3> QED BY <1>1, <2>5, <2>6, <2>9, <3>3 DEF TypeOK
    <2> QED BY <1>4, <2>1, <2>7, <2>8, <2>9 DEF AcquireConnects
  <1> QED BY <1>2, <1>3, <1>4

LEMMA WalkedTyped ==
    ASSUME TypeOK, walk.at # "idle"
    PROVE  Walked \in Walks /\ Idle \in Walks
  <1>1. walk.who \in Producers /\ walk.i \in 0..MaxPools /\ MaxPools \in Nat
    BY Types, WalkFields, GuiExtAssumption DEF GuiExtAssumption
  <1>2. walk.i # 0 => walk.i - 1 \in 0..MaxPools
    BY <1>1
  <1> QED BY <1>1, <1>2 DEF Walked, Walks

LEMMA WalkTyped ==
    ASSUME Typed, WalkBegins \/ WalkCompares \/ WalkLooks \/ WalkRemoves
    PROVE  Typed'
  <1> USE DEF Typed, serverVars, clientVars
  <1>1. Idle \in Walks /\ walk \in Walks /\ MaxPools \in Nat
    BY GuiExtAssumption, Types DEF Walks, GuiExtAssumption
  <1>2. CASE WalkBegins
    <2>1. PICK n \in notices :
              /\ notices' = notices \ {n}
              /\ walk' = IF \E id \in Live : pool[id].gen = n[2]
                            THEN [at |-> "walk", who |-> n[1], i |-> Cardinality(Live) - 1]
                            ELSE Idle
              /\ mishaps' \subseteq mishaps \cup {"early"}
      BY <1>2 DEF WalkBegins
    <2>2. n[1] \in Producers
      BY <2>1 DEF TypeOK
    <2>3. walk' \in Walks
      BY <1>1, <2>1, <2>2, LiveCount DEF Walks
    <2>4. mishaps' \subseteq Mishaps
      BY <2>1 DEF TypeOK, Mishaps
    <2> QED BY <1>2, <2>1, <2>3, <2>4 DEF WalkBegins, TypeOK, Vacant
  <1>3. CASE WalkCompares
    <2>1. walk.at = "walk" /\ walk.who \in Producers /\ walk.i \in 0..MaxPools
      BY <1>1, <1>3, WalkFields DEF WalkCompares
    <2>2. UNCHANGED <<mPoolId, allocs, mLock, dead, notices, obits, reap, pc, shadow, held>>
      BY <1>3 DEF WalkCompares
    <2>3. CASE Beyond /\ UNCHANGED pool
      <3>1. mishaps' \subseteq Mishaps
        BY <2>3 DEF Beyond, TypeOK, Mishaps
      <3> QED BY <1>1, <2>2, <2>3, <3>1 DEF Beyond, TypeOK, Vacant
    <2>4. ASSUME NEW id \in ListedAt, pool' = Orphan(id), UNCHANGED mishaps,
                 walk' = [at |-> "look", who |-> walk.who, i |-> walk.i, id |-> id]
          PROVE  Typed'
      <3> DEFINE item == [pool[id] EXCEPT !.producer = Nobody]
      <3>1. id \in Ids /\ pool[id].gen # 0
        BY DEF ListedAt, Live
      <3>2. item \in Pool /\ item.gen # 0
        BY <3>1, Types, Disowned
      <3>3. pool' = [pool EXCEPT ![id] = item]
        BY <2>4 DEF Orphan
      <3> HIDE DEF item
      <3>4. pool' \in [Ids -> Pool] /\ Vacant'
        BY <3>1, <3>2, <3>3, PoolTyped
      <3>5. walk' \in Walks
        BY <2>1, <2>4, <3>1 DEF Walks
      <3> QED BY <2>2, <2>4, <3>4, <3>5 DEF TypeOK
    <2>5. CASE walk' = Walked /\ UNCHANGED pool /\ UNCHANGED mishaps
      BY <2>1, <2>2, <2>5, WalkedTyped DEF TypeOK, Vacant
    <2> QED BY <1>3, <2>3, <2>4, <2>5 DEF WalkCompares
  <1>4. CASE WalkLooks
    <2>1. walk.at = "look" /\ walk.who \in Producers /\ walk.i \in 0..MaxPools
      BY <1>1, <1>4, WalkFields DEF WalkLooks
    <2>2. walk' \in Walks
      <3>1. CASE Beyond
        BY <1>1, <3>1 DEF Beyond
      <3>2. ASSUME NEW id \in ListedAt,
                   walk' = [at |-> "remove", who |-> walk.who, i |-> walk.i, id |-> id]
            PROVE  walk' \in Walks
        <4>1. id \in Ids
          BY DEF ListedAt, Live
        <4> QED BY <2>1, <3>2, <4>1 DEF Walks
      <3> QED BY <1>4, <3>1, <3>2 DEF WalkLooks
    <2>3. mishaps' \subseteq Mishaps
      BY <1>4 DEF WalkLooks, Beyond, TypeOK, Mishaps
    <2> QED BY <1>4, <2>2, <2>3 DEF WalkLooks, TypeOK, Vacant
  <1>5. CASE WalkRemoves
    <2>1. walk.at = "remove" /\ walk.id \in Ids
      BY <1>1, <1>5, WalkFields DEF WalkRemoves
    <2>2. pool' = [pool EXCEPT ![walk.id] = Settled(pool[walk.id])]
      BY <1>5 DEF WalkRemoves
    <2>3. pool' \in [Ids -> Pool] /\ Vacant'
      <3>1. CASE pool[walk.id].gen # 0
        BY <2>1, <2>2, <3>1, Types, SettledTyped
      <3>2. CASE pool[walk.id].gen = 0
        <4>1. Settled(pool[walk.id]) = NoPool
          BY <2>1, <3>2 DEF Vacant, Settled
        <4> QED BY <2>1, <2>2, <4>1, Nothing, PoolTyped
      <3> QED BY <3>1, <3>2
    <2>4. walk' \in Walks
      BY <1>5, <2>1, WalkedTyped DEF WalkRemoves
    <2> QED BY <1>5, <2>3, <2>4 DEF WalkRemoves, TypeOK
  <1> QED BY <1>2, <1>3, <1>4, <1>5

(* What a step of the consumers' observer looks at. *)
LEMMA ReapingFields ==
    ASSUME TypeOK, NEW place \in {"scan", "clear", "again", "note", "remove"}, Reaping(place)
    PROVE  /\ reap.at = place
           /\ reap.who \in Consumers /\ reap.id \in Ids /\ reap.gen \in Gens
           /\ pool[reap.id].gen = reap.gen /\ reap.gen # 0
           /\ reap.at \in {"clear", "again"} =>
                /\ reap.buf \in Bufs
                /\ reap = [at |-> reap.at, who |-> reap.who, id |-> reap.id, gen |-> reap.gen,
                           buf |-> reap.buf]
  <1>1. reap \in Reaps /\ reap # Idle
    BY Types DEF Reaping, Idle
  <1>2. \A g \in Gens : g # 0
    BY Types DEF Gens
  <1> QED BY <1>1, <1>2, ReapFields DEF Reaping

LEMMA ReapTyped ==
    ASSUME Typed, \/ ReapBegins \/ ReapReleases \/ ReapClears \/ ReapDisconnects \/ ReapNotes
                  \/ ReapRemoves \/ ReapLost
    PROVE  Typed'
  <1> USE DEF Typed, serverVars, clientVars
  <1>1. CASE ReapBegins
    <2>1. PICK o \in obits :
              /\ obits' = obits \ {o}
              /\ \/ \E id \in HoldersItems(o[1]) :
                       reap' = [at |-> "scan", who |-> o[1], id |-> id, gen |-> o[2]]
                 \/ UNCHANGED reap
              /\ mishaps' \subseteq mishaps \cup {"early"}
      BY <1>1 DEF ReapBegins
    <2>2. o[1] \in Consumers /\ o[2] \in Gens
      BY <2>1 DEF TypeOK
    <2>3. reap' \in Reaps
      BY <2>1, <2>2, MadeReaps, Types DEF HoldersItems
    <2>4. mishaps' \subseteq Mishaps
      BY <2>1 DEF TypeOK, Mishaps
    <2> QED BY <1>1, <2>1, <2>3, <2>4 DEF ReapBegins, TypeOK, Vacant
  <1>2. CASE ReapReleases
    <2>1. Reaping("scan")
      BY <1>2 DEF ReapReleases
    <2>2. PICK b \in Slots(reap.who, reap.id) :
              /\ pool' = [pool EXCEPT ![reap.id].dequeued = @ \ {b}]
              /\ reap' = [at |-> "clear", who |-> reap.who, id |-> reap.id, gen |-> reap.gen,
                          buf |-> b]
      BY <1>2 DEF ReapReleases
    <2>3. b \in Bufs
      BY <2>2 DEF Slots
    <2>4. reap' \in Reaps
      BY <2>1, <2>2, <2>3, ReapingFields, MadeReaps
    <2> DEFINE item == [pool[reap.id] EXCEPT !.dequeued = @ \ {b}]
    <2>5. pool' = [pool EXCEPT ![reap.id] = item]
      BY <2>2
    <2>6. item \in Pool /\ item.gen # 0
      <3>1. pool[reap.id] \in Pool /\ pool[reap.id].gen # 0
        BY <2>1, ReapingFields, Types
      <3> QED BY <2>3, <3>1, TakenBack
    <2> HIDE DEF item
    <2>7. pool' \in [Ids -> Pool] /\ Vacant'
      BY <2>1, <2>5, <2>6, ReapingFields, PoolTyped
    <2> QED BY <1>2, <2>4, <2>7 DEF ReapReleases, TypeOK
  <1>3. CASE ReapClears
    <2>1. PICK place \in {"clear", "again"} : Reaping(place)
      BY <1>3 DEF ReapClears
    <2>2. reap' \in Reaps
      <3>1. CASE reap' = [reap EXCEPT !.at = "again"]
        <4>1. reap' = [at |-> "again", who |-> reap.who, id |-> reap.id, gen |-> reap.gen,
                       buf |-> reap.buf]
          BY <2>1, <3>1, ReapingFields
        <4> QED BY <2>1, <4>1, ReapingFields, MadeReaps
      <3>2. CASE reap' = Reap("scan")
        BY <2>1, <3>2, ReapingFields, MadeReaps DEF Reap
      <3> QED BY <1>3, <3>1, <3>2 DEF ReapClears
    <2> DEFINE item == [pool[reap.id] EXCEPT !.token[reap.buf] = Nobody]
    <2>3. pool' = [pool EXCEPT ![reap.id] = item]
      BY <1>3 DEF ReapClears
    <2>4. item \in Pool /\ item.gen # 0
      BY <2>1, ReapingFields, Types, TakenBack
    <2> HIDE DEF item
    <2>5. pool' \in [Ids -> Pool] /\ Vacant'
      BY <2>1, <2>3, <2>4, ReapingFields, PoolTyped
    <2>6. mishaps' \subseteq Mishaps
      BY <1>3 DEF ReapClears, TypeOK, Mishaps
    <2> QED BY <1>3, <2>2, <2>5, <2>6 DEF ReapClears, TypeOK
  <1>4. CASE ReapDisconnects
    <2>1. Reaping("scan")
      BY <1>4 DEF ReapDisconnects
    <2>2. reap' \in Reaps
      BY <1>4, <2>1, ReapingFields, MadeReaps DEF ReapDisconnects
    <2> DEFINE item == [pool[reap.id] EXCEPT !.connected = FALSE]
    <2>3. pool' = [pool EXCEPT ![reap.id] = item]
      BY <1>4 DEF ReapDisconnects
    <2>4. item \in Pool /\ item.gen # 0
      BY <2>1, ReapingFields, Types, Linked
    <2> HIDE DEF item
    <2>5. pool' \in [Ids -> Pool] /\ Vacant'
      BY <2>1, <2>3, <2>4, ReapingFields, PoolTyped
    <2>6. mishaps' \subseteq Mishaps
      BY <1>4 DEF ReapDisconnects, Cut, TypeOK, Mishaps
    <2> QED BY <1>4, <2>2, <2>5, <2>6 DEF ReapDisconnects, TypeOK
  <1>5. CASE ReapNotes
    <2>1. Reaping("note")
      BY <1>5 DEF ReapNotes
    <2>2. reap' \in Reaps
      BY <1>5, <2>1, ReapingFields, MadeReaps DEF ReapNotes, Reap
    <2>3. pool' \in [Ids -> Pool] /\ Vacant'
      <3>1. CASE pool' = pool
        BY <3>1 DEF TypeOK, Vacant
      <3>2. CASE pool' = [pool EXCEPT ![reap.id].connected = TRUE]
        <4> DEFINE item == [pool[reap.id] EXCEPT !.connected = TRUE]
        <4>1. pool' = [pool EXCEPT ![reap.id] = item]
          BY <3>2
        <4>2. item \in Pool /\ item.gen # 0
          BY <2>1, ReapingFields, Types, Linked
        <4> HIDE DEF item
        <4> QED BY <2>1, <4>1, <4>2, ReapingFields, PoolTyped
      <3> QED BY <1>5, <3>1, <3>2 DEF ReapNotes
    <2>4. mishaps' \subseteq Mishaps
      BY <1>5 DEF ReapNotes, TypeOK, Mishaps
    <2> QED BY <1>5, <2>2, <2>3, <2>4 DEF ReapNotes, TypeOK
  <1>6. CASE ReapRemoves
    <2>1. Reaping("remove")
      BY <1>6 DEF ReapRemoves
    <2>2. pool' = [pool EXCEPT ![reap.id] = Settled(pool[reap.id])]
      BY <1>6 DEF ReapRemoves
    <2>3. pool' \in [Ids -> Pool] /\ Vacant'
      BY <2>1, <2>2, ReapingFields, Types, SettledTyped
    <2>4. Idle \in Reaps
      BY DEF Reaps
    <2> QED BY <1>6, <2>3, <2>4 DEF ReapRemoves, TypeOK
  <1>7. CASE ReapLost
    <2>1. mishaps' \subseteq Mishaps /\ Idle \in Reaps
      BY <1>7 DEF ReapLost, TypeOK, Mishaps, Reaps
    <2> QED BY <1>7, <2>1 DEF ReapLost, TypeOK, Vacant
  <1> QED BY <1>1, <1>2, <1>3, <1>4, <1>5, <1>6, <1>7

LEMMA TypedKept == Typed /\ SoundUntilMishap /\ [Next]_vars => Typed'
  <1>1. ASSUME Typed, UNCHANGED vars PROVE Typed'
    BY <1>1 DEF vars, serverVars, deathVars, clientVars, Typed, TypeOK, Vacant
  <1>2. ASSUME Typed, SoundUntilMishap, Next PROVE Typed'
    <2>1. LockSound
      BY <1>2 DEF Next, SoundUntilMishap
    <2> QED BY <1>2, <2>1, ProducersTyped, ConsumersTyped, LockTyped, WalkTyped, ReapTyped
            DEF Next, Clients, Calling, Notices
  <1> QED BY <1>1, <1>2

-----------------------------------------------------------------------------
(* What the invariants say of one pool. *)

LEMMA IdleCall == Idle.at = "idle"
  BY DEF Idle

(* Of a lock that is free, or stays with the same call. *)
LEMMA Unlocked ==
    ASSUME mLock = Idle
    PROVE  /\ mLock.at # "alloc" /\ \A c \in Consumers, id \in Ids : ~Acquiring(c, id)
           /\ \A id \in Ids, b \in Bufs : ~Slotless(id, b)
  BY IdleCall DEF Acquiring, Slotless

LEMMA LockStays ==
    ASSUME mLock' = mLock \/ mLock = Idle, NEW id \in Ids, NEW b \in Bufs, Slotless(id, b)
    PROVE  Slotless(id, b)'
  BY IdleCall DEF Slotless

(* Who does not use a pool has no claim on its buffers. *)
LEMMA NoUseNoClaim ==
    ASSUME Typed, Sound, NEW c \in Consumers, NEW id \in Ids, ~Uses(c, id)
    PROVE  \A b \in Bufs : ~Claims(c, id, b)
  <1> SUFFICES ASSUME NEW b \in Bufs, Claims(c, id, b) PROVE FALSE
    OBVIOUS
  <1>1. CASE Requests(c, id, b) \/ Gives(c, id, b)
    BY <1>1 DEF Requests, Gives, Uses
  <1>2. CASE HoldsOf(c, id, b)
    <2>1. pool[id].gen \in Gens /\ pool[id].gen # 0
      BY <1>2, Types DEF HoldsOf, Typed
    <2>2. PICK i \in Ids : pool[i].gen = pool[id].gen /\ shadow[c][i][b].gen = pool[id].gen
      BY <1>2, <2>1 DEF HoldsOf, Sound, HeldHasShadow
    <2>3. i = id
      BY <2>1, <2>2 DEF Sound, GensDiffer
    <2> QED BY <2>1, <2>2, <2>3 DEF Uses
  <1> QED BY <1>1, <1>2 DEF Claims

LEMMA Unconnected ==
    ASSUME Sound, NEW id \in Ids, pool[id].gen = 0 \/ ~pool[id].connected
    PROVE  \A c \in Consumers : ~Uses(c, id)
  BY DEF Sound, UsersConnected

LEMMA DeadUseNothing ==
    ASSUME Sound, NEW c \in Consumers, c \in dead
    PROVE  \A id \in Ids : ~Uses(c, id)
  BY IdleCall DEF Sound, DeadAreGone, Uses

(* Cut() counts what Uses() means. *)
LEMMA NotInUse ==
    ASSUME Typed, Sound, NEW id \in Ids, pool[id].gen # 0, ~InUse(pool[id].gen)
    PROVE  \A c \in Consumers : ~Uses(c, id)
  <1> SUFFICES ASSUME NEW c \in Consumers, Uses(c, id) PROVE FALSE
    OBVIOUS
  <1>1. Alive(c)
    BY DeadUseNothing DEF Alive
  <1>2. ASSUME NEW b \in Bufs, shadow[c][id][b].gen # 0
        PROVE  shadow[c][id][b].gen = pool[id].gen
    BY <1>2 DEF Sound, ShadowsFit
  <1>3. Connected(c, pool[id].gen)
    BY <1>2 DEF Uses, Connected
  <1> QED BY <1>1, <1>3 DEF InUse

(* A claim is on a pool there is. *)
LEMMA ClaimsLive ==
    ASSUME Typed, Sound, NEW c \in Consumers, NEW id \in Ids, NEW b \in Bufs, Claims(c, id, b)
    PROVE  Uses(c, id) /\ pool[id].gen # 0 /\ pool[id].gen \in Gens /\ pool[id].connected
  <1>1. Uses(c, id)
    BY NoUseNoClaim
  <1>2. pool[id].gen # 0 /\ pool[id].connected
    BY <1>1 DEF Sound, UsersConnected
  <1> QED BY <1>1, <1>2, Types DEF Typed

(* A buffer the service takes for free is nobody's. *)
LEMMA FreeIsUnclaimed ==
    ASSUME Sound, NEW id \in Ids, NEW b \in Bufs, b \notin pool[id].dequeued
    PROVE  \A c \in Consumers : ~Claims(c, id, b)
  BY DEF Sound, ClaimsAreOut

(* So is a buffer that has been dequeued and has no slot yet. *)
LEMMA SlotlessUnclaimed ==
    ASSUME Typed, LockSound, NEW id \in Ids, NEW b \in Bufs, Slotless(id, b)
    PROVE  \A c \in Consumers : ~Claims(c, id, b)
  <1>1. PICK w \in Consumers : w = mLock.who
    BY Types, LockFields DEF Typed, Slotless
  <1>2. Acquiring(w, id)
    BY <1>1 DEF Acquiring, Slotless
  <1> QED BY <1>2 DEF LockSound, AcquireSafe, Slotless

LEMMA SoundInit == Init => Sound /\ LockSound
  <1> SUFFICES ASSUME Init PROVE Sound /\ LockSound
    OBVIOUS
  <1>1. \A id \in Ids : pool[id] = NoPool
    BY DEF Init
  <1>2. \A c \in Consumers : pc[c].at = "idle" /\ pc[c] = Idle
    BY IdleCall DEF Init
  <1>3. \A c \in Consumers, id \in Ids, b \in Bufs : shadow[c][id][b] = NoShadow
    BY DEF Init
  <1>4. \A c \in Consumers, g \in Gens, b \in Bufs : held[c][g][b] = 0
    BY DEF Init
  <1>5. /\ \A c \in Consumers, id \in Ids : ~Uses(c, id)
        /\ \A c \in Consumers, id \in Ids, b \in Bufs : ~Claims(c, id, b)
    BY <1>1, <1>2, <1>3, Nothing DEF Claims, Requests, Gives, HoldsOf, Uses
  <1>6. GensDiffer /\ GensKnown /\ ObserversOfDead
    BY <1>1, Nothing, IdleCall DEF Init, GensDiffer, GensKnown, ObserversOfDead
  <1>7. DeadAreGone
    BY <1>2, <1>3, <1>4, Nothing DEF DeadAreGone
  <1>8. ShadowsFit /\ AcquiredIsHeld /\ HeldHasShadow
    BY <1>1, <1>3, <1>4, Nothing DEF ShadowsFit, AcquiredIsHeld, HeldHasShadow
  <1>9. UsersConnected
    BY <1>5 DEF UsersConnected
  <1>10. CallsAreAlone
    BY <1>5 DEF CallsAreAlone, Claims
  <1>11. ClaimsAreOut
    BY <1>5 DEF ClaimsAreOut
  <1>12. OneClaimant
    BY <1>5 DEF OneClaimant
  <1>13. SlotsMatch
    BY <1>1, Nothing DEF SlotsMatch
  <1>14. LockSound
    BY IdleCall, Unlocked DEF Init, LockSound, AllocSafe, AcquireSafe
  <1> QED BY <1>6, <1>7, <1>8, <1>9, <1>13, <1>10, <1>11, <1>12, <1>14 DEF Sound

-----------------------------------------------------------------------------
(* A pool is connected, disconnected, removed or passes out of a producer's  *)
(* hands; a call may end with that.                                          *)

LEMMA Settling ==
    ASSUME Typed, Typed', Sound,
           NEW id \in Ids, NEW item \in Pool,
           \A i \in Ids : pool'[i] = IF i = id THEN item ELSE pool[i],
           \/ item = NoPool
           \/ /\ item.gen = pool[id].gen /\ item.dequeued = pool[id].dequeued
              /\ item.token = pool[id].token,
           \/ \A c \in Consumers : ~Uses(c, id)
           \/ item.gen = pool[id].gen /\ item.connected,
           \A c \in Consumers : pc'[c] = pc[c] \/ pc'[c] = Idle,
           UNCHANGED <<shadow, held, dead, allocs, mLock>>,
           \A o \in obits' : o \in obits,
           reap'.at = "idle" \/ (reap.at # "idle" /\ reap'.who = reap.who),
           \/ reap' = reap
           \/ reap.at \notin {"clear", "again"} /\ reap'.at \notin {"clear", "again"}
    PROVE  Sound'
  <1>1. \A i \in Ids : pool'[i].gen \in {0, pool[i].gen}
    BY Nothing
  <1>2. \A c \in Consumers : (pc'[c].at # "idle" => pc'[c] = pc[c]) /\ (pc[c] = Idle => pc'[c] = Idle)
    BY IdleCall
  <1>3. ASSUME NEW c \in Consumers, NEW i \in Ids, NEW b \in Bufs
        PROVE  /\ Requests(c, i, b)' => Requests(c, i, b)
               /\ Gives(c, i, b)' => Gives(c, i, b)
               /\ HoldsOf(c, i, b)' => HoldsOf(c, i, b) /\ pool'[i].gen = pool[i].gen
               /\ Claims(c, i, b)' => Claims(c, i, b)
    <2>1. Requests(c, i, b)' => Requests(c, i, b)
      BY <1>2 DEF Requests
    <2>2. Gives(c, i, b)' => Gives(c, i, b)
      BY <1>2 DEF Gives
    <2>3. HoldsOf(c, i, b)' => HoldsOf(c, i, b) /\ pool'[i].gen = pool[i].gen
      BY <1>1 DEF HoldsOf
    <2> QED BY <2>1, <2>2, <2>3 DEF Claims
  <1>4. ASSUME NEW c \in Consumers, NEW i \in Ids
        PROVE  Uses(c, i)' => Uses(c, i)
    BY <1>2 DEF Uses
  <1>5. ASSUME NEW c \in Consumers, NEW i \in Ids, Uses(c, i)
        PROVE  /\ pool'[i].gen = pool[i].gen /\ pool'[i].gen # 0 /\ pool'[i].connected
               /\ pool'[i].dequeued = pool[i].dequeued /\ pool'[i].token = pool[i].token
    <2>1. pool[i].gen # 0 /\ pool[i].connected
      BY <1>5 DEF Sound, UsersConnected
    <2>2. CASE i # id
      BY <2>1, <2>2
    <2>3. CASE i = id
      <3>1. item.gen = pool[id].gen /\ item.connected
        BY <1>5, <2>3
      <3>2. item # NoPool
        BY <2>1, <2>3, <3>1, Nothing
      <3> QED BY <2>1, <2>3, <3>1, <3>2
    <2> QED BY <2>2, <2>3
  <1>6. ASSUME NEW c \in Consumers, NEW i \in Ids, NEW b \in Bufs, shadow[c][i][b].gen # 0
        PROVE  shadow[c][i][b].gen = pool[i].gen /\ pool'[i].gen = pool[i].gen
    <2>1. Uses(c, i)
      BY <1>6 DEF Uses
    <2> QED BY <1>5, <1>6, <2>1 DEF Sound, ShadowsFit
  <1>7. \A i \in Ids, b \in Bufs :
           BeingCleared(i, b) => BeingCleared(i, b)' \/ pool'[i].gen # pool[i].gen
    BY DEF BeingCleared
  <1>8. GensDiffer'
    BY <1>1 DEF Sound, GensDiffer
  <1>9. GensKnown'
    BY <1>1, Types DEF Sound, GensKnown, Typed
  <1>10. DeadAreGone'
    BY <1>2 DEF Sound, DeadAreGone
  <1>11. ObserversOfDead'
    BY DEF Sound, ObserversOfDead
  <1>12. ShadowsFit'
    BY <1>6 DEF ShadowsFit
  <1>13. HeldHasShadow'
    <2> SUFFICES ASSUME NEW c \in Consumers, NEW g \in Gens, NEW b \in Bufs, held[c][g][b] > 0
                 PROVE  /\ held[c][g][b] = 1
                        /\ \E i \in Ids : pool'[i].gen = g /\ shadow[c][i][b].gen = g
      BY DEF HeldHasShadow
    <2>1. held[c][g][b] = 1
      BY DEF Sound, HeldHasShadow
    <2>2. PICK i \in Ids : pool[i].gen = g /\ shadow[c][i][b].gen = g
      BY DEF Sound, HeldHasShadow
    <2>3. g # 0
      BY Types DEF Gens, Typed
    <2> QED BY <1>6, <2>1, <2>2, <2>3
  <1>14. AcquiredIsHeld'
    <2> SUFFICES ASSUME NEW c \in Consumers, NEW i \in Ids, NEW b \in Bufs,
                        shadow[c][i][b].isAcquired
                 PROVE  HoldsOf(c, i, b)'
      BY DEF AcquiredIsHeld
    <2>1. HoldsOf(c, i, b)
      BY DEF Sound, AcquiredIsHeld
    <2>2. pool'[i].gen = pool[i].gen
      BY <1>5, <2>1, NoUseNoClaim DEF Claims
    <2> QED BY <2>1, <2>2 DEF HoldsOf
  <1>15. UsersConnected'
    BY <1>4, <1>5 DEF UsersConnected
  <1>16. CallsAreAlone'
    BY <1>3 DEF Sound, CallsAreAlone
  <1>17. ClaimsAreOut'
    <2> SUFFICES ASSUME NEW c \in Consumers, NEW i \in Ids, NEW b \in Bufs, Claims(c, i, b)'
                 PROVE  /\ b \in pool'[i].dequeued
                        /\ pool'[i].token[b] = c \/ BeingCleared(i, b)'
      BY DEF ClaimsAreOut
    <2>1. Claims(c, i, b) /\ Uses(c, i)
      BY <1>3, NoUseNoClaim
    <2>2. b \in pool[i].dequeued /\ (pool[i].token[b] = c \/ BeingCleared(i, b))
      BY <2>1 DEF Sound, ClaimsAreOut
    <2> QED BY <1>5, <1>7, <2>1, <2>2
  <1>18. OneClaimant'
    BY <1>3 DEF Sound, OneClaimant
  <1>19. SlotsMatch'
    <2> SUFFICES ASSUME NEW i \in Ids, NEW b \in Bufs, pool'[i].gen # 0
                 PROVE  \/ b \in pool'[i].dequeued <=> pool'[i].token[b] # Nobody
                        \/ BeingCleared(i, b)' \/ Slotless(i, b)'
      BY DEF SlotsMatch
    <2>1. /\ pool'[i].gen = pool[i].gen
          /\ pool'[i].dequeued = pool[i].dequeued /\ pool'[i].token = pool[i].token
      BY Nothing
    <2>2. \/ b \in pool[i].dequeued <=> pool[i].token[b] # Nobody
          \/ BeingCleared(i, b) \/ Slotless(i, b)
      BY <2>1 DEF Sound, SlotsMatch
    <2> QED BY <1>7, <2>1, <2>2, LockStays
  <1> QED BY <1>8, <1>9, <1>10, <1>11, <1>12, <1>13, <1>14, <1>15, <1>16, <1>17, <1>18, <1>19 DEF Sound

LEMMA FreeSound ==
    ASSUME Typed, Typed', Sound, NEW p \in Producers, NEW id \in Ids, Free(p, id)
    PROVE  Sound'
  <1> DEFINE item == [pool[id] EXCEPT !.producer = Nobody]
  <1>1. item \in Pool /\ item.gen = pool[id].gen /\ item.connected = pool[id].connected
        /\ item.dequeued = pool[id].dequeued /\ item.token = pool[id].token
    BY Types, Disowned DEF Typed
  <1>2. pool' = [pool EXCEPT ![id] = Settled(item)]
    BY DEF Free
  <1> HIDE DEF item
  <1>3. Settled(item) \in Pool /\ (Settled(item) = item \/ (~item.connected /\ Settled(item) = NoPool))
    BY <1>1, SettledItem
  <1>4. \A i \in Ids : pool'[i] = IF i = id THEN Settled(item) ELSE pool[i]
    BY <1>2, <1>3, PoolBecomes DEF Typed
  <1>5. \/ \A c \in Consumers : ~Uses(c, id)
        \/ Settled(item).gen = pool[id].gen /\ Settled(item).connected
    <2>1. CASE pool[id].connected
      BY <1>1, <1>3, <2>1
    <2>2. CASE ~pool[id].connected
      BY <2>2, Unconnected
    <2> QED BY <2>1, <2>2
  <1>6. UNCHANGED <<shadow, held, dead, allocs, mLock, pc, obits, reap>>
    BY DEF Free, clientVars, deathVars
  <1> QED BY <1>1, <1>3, <1>4, <1>5, <1>6, Settling

LEMMA WalkComparesSound ==
    ASSUME Typed, Typed', Sound, WalkCompares, mishaps' = {}
    PROVE  Sound'
  <1>1. PICK id \in Live : pool' = pool \/ pool' = Orphan(id)
    BY DEF WalkCompares, Beyond, ListedAt
  <1> DEFINE new == [pool[id] EXCEPT !.producer = Nobody]
  <1>2. id \in Ids /\ pool[id] \in Pool
    BY Types DEF Live, Typed
  <1>3. new \in Pool /\ new.gen = pool[id].gen /\ new.connected = pool[id].connected
        /\ new.dequeued = pool[id].dequeued /\ new.token = pool[id].token
    BY <1>2, Disowned
  <1>4. PICK item \in Pool :
            /\ pool' = [pool EXCEPT ![id] = item]
            /\ item.gen = pool[id].gen /\ item.connected = pool[id].connected
            /\ item.dequeued = pool[id].dequeued /\ item.token = pool[id].token
    <2>1. CASE pool' = Orphan(id)
      BY <1>3, <2>1 DEF Orphan
    <2>2. CASE pool' = pool
      <3>1. pool' = [pool EXCEPT ![id] = pool[id]]
        BY <1>2, <2>2 DEF Typed, TypeOK
      <3> QED BY <1>2, <3>1
    <2> QED BY <1>1, <2>1, <2>2
  <1> HIDE DEF new
  <1>5. \A i \in Ids : pool'[i] = IF i = id THEN item ELSE pool[i]
    BY <1>2, <1>4, PoolBecomes DEF Typed
  <1>6. \/ \A c \in Consumers : ~Uses(c, id)
        \/ item.gen = pool[id].gen /\ item.connected
    BY <1>2, <1>4, Unconnected
  <1>7. UNCHANGED <<shadow, held, dead, allocs, mLock, pc, obits, reap>>
    BY DEF WalkCompares, clientVars
  <1> QED BY <1>2, <1>4, <1>5, <1>6, <1>7, Settling

LEMMA WalkRemovesSound ==
    ASSUME Typed, Typed', Sound, WalkRemoves
    PROVE  Sound'
  <1>1. PICK id \in Ids : id = walk.id /\ pool[id] \in Pool
    BY Types, WalkFields DEF WalkRemoves, Typed
  <1> DEFINE item == Settled(pool[id])
  <1>2. item \in Pool /\ (item = pool[id] \/ (~pool[id].connected /\ item = NoPool))
    BY <1>1, SettledItem
  <1>3. pool' = [pool EXCEPT ![id] = item]
    BY <1>1 DEF WalkRemoves
  <1> HIDE DEF item
  <1>4. \A i \in Ids : pool'[i] = IF i = id THEN item ELSE pool[i]
    BY <1>2, <1>3, PoolBecomes DEF Typed
  <1>5. (\A c \in Consumers : ~Uses(c, id)) \/ (item.gen = pool[id].gen /\ item.connected)
    BY <1>2, Unconnected
  <1>6. UNCHANGED <<shadow, held, dead, allocs, mLock, pc, obits, reap>>
    BY DEF WalkRemoves, clientVars
  <1> QED BY <1>2, <1>4, <1>5, <1>6, Settling

LEMMA DisconnectDoneSound ==
    ASSUME Typed, Typed', Sound, NEW c \in Consumers, DisconnectDone(c), mishaps' = {}
    PROVE  Sound'
  <1> DEFINE id == pc[c].id
             new == [pool[id] EXCEPT !.connected = FALSE]
  <1>1. id \in Ids /\ pool[id] \in Pool
    BY CallFields, Types DEF DisconnectDone, Typed
  <1>2. /\ pc' = [pc EXCEPT ![c] = Idle]
        /\ UNCHANGED <<shadow, held, dead, allocs, mLock, obits, reap>>
    BY DEF DisconnectDone, deathVars
  <1>3. \A d \in Consumers : pc'[d] = pc[d] \/ pc'[d] = Idle
    BY <1>2, MadeCalls, PcBecomes DEF Typed, TypeOK
  <1>4. CASE pool[id].gen = 0
    <2>1. pool' = pool /\ pool[id] = NoPool
      BY <1>1, <1>4 DEF DisconnectDone, Typed, Vacant
    <2>2. \A d \in Consumers : ~Uses(d, id)
      BY <1>1, <1>4, Unconnected
    <2>3. \A i \in Ids : pool'[i] = IF i = id THEN NoPool ELSE pool[i]
      BY <2>1
    <2> HIDE DEF id
    <2> QED BY <1>1, <1>2, <1>3, <2>1, <2>2, <2>3, Settling
  <1>5. CASE pool[id].gen # 0
    <2>1. pool' = [pool EXCEPT ![id] = Settled(new)] /\ ~InUse(pool[id].gen)
      BY <1>5 DEF DisconnectDone, Cut
    <2>2. \A d \in Consumers : ~Uses(d, id)
      BY <1>1, <1>5, <2>1, NotInUse
    <2>3. new \in Pool /\ new.gen = pool[id].gen
          /\ new.dequeued = pool[id].dequeued /\ new.token = pool[id].token
      BY <1>1, Linked
    <2> HIDE DEF new, id
    <2>4. Settled(new) \in Pool /\ (Settled(new) = new \/ Settled(new) = NoPool)
      BY <2>3, SettledItem
    <2>5. \A i \in Ids : pool'[i] = IF i = id THEN Settled(new) ELSE pool[i]
      BY <1>1, <2>1, <2>4, PoolBecomes DEF Typed
    <2> QED BY <1>1, <1>2, <1>3, <2>2, <2>3, <2>4, <2>5, Settling
  <1> QED BY <1>4, <1>5

LEMMA ReapSettles ==
    ASSUME Typed, Typed', Sound, ReapDisconnects \/ ReapNotes \/ ReapRemoves, mishaps' = {}
    PROVE  Sound'
  <1> DEFINE id == reap.id
  <1>1. /\ id \in Ids /\ pool[id] \in Pool /\ pool[id].gen # 0
        /\ reap.at \in {"scan", "note", "remove"}
    BY ReapingFields, Types DEF ReapDisconnects, ReapNotes, ReapRemoves, Typed
  <1>2. /\ UNCHANGED <<shadow, held, dead, allocs, mLock, pc, obits>>
        /\ reap'.at \in {"idle", "note", "remove"}
        /\ reap'.at # "idle" => reap'.who = reap.who
    BY IdleCall DEF ReapDisconnects, ReapNotes, ReapRemoves, clientVars, Reap
  <1>3. CASE ReapDisconnects
    <2> DEFINE item == [pool[id] EXCEPT !.connected = FALSE]
    <2>1. pool' = [pool EXCEPT ![id] = item] /\ ~InUse(pool[id].gen)
      BY <1>3 DEF ReapDisconnects, Cut
    <2>2. item \in Pool /\ item.gen = pool[id].gen
          /\ item.dequeued = pool[id].dequeued /\ item.token = pool[id].token
      BY <1>1, Linked
    <2> HIDE DEF item, id
    <2>3. \A c \in Consumers : ~Uses(c, id)
      BY <1>1, <2>1, NotInUse
    <2>4. \A i \in Ids : pool'[i] = IF i = id THEN item ELSE pool[i]
      BY <1>1, <2>1, <2>2, PoolBecomes DEF Typed
    <2> QED BY <1>1, <1>2, <2>2, <2>3, <2>4, Settling
  <1>4. CASE ReapNotes
    <2> DEFINE item == IF reap.found THEN [pool[id] EXCEPT !.connected = TRUE] ELSE pool[id]
    <2>1. pool' = [pool EXCEPT ![id] = item]
      <3>1. CASE reap.found
        BY <1>4, <3>1 DEF ReapNotes
      <3>2. CASE ~reap.found
        BY <1>1, <1>4, <3>2 DEF ReapNotes, Typed, TypeOK
      <3> QED BY <3>1, <3>2
    <2>2. item \in Pool /\ item.gen = pool[id].gen /\ (item.connected \/ item = pool[id])
          /\ item.dequeued = pool[id].dequeued /\ item.token = pool[id].token
      BY <1>1, Linked
    <2> HIDE DEF item, id
    <2>3. (\A c \in Consumers : ~Uses(c, id)) \/ item.connected
      BY <1>1, <2>2, Unconnected
    <2>4. \A i \in Ids : pool'[i] = IF i = id THEN item ELSE pool[i]
      BY <1>1, <2>1, <2>2, PoolBecomes DEF Typed
    <2> QED BY <1>1, <1>2, <2>2, <2>3, <2>4, Settling
  <1>5. CASE ReapRemoves
    <2> DEFINE item == Settled(pool[id])
    <2>1. pool' = [pool EXCEPT ![id] = item]
      BY <1>5 DEF ReapRemoves
    <2>2. item \in Pool /\ (item = pool[id] \/ (~pool[id].connected /\ item = NoPool))
      BY <1>1, SettledItem
    <2> HIDE DEF item, id
    <2>3. (\A c \in Consumers : ~Uses(c, id)) \/ (item.gen = pool[id].gen /\ item.connected)
      BY <1>1, <2>2, Unconnected
    <2>4. \A i \in Ids : pool'[i] = IF i = id THEN item ELSE pool[i]
      BY <1>1, <2>1, <2>2, PoolBecomes DEF Typed
    <2> QED BY <1>1, <1>2, <2>2, <2>3, <2>4, Settling
  <1> QED BY <1>3, <1>4, <1>5

-----------------------------------------------------------------------------
(* Steps that leave the pools alone and add no claim. *)

LEMMA SamePools ==
    ASSUME Typed, Typed', Sound, pool' = pool, allocs' \in {allocs, allocs + 1},
           mLock' = mLock \/ mLock = Idle,
           \A c \in Consumers, id \in Ids, b \in Bufs :
              /\ Claims(c, id, b)' => Claims(c, id, b)
              /\ shadow'[c][id][b].gen \in {0, pool[id].gen},
           \A c \in Consumers, id \in Ids : Uses(c, id)' => Uses(c, id),
           \A id \in Ids, b \in Bufs : BeingCleared(id, b) => BeingCleared(id, b)'
    PROVE  /\ GensDiffer' /\ GensKnown' /\ ShadowsFit' /\ UsersConnected'
           /\ ClaimsAreOut' /\ OneClaimant' /\ SlotsMatch'
  <1>1. GensDiffer' /\ GensKnown'
    BY Types DEF Typed, Sound, GensDiffer, GensKnown
  <1>2. ShadowsFit' /\ UsersConnected'
    BY DEF Sound, ShadowsFit, UsersConnected
  <1>3. ClaimsAreOut'
    BY DEF Sound, ClaimsAreOut
  <1>4. OneClaimant'
    BY DEF Sound, OneClaimant
  <1>5. SlotsMatch'
    BY LockStays DEF Sound, SlotsMatch
  <1> QED BY <1>1, <1>2, <1>3, <1>4, <1>5

(* Nor do they touch a consumer. *)
LEMMA SameClients ==
    ASSUME Typed, Typed', Sound, pool' = pool, allocs' \in {allocs, allocs + 1},
           UNCHANGED clientVars, mLock' = mLock \/ mLock = Idle,
           \A c \in Consumers : c \in dead' <=> c \in dead,
           ObserversOfDead',
           \A id \in Ids, b \in Bufs : BeingCleared(id, b) => BeingCleared(id, b)'
    PROVE  Sound'
  <1>1. /\ \A c \in Consumers, id \in Ids, b \in Bufs :
              /\ Claims(c, id, b)' = Claims(c, id, b)
              /\ Requests(c, id, b)' = Requests(c, id, b)
              /\ Gives(c, id, b)' = Gives(c, id, b)
              /\ HoldsOf(c, id, b)' = HoldsOf(c, id, b)
        /\ \A c \in Consumers, id \in Ids : Uses(c, id)' = Uses(c, id)
    BY DEF Claims, Requests, Gives, HoldsOf, Uses, clientVars
  <1>2. /\ GensDiffer' /\ GensKnown' /\ ShadowsFit' /\ UsersConnected'
        /\ ClaimsAreOut' /\ OneClaimant' /\ SlotsMatch'
    <2>1. \A c \in Consumers, id \in Ids, b \in Bufs : shadow'[c][id][b].gen \in {0, pool[id].gen}
      BY DEF Sound, ShadowsFit, clientVars
    <2> QED BY <1>1, <2>1, SamePools
  <1>3. DeadAreGone'
    BY DEF Sound, DeadAreGone, clientVars
  <1>4. HeldHasShadow'
    BY DEF Sound, HeldHasShadow, clientVars
  <1>5. AcquiredIsHeld'
    BY <1>1 DEF Sound, AcquiredIsHeld, clientVars
  <1>6. CallsAreAlone'
    BY <1>1 DEF Sound, CallsAreAlone
  <1> QED BY <1>2, <1>3, <1>4, <1>5, <1>6 DEF Sound

LEMMA NoticesBegin ==
    ASSUME Typed, Typed', Sound,
           WalkBegins \/ WalkLooks \/ ReapBegins \/ \E p \in Producers : ProducerDies(p)
    PROVE  Sound'
  <1>1. pool' = pool /\ allocs' = allocs /\ mLock' = mLock /\ UNCHANGED clientVars
    BY DEF WalkBegins, WalkLooks, ReapBegins, ProducerDies, serverVars
  <1>2. CASE WalkBegins \/ WalkLooks
    <2>1. UNCHANGED <<dead, obits, reap>>
      BY <1>2 DEF WalkBegins, WalkLooks
    <2>2. ObserversOfDead'
      BY <2>1 DEF Sound, ObserversOfDead
    <2>3. \A id \in Ids, b \in Bufs : BeingCleared(id, b) => BeingCleared(id, b)'
      BY <1>1, <2>1 DEF BeingCleared
    <2> QED BY <1>1, <2>1, <2>2, <2>3, SameClients
  <1>3. CASE ReapBegins
    <2>1. reap = Idle /\ dead' = dead
      BY <1>3 DEF ReapBegins
    <2>2. \A id \in Ids, b \in Bufs : ~BeingCleared(id, b)
      BY <2>1, IdleCall DEF BeingCleared
    <2>3. PICK o \in obits :
              /\ obits' = obits \ {o}
              /\ \/ \E id \in HoldersItems(o[1]) :
                       reap' = [at |-> "scan", who |-> o[1], id |-> id, gen |-> o[2]]
                 \/ UNCHANGED reap
      BY <1>3 DEF ReapBegins
    <2>4. o[1] \in dead /\ \A n \in obits' : n[1] \in dead
      BY <2>3 DEF Sound, ObserversOfDead
    <2>5. ObserversOfDead'
      BY <2>1, <2>3, <2>4, IdleCall DEF ObserversOfDead
    <2> QED BY <1>1, <2>1, <2>2, <2>5, SameClients
  <1>4. ASSUME NEW p \in Producers, ProducerDies(p) PROVE Sound'
    <2>1. UNCHANGED <<obits, reap>> /\ dead' = dead \cup {p}
      BY <1>4 DEF ProducerDies
    <2>2. p \notin Consumers
      BY GuiExtAssumption DEF GuiExtAssumption
    <2>3. ObserversOfDead'
      BY <2>1 DEF Sound, ObserversOfDead
    <2>4. \A id \in Ids, b \in Bufs : BeingCleared(id, b) => BeingCleared(id, b)'
      BY <1>1, <2>1 DEF BeingCleared
    <2> QED BY <1>1, <2>1, <2>2, <2>3, <2>4, SameClients
  <1> QED BY <1>2, <1>3, <1>4

(* A consumer that dies leaves no claim, though perhaps buffers. *)
LEMMA ConsumerDiesSound ==
    ASSUME Typed, Typed', Sound, NEW c \in Consumers, ConsumerDies(c)
    PROVE  /\ Sound'
           /\ \A d \in Consumers, id \in Ids, b \in Bufs : Claims(d, id, b)' => Claims(d, id, b)
  <1>1. /\ pool' = pool /\ allocs' = allocs /\ mLock' = mLock /\ reap' = reap
        /\ dead' = dead \cup {c}
        /\ \A o \in obits' : o \in obits \/ o[1] = c
    BY DEF ConsumerDies, serverVars
  <1>2. /\ \A d \in Consumers : pc'[d] = IF d = c THEN Idle ELSE pc[d]
        /\ \A d \in Consumers, id \in Ids, b \in Bufs :
              shadow'[d][id][b] = IF d = c THEN NoShadow ELSE shadow[d][id][b]
        /\ \A d \in Consumers, g \in Gens, b \in Bufs :
              held'[d][g][b] = IF d = c THEN 0 ELSE held[d][g][b]
    BY DEF ConsumerDies, Typed, TypeOK
  <1>3. \A d \in Consumers, id \in Ids, b \in Bufs :
           /\ Requests(d, id, b)' => d # c /\ Requests(d, id, b)
           /\ Gives(d, id, b)' => d # c /\ Gives(d, id, b)
           /\ d # c => HoldsOf(d, id, b)' = HoldsOf(d, id, b)
           /\ ~HoldsOf(c, id, b)'
    <2>1. \A d \in Consumers, id \in Ids, b \in Bufs :
             /\ Requests(d, id, b)' => d # c /\ Requests(d, id, b)
             /\ Gives(d, id, b)' => d # c /\ Gives(d, id, b)
      BY <1>2, IdleCall DEF Requests, Gives
    <2>2. \A d \in Consumers, id \in Ids, b \in Bufs :
             /\ d # c => HoldsOf(d, id, b)' = HoldsOf(d, id, b)
             /\ ~HoldsOf(c, id, b)'
      BY <1>1, <1>2, Types DEF HoldsOf, Typed
    <2> QED BY <2>1, <2>2
  <1>4. \A d \in Consumers, id \in Ids : Uses(d, id)' => Uses(d, id)
    BY <1>2, IdleCall, Nothing DEF Uses
  <1>5. \A d \in Consumers, id \in Ids, b \in Bufs :
           /\ Claims(d, id, b)' => Claims(d, id, b)
           /\ shadow'[d][id][b].gen \in {0, pool[id].gen}
    <2>1. \A d \in Consumers, id \in Ids, b \in Bufs : Claims(d, id, b)' => Claims(d, id, b)
      BY <1>3 DEF Claims
    <2>2. \A d \in Consumers, id \in Ids, b \in Bufs : shadow'[d][id][b].gen \in {0, pool[id].gen}
      BY <1>2, Nothing DEF Sound, ShadowsFit
    <2> QED BY <2>1, <2>2
  <1>6. \A id \in Ids, b \in Bufs : BeingCleared(id, b) => BeingCleared(id, b)'
    BY <1>1 DEF BeingCleared
  <1>7. /\ GensDiffer' /\ GensKnown' /\ ShadowsFit' /\ UsersConnected'
        /\ ClaimsAreOut' /\ OneClaimant' /\ SlotsMatch'
    BY <1>1, <1>4, <1>5, <1>6, SamePools
  <1>8. DeadAreGone'
    BY <1>1, <1>2, Nothing DEF Sound, DeadAreGone
  <1>9. ObserversOfDead'
    BY <1>1 DEF Sound, ObserversOfDead
  <1>10. HeldHasShadow'
    BY <1>1, <1>2 DEF Sound, HeldHasShadow
  <1>11. AcquiredIsHeld'
    BY <1>2, <1>3, Nothing DEF Sound, AcquiredIsHeld
  <1>12. CallsAreAlone'
    BY <1>3 DEF Sound, CallsAreAlone
  <1> QED BY <1>5, <1>7, <1>8, <1>9, <1>10, <1>11, <1>12 DEF Sound

(* What disconnect() is to give back was held. *)
LEMMA DisconnectSound ==
    ASSUME Typed, Typed', Sound, NEW c \in Consumers, NEW id \in Ids, Disconnect(c, id)
    PROVE  /\ Sound'
           /\ \A d \in Consumers, i \in Ids, b \in Bufs : Claims(d, i, b)' => Claims(d, i, b)
  <1> DEFINE todo == {b \in Bufs : shadow[c][id][b].isAcquired}
  <1>1. /\ pool' = pool /\ allocs' = allocs /\ mLock' = mLock /\ UNCHANGED <<dead, obits, reap>>
        /\ c \notin dead /\ pc[c] = Idle
    BY DEF Disconnect, serverVars, deathVars, Ready, Alive
  <1>2. /\ pc'[c].at = "disconnect" /\ pc'[c].id = id /\ pc'[c].todo = todo
        /\ \A d \in Consumers : d # c => pc'[d] = pc[d]
    BY DEF Disconnect, Typed, TypeOK
  <1>3. \A d \in Consumers, i \in Ids, b \in Bufs :
           shadow'[d][i][b] = IF d = c /\ i = id THEN NoShadow ELSE shadow[d][i][b]
    BY DEF Disconnect, Typed, TypeOK
  <1>4. \A d \in Consumers, g \in Gens, b \in Bufs :
           held'[d][g][b] = IF d = c /\ shadow[c][id][b].gen = g THEN 0 ELSE held[d][g][b]
    BY DEF Disconnect, Typed, TypeOK
  <1>5. PICK s \in Bufs : shadow[c][id][s].gen # 0
    BY DEF Disconnect, Shades
  <1>6. Uses(c, id) /\ pool[id].gen # 0
    BY <1>5 DEF Uses, Sound, UsersConnected
  <1>7. \A d \in Consumers, i \in Ids, b \in Bufs :
           /\ HoldsOf(d, i, b)' => HoldsOf(d, i, b)
           /\ ~HoldsOf(c, id, b)'
           /\ d # c \/ i # id => HoldsOf(d, i, b)' = HoldsOf(d, i, b)
    <2>1. ASSUME NEW d \in Consumers, NEW i \in Ids, NEW b \in Bufs
          PROVE  HoldsOf(d, i, b)' => HoldsOf(d, i, b)
      BY <1>1, <1>4, Types DEF HoldsOf, Typed
    <2>2. ASSUME NEW b \in Bufs, HoldsOf(c, id, b)'
          PROVE  FALSE
      <3>1. pool[id].gen \in Gens /\ held[c][pool[id].gen][b] > 0 /\ shadow[c][id][b].gen # pool[id].gen
        BY <1>1, <1>4, <1>6, <2>2, Types DEF HoldsOf, Typed
      <3>2. PICK i \in Ids : pool[i].gen = pool[id].gen /\ shadow[c][i][b].gen = pool[id].gen
        BY <3>1 DEF Sound, HeldHasShadow
      <3> QED BY <1>6, <3>1, <3>2 DEF Sound, GensDiffer
    <2>3. ASSUME NEW d \in Consumers, NEW i \in Ids, NEW b \in Bufs, d # c \/ i # id
          PROVE  HoldsOf(d, i, b)' = HoldsOf(d, i, b)
      <3>1. CASE pool[i].gen = 0
        BY <1>1, <3>1 DEF HoldsOf
      <3>2. CASE pool[i].gen # 0
        <4>1. pool[i].gen \in Gens
          BY <3>2, Types DEF Typed
        <4>2. d = c => shadow[c][id][b].gen # pool[i].gen
          BY <2>3, <3>2 DEF Sound, ShadowsFit, GensDiffer
        <4> QED BY <1>1, <1>4, <4>1, <4>2 DEF HoldsOf
      <3> QED BY <3>1, <3>2
    <2> QED BY <2>1, <2>2, <2>3
  <1>8. \A d \in Consumers, i \in Ids, b \in Bufs :
           /\ Requests(d, i, b)' => d # c /\ Requests(d, i, b)
           /\ Gives(d, i, b)' => \/ d # c /\ Gives(d, i, b)
                                 \/ d = c /\ i = id /\ HoldsOf(c, id, b)
    <2>1. \A d \in Consumers, i \in Ids, b \in Bufs : Requests(d, i, b)' => d # c /\ Requests(d, i, b)
      BY <1>2 DEF Requests
    <2>2. ASSUME NEW d \in Consumers, NEW i \in Ids, NEW b \in Bufs, Gives(d, i, b)'
          PROVE  \/ d # c /\ Gives(d, i, b)
                 \/ d = c /\ i = id /\ HoldsOf(c, id, b)
      <3>1. CASE d # c
        BY <1>2, <2>2, <3>1 DEF Gives
      <3>2. CASE d = c
        <4>1. i = id /\ shadow[c][id][b].isAcquired
          BY <1>2, <2>2, <3>2 DEF Gives
        <4> QED BY <3>2, <4>1 DEF Sound, AcquiredIsHeld
      <3> QED BY <3>1, <3>2
    <2> QED BY <2>1, <2>2
  <1>9. \A d \in Consumers, i \in Ids, b \in Bufs :
           /\ Claims(d, i, b)' => Claims(d, i, b)
           /\ shadow'[d][i][b].gen \in {0, pool[i].gen}
    <2>1. \A d \in Consumers, i \in Ids, b \in Bufs : Claims(d, i, b)' => Claims(d, i, b)
      BY <1>7, <1>8 DEF Claims
    <2>2. \A d \in Consumers, i \in Ids, b \in Bufs : shadow'[d][i][b].gen \in {0, pool[i].gen}
      BY <1>3, Nothing DEF Sound, ShadowsFit
    <2> QED BY <2>1, <2>2
  <1>10. \A d \in Consumers, i \in Ids : Uses(d, i)' => Uses(d, i)
    <2> SUFFICES ASSUME NEW d \in Consumers, NEW i \in Ids, Uses(d, i)' PROVE Uses(d, i)
      OBVIOUS
    <2>1. CASE \E b \in Bufs : shadow'[d][i][b].gen # 0
      BY <1>3, <2>1, Nothing DEF Uses
    <2>2. CASE pc'[d].at \in {"request", "disconnect"} /\ pc'[d].id = i
      <3>1. CASE d # c
        BY <1>2, <1>3, <3>1 DEF Uses
      <3>2. CASE d = c
        BY <1>2, <1>6, <2>2, <3>2
      <3> QED BY <3>1, <3>2
    <2> QED BY <2>1, <2>2 DEF Uses
  <1>11. \A i \in Ids, b \in Bufs : BeingCleared(i, b) => BeingCleared(i, b)'
    BY <1>1 DEF BeingCleared
  <1>12. /\ GensDiffer' /\ GensKnown' /\ ShadowsFit' /\ UsersConnected'
         /\ ClaimsAreOut' /\ OneClaimant' /\ SlotsMatch'
    BY <1>1, <1>9, <1>10, <1>11, SamePools
  <1>13. DeadAreGone'
    BY <1>1, <1>2, <1>3, <1>4, Nothing DEF Sound, DeadAreGone
  <1>14. ObserversOfDead'
    BY <1>1 DEF Sound, ObserversOfDead
  <1>15. HeldHasShadow'
    <2> SUFFICES ASSUME NEW d \in Consumers, NEW g \in Gens, NEW b \in Bufs, held'[d][g][b] > 0
                 PROVE  /\ held'[d][g][b] = 1
                        /\ \E i \in Ids : pool'[i].gen = g /\ shadow'[d][i][b].gen = g
      BY DEF HeldHasShadow
    <2>1. held'[d][g][b] = held[d][g][b] /\ (d = c => shadow[c][id][b].gen # g)
      BY <1>4
    <2>2. PICK i \in Ids : pool[i].gen = g /\ shadow[d][i][b].gen = g
      BY <2>1 DEF Sound, HeldHasShadow
    <2>3. held[d][g][b] = 1
      BY <2>1 DEF Sound, HeldHasShadow
    <2>4. shadow'[d][i][b] = shadow[d][i][b]
      BY <1>3, <2>1, <2>2
    <2> QED BY <1>1, <2>1, <2>2, <2>3, <2>4
  <1>16. AcquiredIsHeld'
    BY <1>3, <1>7, Nothing DEF Sound, AcquiredIsHeld
  <1>17. CallsAreAlone'
    BY <1>7, <1>8 DEF Sound, CallsAreAlone
  <1> QED BY <1>9, <1>12, <1>13, <1>14, <1>15, <1>16, <1>17 DEF Sound

-----------------------------------------------------------------------------
(* Steps after which nobody claims a certain buffer. *)

LEMMA BufferFreed ==
    ASSUME Typed, Typed', Sound, allocs' = allocs, NEW id \in Ids, NEW b \in Bufs,
           mLock' = mLock \/ \A i \in Ids, e \in Bufs : i # id \/ e # b => ~Slotless(i, e),
           \A i \in Ids : pool'[i].gen = pool[i].gen /\ pool'[i].connected = pool[i].connected,
           \A i \in Ids, e \in Bufs : i # id \/ e # b =>
              /\ e \in pool'[i].dequeued <=> e \in pool[i].dequeued
              /\ pool'[i].token[e] = pool[i].token[e]
              /\ BeingCleared(i, e) => BeingCleared(i, e)',
           \/ b \in pool'[id].dequeued <=> pool'[id].token[b] # Nobody
           \/ BeingCleared(id, b)' \/ Slotless(id, b)',
           \A c \in Consumers : ~Claims(c, id, b)',
           \A c \in Consumers, i \in Ids, e \in Bufs :
              /\ Claims(c, i, e)' => Claims(c, i, e)
              /\ shadow'[c][i][e].gen \in {0, pool[i].gen},
           \A c \in Consumers, i \in Ids : Uses(c, i)' => Uses(c, i)
    PROVE  /\ GensDiffer' /\ GensKnown' /\ ShadowsFit' /\ UsersConnected'
           /\ ClaimsAreOut' /\ OneClaimant' /\ SlotsMatch'
  <1>1. GensDiffer' /\ GensKnown'
    BY DEF Sound, GensDiffer, GensKnown
  <1>2. ShadowsFit'
    BY DEF ShadowsFit
  <1>3. UsersConnected'
    BY DEF Sound, UsersConnected
  <1>4. ClaimsAreOut'
    <2> SUFFICES ASSUME NEW c \in Consumers, NEW i \in Ids, NEW e \in Bufs, Claims(c, i, e)'
                 PROVE  /\ e \in pool'[i].dequeued
                        /\ pool'[i].token[e] = c \/ BeingCleared(i, e)'
      BY DEF ClaimsAreOut
    <2>1. Claims(c, i, e) /\ (i # id \/ e # b)
      OBVIOUS
    <2>2. e \in pool[i].dequeued /\ (pool[i].token[e] = c \/ BeingCleared(i, e))
      BY <2>1 DEF Sound, ClaimsAreOut
    <2> QED BY <2>1, <2>2
  <1>5. OneClaimant'
    BY DEF Sound, OneClaimant
  <1>6. SlotsMatch'
    <2> SUFFICES ASSUME NEW i \in Ids, NEW e \in Bufs, pool'[i].gen # 0
                 PROVE  \/ e \in pool'[i].dequeued <=> pool'[i].token[e] # Nobody
                        \/ BeingCleared(i, e)' \/ Slotless(i, e)'
      BY DEF SlotsMatch
    <2>1. CASE i = id /\ e = b
      BY <2>1
    <2>2. CASE i # id \/ e # b
      <3>1. \/ e \in pool[i].dequeued <=> pool[i].token[e] # Nobody
            \/ BeingCleared(i, e) \/ Slotless(i, e)
        BY DEF Sound, SlotsMatch
      <3> QED BY <2>2, <3>1, LockStays
    <2> QED BY <2>1, <2>2
  <1> QED BY <1>1, <1>2, <1>3, <1>4, <1>5, <1>6

(* The service's half of a release. *)
LEMMA ServerReleases ==
    ASSUME Typed, NEW id \in Ids, NEW b \in Bufs, ServerRelease(id, b), pool[id].gen # 0,
           reap' = reap
    PROVE  /\ \A i \in Ids : pool'[i].gen = pool[i].gen /\ pool'[i].connected = pool[i].connected
           /\ \A i \in Ids, e \in Bufs : i # id \/ e # b =>
                /\ e \in pool'[i].dequeued <=> e \in pool[i].dequeued
                /\ pool'[i].token[e] = pool[i].token[e]
           /\ b \notin pool'[id].dequeued /\ pool'[id].token[b] = Nobody
           /\ \A i \in Ids, e \in Bufs : BeingCleared(i, e) => BeingCleared(i, e)'
  <1> DEFINE item == Freed(pool[id], b)
  <1>1. /\ item \in Pool /\ item.gen = pool[id].gen /\ item.connected = pool[id].connected
        /\ item.dequeued = pool[id].dequeued \ {b}
        /\ \A d \in Bufs : item.token[d] = IF d = b THEN Nobody ELSE pool[id].token[d]
    BY Types, Returned DEF Typed
  <1>2. pool' = [pool EXCEPT ![id] = item]
    BY DEF ServerRelease
  <1> HIDE DEF item
  <1>3. \A i \in Ids : pool'[i] = IF i = id THEN item ELSE pool[i]
    BY <1>1, <1>2, PoolBecomes DEF Typed
  <1>4. \A i \in Ids : pool'[i].gen = pool[i].gen /\ pool'[i].connected = pool[i].connected
    BY <1>1, <1>3
  <1>5. \A i \in Ids, e \in Bufs : i # id \/ e # b =>
           /\ e \in pool'[i].dequeued <=> e \in pool[i].dequeued
           /\ pool'[i].token[e] = pool[i].token[e]
    BY <1>1, <1>3
  <1>6. b \notin pool'[id].dequeued /\ pool'[id].token[b] = Nobody
    BY <1>1, <1>3
  <1>7. \A i \in Ids, e \in Bufs : BeingCleared(i, e) => BeingCleared(i, e)'
    BY <1>4 DEF BeingCleared
  <1> QED BY <1>4, <1>5, <1>6, <1>7

LEMMA ReleaseSound ==
    ASSUME Typed, Typed', Sound, NEW c \in Consumers, NEW id \in Ids, NEW b \in Bufs,
           Release(c, id, b)
    PROVE  Sound'
  <1>1. PICK g \in Gens : g = pool[id].gen
    <2>1. shadow[c][id][b].gen # 0 /\ shadow[c][id][b].gen \in {0, pool[id].gen}
      BY DEF Release, Sound, ShadowsFit
    <2>2. pool[id].gen # 0 => pool[id].gen \in Gens
      BY Types DEF Typed
    <2> QED BY <2>1, <2>2
  <1>2. /\ shadow[c][id][b].gen = g /\ g # 0
        /\ held[c][g][b] > 0
    BY <1>1 DEF Release, Sound, ShadowsFit
  <1>3. /\ UNCHANGED <<allocs, mLock, dead, obits, reap, pc>>
        /\ ServerRelease(id, b) /\ c \notin dead /\ pc[c] = Idle
    BY DEF Release, deathVars, Ready, Alive
  <1>4. held[c][g][b] = 1
    BY <1>2 DEF Sound, HeldHasShadow
  <1>5. \A d \in Consumers, h \in Gens, e \in Bufs :
           held'[d][h][e] = IF d = c /\ h = g /\ e = b THEN 0 ELSE held[d][h][e]
    <2>1. held' = [held EXCEPT ![c][g][b] = held[c][g][b] - 1]
      BY <1>2 DEF Release
    <2>2. held' = [held EXCEPT ![c][g][b] = 0]
      BY <1>4, <2>1
    <2> QED BY <2>2 DEF Typed, TypeOK
  <1>6. PICK s \in Shade : /\ s = [shadow[c][id][b] EXCEPT !.isAcquired = FALSE]
                           /\ s.gen = g /\ ~s.isAcquired
    <2> DEFINE s == [shadow[c][id][b] EXCEPT !.isAcquired = FALSE]
    <2>1. shadow[c][id][b] \in Shade
      BY Types DEF Typed
    <2>2. s \in Shade /\ s.gen = g /\ ~s.isAcquired
      BY <1>2, <2>1 DEF Shade
    <2> QED BY <2>2
  <1>7. \A d \in Consumers, i \in Ids, e \in Bufs :
           shadow'[d][i][e] = IF d = c /\ i = id /\ e = b THEN s ELSE shadow[d][i][e]
    <2>1. shadow' = [shadow EXCEPT ![c][id][b] = s]
      BY <1>6 DEF Release
    <2>2. TypeOK /\ s \in Shade
      BY <1>6 DEF Typed
    <2> TAKE d \in Consumers, i \in Ids, e \in Bufs
    <2>3. shadow \in [Consumers -> [Ids -> [Bufs -> Shade]]]
      BY <2>2 DEF TypeOK
    <2>4. CASE d = c /\ i = id /\ e = b
      BY <2>1, <2>3, <2>4
    <2>5. CASE d # c
      BY <2>1, <2>3, <2>5
    <2>6. CASE d = c /\ i # id
      BY <2>1, <2>3, <2>6
    <2>7. CASE d = c /\ i = id /\ e # b
      BY <2>1, <2>3, <2>7
    <2> QED BY <2>4, <2>5, <2>6, <2>7
  <1>8. \A d \in Consumers, i \in Ids, e \in Bufs : shadow'[d][i][e].gen = shadow[d][i][e].gen
    <2> TAKE d \in Consumers, i \in Ids, e \in Bufs
    <2>1. CASE d = c /\ i = id /\ e = b
      BY <1>2, <1>6, <1>7, <2>1
    <2>2. CASE ~(d = c /\ i = id /\ e = b)
      BY <1>7, <2>2
    <2> QED BY <2>1, <2>2
  <1>9. /\ \A i \in Ids : pool'[i].gen = pool[i].gen /\ pool'[i].connected = pool[i].connected
        /\ \A i \in Ids, e \in Bufs : i # id \/ e # b =>
              /\ e \in pool'[i].dequeued <=> e \in pool[i].dequeued
              /\ pool'[i].token[e] = pool[i].token[e]
        /\ b \notin pool'[id].dequeued /\ pool'[id].token[b] = Nobody
        /\ \A i \in Ids, e \in Bufs : BeingCleared(i, e) => BeingCleared(i, e)'
    BY <1>2, <1>3, <1>1, ServerReleases
  <1>10. \A d \in Consumers, i \in Ids, e \in Bufs :
           /\ Requests(d, i, e)' = Requests(d, i, e)
           /\ Gives(d, i, e)' = Gives(d, i, e)
    BY <1>3 DEF Requests, Gives
  <1>11. \A d \in Consumers, i \in Ids, e \in Bufs :
           /\ HoldsOf(d, i, e)' => HoldsOf(d, i, e)
           /\ d # c \/ i # id \/ e # b => HoldsOf(d, i, e)' = HoldsOf(d, i, e)
           /\ ~HoldsOf(c, id, b)'
    <2>1. \A i \in Ids : pool[i].gen # 0 => pool[i].gen \in Gens /\ (pool[i].gen = g => i = id)
      BY <1>2, <1>1, Types DEF Typed, Sound, GensDiffer
    <2>2. ASSUME NEW d \in Consumers, NEW i \in Ids, NEW e \in Bufs, d # c \/ i # id \/ e # b
          PROVE  HoldsOf(d, i, e)' = HoldsOf(d, i, e)
      BY <1>5, <1>9, <2>1, <2>2 DEF HoldsOf
    <2>3. ~HoldsOf(c, id, b)'
      BY <1>2, <1>5, <1>9, <1>1 DEF HoldsOf
    <2> QED BY <2>2, <2>3
  <1>12. \A d \in Consumers : ~Claims(d, id, b)'
    <2> SUFFICES ASSUME NEW d \in Consumers, Claims(d, id, b)' PROVE FALSE
      OBVIOUS
    <2>1. Claims(c, id, b)
      BY <1>2, <1>1 DEF Claims, HoldsOf
    <2>2. Claims(d, id, b)
      BY <1>10, <1>11 DEF Claims
    <2>3. d = c
      BY <2>1, <2>2 DEF Sound, OneClaimant
    <2>4. ~Requests(c, id, b) /\ ~Gives(c, id, b)
      BY <1>3, IdleCall DEF Requests, Gives
    <2> QED BY <1>10, <1>11, <2>3, <2>4 DEF Claims
  <1>13. \A d \in Consumers, i \in Ids, e \in Bufs :
            /\ Claims(d, i, e)' => Claims(d, i, e)
            /\ shadow'[d][i][e].gen \in {0, pool[i].gen}
    <2>1. \A d \in Consumers, i \in Ids, e \in Bufs : Claims(d, i, e)' => Claims(d, i, e)
      BY <1>10, <1>11 DEF Claims
    <2> QED BY <1>8, <2>1 DEF Sound, ShadowsFit
  <1>14. \A d \in Consumers, i \in Ids : Uses(d, i)' => Uses(d, i)
    BY <1>3, <1>8 DEF Uses
  <1>15. /\ GensDiffer' /\ GensKnown' /\ ShadowsFit' /\ UsersConnected'
         /\ ClaimsAreOut' /\ OneClaimant' /\ SlotsMatch'
    BY <1>3, <1>9, <1>12, <1>13, <1>14, BufferFreed
  <1>16. DeadAreGone'
    BY <1>3, <1>5, <1>8 DEF Sound, DeadAreGone
  <1>17. ObserversOfDead'
    BY <1>3 DEF Sound, ObserversOfDead
  <1>18. HeldHasShadow'
    <2> SUFFICES ASSUME NEW d \in Consumers, NEW h \in Gens, NEW e \in Bufs, held'[d][h][e] > 0
                 PROVE  /\ held'[d][h][e] = 1
                        /\ \E i \in Ids : pool'[i].gen = h /\ shadow'[d][i][e].gen = h
      BY DEF HeldHasShadow
    <2>1. held'[d][h][e] = held[d][h][e]
      BY <1>5
    <2>2. /\ held[d][h][e] = 1
          /\ \E i \in Ids : pool[i].gen = h /\ shadow[d][i][e].gen = h
      BY <2>1 DEF Sound, HeldHasShadow
    <2> QED BY <1>8, <1>9, <2>1, <2>2
  <1>19. AcquiredIsHeld'
    <2> SUFFICES ASSUME NEW d \in Consumers, NEW i \in Ids, NEW e \in Bufs,
                        shadow'[d][i][e].isAcquired
                 PROVE  HoldsOf(d, i, e)'
      BY DEF AcquiredIsHeld
    <2>1. shadow'[d][i][e] = shadow[d][i][e] /\ (d # c \/ i # id \/ e # b)
      BY <1>7, <1>6
    <2> QED BY <1>11, <2>1 DEF Sound, AcquiredIsHeld
  <1>20. CallsAreAlone'
    BY <1>10, <1>11 DEF Sound, CallsAreAlone
  <1> QED BY <1>15, <1>16, <1>17, <1>18, <1>19, <1>20 DEF Sound

LEMMA DisconnectReleasesSound ==
    ASSUME Typed, Typed', Sound, NEW c \in Consumers, DisconnectReleases(c)
    PROVE  Sound'
  <1>1. PICK b \in pc[c].todo : /\ ServerRelease(pc[c].id, b)
                                /\ pc' = [pc EXCEPT ![c].todo = @ \ {b}]
    BY DEF DisconnectReleases
  <1>2. /\ b \in Bufs
        /\ pc[c] = [at |-> "disconnect", id |-> pc[c].id, todo |-> pc[c].todo]
        /\ pc[c].at = "disconnect" /\ c \notin dead
    <2>1. pc[c].at = "disconnect" /\ c \notin dead
      BY DEF DisconnectReleases, Alive
    <2>2. pc[c] \in Calls
      BY Types DEF Typed
    <2>3. /\ pc[c].id \in Ids /\ pc[c].todo \in SUBSET Bufs
          /\ pc[c] = [at |-> "disconnect", id |-> pc[c].id, todo |-> pc[c].todo]
      BY <2>1, <2>2, CallFields
    <2>4. b \in Bufs
      BY <1>1, <2>3
    <2> QED BY <2>1, <2>3, <2>4
  <1>3. UNCHANGED <<allocs, mLock, dead, obits, reap, shadow, held>>
    BY DEF DisconnectReleases, deathVars
  <1>4. PICK id \in Ids : id = pc[c].id
    <2>1. pc[c].id \in Ids
      BY CallFields, Types DEF DisconnectReleases, Typed
    <2> QED BY <2>1
  <1>5. pc[c].at = "disconnect" /\ pc[c].id = id /\ c \notin dead /\ b \in pc[c].todo
    BY <1>1, <1>2, <1>4
  <1>6. /\ pc'[c].at = "disconnect" /\ pc'[c].id = id /\ pc'[c].todo = pc[c].todo \ {b}
        /\ \A d \in Consumers : d # c => pc'[d] = pc[d]
    BY <1>1, <1>2, <1>4 DEF Typed, TypeOK
  <1>7. Gives(c, id, b)
    BY <1>5 DEF Gives
  <1>8. Claims(c, id, b) /\ pool[id].gen # 0
    BY <1>2, <1>7, ClaimsLive DEF Claims
  <1>9. /\ \A i \in Ids : pool'[i].gen = pool[i].gen /\ pool'[i].connected = pool[i].connected
        /\ \A i \in Ids, e \in Bufs : i # id \/ e # b =>
              /\ e \in pool'[i].dequeued <=> e \in pool[i].dequeued
              /\ pool'[i].token[e] = pool[i].token[e]
        /\ b \notin pool'[id].dequeued /\ pool'[id].token[b] = Nobody
        /\ \A i \in Ids, e \in Bufs : BeingCleared(i, e) => BeingCleared(i, e)'
    BY <1>1, <1>2, <1>3, <1>8, <1>4, ServerReleases
  <1>10. \A d \in Consumers, i \in Ids, e \in Bufs :
           /\ Requests(d, i, e)' => Requests(d, i, e)
           /\ Gives(d, i, e)' => Gives(d, i, e)
           /\ HoldsOf(d, i, e)' = HoldsOf(d, i, e)
    <2>1. \A d \in Consumers, i \in Ids, e \in Bufs : HoldsOf(d, i, e)' = HoldsOf(d, i, e)
      BY <1>3, <1>9 DEF HoldsOf
    <2>2. ASSUME NEW d \in Consumers, NEW i \in Ids, NEW e \in Bufs
          PROVE  /\ Requests(d, i, e)' => Requests(d, i, e)
                 /\ Gives(d, i, e)' => Gives(d, i, e)
      <3>1. CASE d = c
        BY <1>6, <1>5, <3>1 DEF Requests, Gives
      <3>2. CASE d # c
        BY <1>6, <3>2 DEF Requests, Gives
      <3> QED BY <3>1, <3>2
    <2> QED BY <2>1, <2>2
  <1>11. ~Gives(c, id, b)' /\ ~Requests(c, id, b)'
    BY <1>6 DEF Gives, Requests
  <1>12. \A d \in Consumers : ~Claims(d, id, b)'
    <2> SUFFICES ASSUME NEW d \in Consumers, Claims(d, id, b)' PROVE FALSE
      OBVIOUS
    <2>1. Claims(d, id, b)
      BY <1>2, <1>10 DEF Claims
    <2>2. d = c
      BY <1>2, <1>8, <2>1 DEF Sound, OneClaimant
    <2>3. ~HoldsOf(c, id, b)
      BY <1>2, <1>7 DEF Sound, CallsAreAlone
    <2>4. ~HoldsOf(c, id, b)'
      BY <1>2, <1>10, <2>3
    <2> QED BY <1>11, <2>2, <2>4 DEF Claims
  <1>13. \A d \in Consumers, i \in Ids, e \in Bufs :
            /\ Claims(d, i, e)' => Claims(d, i, e)
            /\ shadow'[d][i][e].gen \in {0, pool[i].gen}
    <2>1. \A d \in Consumers, i \in Ids, e \in Bufs : Claims(d, i, e)' => Claims(d, i, e)
      BY <1>10 DEF Claims
    <2> QED BY <1>3, <2>1 DEF Sound, ShadowsFit
  <1>14. \A d \in Consumers, i \in Ids : Uses(d, i)' => Uses(d, i)
    <2> SUFFICES ASSUME NEW d \in Consumers, NEW i \in Ids, Uses(d, i)' PROVE Uses(d, i)
      OBVIOUS
    <2>1. CASE d # c
      BY <1>3, <1>6, <2>1 DEF Uses
    <2>2. CASE d = c
      <3>1. CASE \E e \in Bufs : shadow'[c][i][e].gen # 0
        BY <1>3, <2>2, <3>1 DEF Uses
      <3>2. CASE i = id
        BY <1>2, <1>5, <2>2, <3>2 DEF Uses
      <3> QED BY <1>6, <2>2, <3>1, <3>2 DEF Uses
    <2> QED BY <2>1, <2>2
  <1>15. /\ GensDiffer' /\ GensKnown' /\ ShadowsFit' /\ UsersConnected'
         /\ ClaimsAreOut' /\ OneClaimant' /\ SlotsMatch'
    BY <1>2, <1>3, <1>9, <1>12, <1>13, <1>14, BufferFreed
  <1>16. DeadAreGone'
    BY <1>2, <1>3, <1>6 DEF Sound, DeadAreGone
  <1>17. ObserversOfDead'
    BY <1>3 DEF Sound, ObserversOfDead
  <1>18. HeldHasShadow'
    BY <1>3, <1>9 DEF Sound, HeldHasShadow
  <1>19. AcquiredIsHeld'
    BY <1>3, <1>10 DEF Sound, AcquiredIsHeld
  <1>20. CallsAreAlone'
    BY <1>10 DEF Sound, CallsAreAlone
  <1> QED BY <1>15, <1>16, <1>17, <1>18, <1>19, <1>20 DEF Sound

(* Steps that leave the consumers and the numbers of the pools alone. *)
LEMMA SameClaims ==
    ASSUME Sound, UNCHANGED clientVars, dead' = dead,
           \A i \in Ids : pool'[i].gen = pool[i].gen
    PROVE  /\ \A c \in Consumers, i \in Ids, e \in Bufs : Claims(c, i, e)' <=> Claims(c, i, e)
           /\ \A c \in Consumers, i \in Ids : Uses(c, i)' <=> Uses(c, i)
           /\ \A c \in Consumers, i \in Ids, e \in Bufs : shadow'[c][i][e].gen \in {0, pool[i].gen}
           /\ DeadAreGone' /\ HeldHasShadow' /\ AcquiredIsHeld' /\ CallsAreAlone'
  <1>1. \A c \in Consumers, i \in Ids, e \in Bufs :
           /\ Requests(c, i, e)' <=> Requests(c, i, e)
           /\ Gives(c, i, e)' <=> Gives(c, i, e)
           /\ HoldsOf(c, i, e)' <=> HoldsOf(c, i, e)
    BY DEF Requests, Gives, HoldsOf, clientVars
  <1>2. \A c \in Consumers, i \in Ids, e \in Bufs : Claims(c, i, e)' <=> Claims(c, i, e)
    BY <1>1 DEF Claims
  <1>3. \A c \in Consumers, i \in Ids : Uses(c, i)' <=> Uses(c, i)
    BY DEF Uses, clientVars
  <1>4. \A c \in Consumers, i \in Ids, e \in Bufs : shadow'[c][i][e].gen \in {0, pool[i].gen}
    BY DEF Sound, ShadowsFit, clientVars
  <1>5. DeadAreGone'
    BY DEF Sound, DeadAreGone, clientVars
  <1>6. HeldHasShadow'
    BY DEF Sound, HeldHasShadow, clientVars
  <1>7. AcquiredIsHeld'
    BY <1>1 DEF Sound, AcquiredIsHeld, clientVars
  <1>8. CallsAreAlone'
    BY <1>1 DEF Sound, CallsAreAlone
  <1> QED BY <1>2, <1>3, <1>4, <1>5, <1>6, <1>7, <1>8

(* An observer takes back a buffer of the dead. *)
LEMMA ReapReleasesSound ==
    ASSUME Typed, Typed', Sound, ReapReleases
    PROVE  Sound'
  <1>1. PICK id \in Ids : id = reap.id /\ pool[id] \in Pool
    BY ReapingFields, Types DEF ReapReleases, Typed
  <1>2. /\ reap.at = "scan" /\ reap.who \in Consumers /\ reap.gen = pool[id].gen
        /\ pool[id].gen # 0
    BY <1>1, ReapingFields DEF ReapReleases, Typed, Reaping
  <1>3. PICK b \in Bufs :
           /\ pool[id].token[b] = reap.who
           /\ pool' = [pool EXCEPT ![id].dequeued = @ \ {b}]
           /\ reap' = [at |-> "clear", who |-> reap.who, id |-> reap.id, gen |-> reap.gen, buf |-> b]
    BY <1>1 DEF ReapReleases, Slots
  <1>4. UNCHANGED <<allocs, mLock, dead, obits, clientVars>>
    BY DEF ReapReleases
  <1> DEFINE item == [pool[id] EXCEPT !.dequeued = @ \ {b}]
  <1>5. /\ item \in Pool /\ item.gen = pool[id].gen /\ item.connected = pool[id].connected
        /\ item.dequeued = pool[id].dequeued \ {b} /\ item.token = pool[id].token
    BY <1>1, TakenBack
  <1>6. pool' = [pool EXCEPT ![id] = item]
    BY <1>3
  <1> HIDE DEF item
  <1>7. \A i \in Ids : pool'[i] = IF i = id THEN item ELSE pool[i]
    BY <1>5, <1>6, PoolBecomes DEF Typed
  <1>8. \A i \in Ids : pool'[i].gen = pool[i].gen /\ pool'[i].connected = pool[i].connected
    BY <1>5, <1>7
  <1>9. \A i \in Ids, e \in Bufs : ~BeingCleared(i, e)
    BY <1>2 DEF BeingCleared
  <1>10. \A i \in Ids, e \in Bufs : i # id \/ e # b =>
            /\ e \in pool'[i].dequeued <=> e \in pool[i].dequeued
            /\ pool'[i].token[e] = pool[i].token[e]
            /\ BeingCleared(i, e) => BeingCleared(i, e)'
    BY <1>5, <1>7, <1>9
  <1>11. BeingCleared(id, b)'
    BY <1>1, <1>2, <1>3, <1>8 DEF BeingCleared
  <1>12. /\ \A c \in Consumers, i \in Ids, e \in Bufs : Claims(c, i, e)' <=> Claims(c, i, e)
         /\ \A c \in Consumers, i \in Ids : Uses(c, i)' <=> Uses(c, i)
         /\ \A c \in Consumers, i \in Ids, e \in Bufs : shadow'[c][i][e].gen \in {0, pool[i].gen}
         /\ DeadAreGone' /\ HeldHasShadow' /\ AcquiredIsHeld' /\ CallsAreAlone'
    BY <1>4, <1>8, SameClaims
  <1>13. \A c \in Consumers : ~Claims(c, id, b)'
    <2> SUFFICES ASSUME NEW c \in Consumers, Claims(c, id, b) PROVE FALSE
      BY <1>12
    <2>1. c = reap.who
      BY <1>3, <1>9 DEF Sound, ClaimsAreOut
    <2>2. c \in dead
      BY <1>2, <2>1 DEF Sound, ObserversOfDead
    <2>3. Uses(c, id)
      BY NoUseNoClaim
    <2> QED BY <2>2, <2>3, DeadUseNothing
  <1>14. /\ GensDiffer' /\ GensKnown' /\ ShadowsFit' /\ UsersConnected'
         /\ ClaimsAreOut' /\ OneClaimant' /\ SlotsMatch'
    BY <1>4, <1>8, <1>10, <1>11, <1>12, <1>13, BufferFreed
  <1>15. ObserversOfDead'
    BY <1>2, <1>3, <1>4 DEF Sound, ObserversOfDead
  <1> QED BY <1>12, <1>14, <1>15 DEF Sound

(* It clears the slot: of a buffer that is free, or that is yet to get one,  *)
(* else it is a mishap.                                                      *)
LEMMA ReapClearsSound ==
    ASSUME Typed, Typed', Sound, LockSound, ReapClears, mishaps' = {}
    PROVE  Sound'
  <1>1. /\ reap \in Reaps /\ reap # Idle /\ reap.at \in {"clear", "again"}
        /\ reap.gen = pool[reap.id].gen
    BY Types, IdleCall DEF ReapClears, Typed, Reaping
  <1>2. PICK id \in Ids, b \in Bufs : id = reap.id /\ b = reap.buf /\ pool[id] \in Pool
    BY <1>1, ReapFields, Types DEF Typed
  <1>3. b \notin pool[id].dequeued \/ Slotless(id, b)
    BY <1>2 DEF ReapClears
  <1>4. UNCHANGED <<allocs, mLock, dead, obits, clientVars>>
    BY DEF ReapClears
  <1> DEFINE item == [pool[id] EXCEPT !.token[b] = Nobody]
  <1>5. /\ item \in Pool /\ item.gen = pool[id].gen /\ item.connected = pool[id].connected
        /\ item.dequeued = pool[id].dequeued
        /\ \A d \in Bufs : item.token[d] = IF d = b THEN Nobody ELSE pool[id].token[d]
    BY <1>2, TakenBack
  <1>6. pool' = [pool EXCEPT ![id] = item]
    BY <1>2 DEF ReapClears
  <1> HIDE DEF item
  <1>7. \A i \in Ids : pool'[i] = IF i = id THEN item ELSE pool[i]
    BY <1>5, <1>6, PoolBecomes DEF Typed
  <1>8. \A i \in Ids : pool'[i].gen = pool[i].gen /\ pool'[i].connected = pool[i].connected
    BY <1>5, <1>7
  <1>9. \A i \in Ids, e \in Bufs : i # id \/ e # b => ~BeingCleared(i, e)
    BY <1>2 DEF BeingCleared
  <1>10. \A i \in Ids, e \in Bufs : i # id \/ e # b =>
            /\ e \in pool'[i].dequeued <=> e \in pool[i].dequeued
            /\ pool'[i].token[e] = pool[i].token[e]
            /\ BeingCleared(i, e) => BeingCleared(i, e)'
    BY <1>5, <1>7, <1>9
  <1>11. \/ b \in pool'[id].dequeued <=> pool'[id].token[b] # Nobody
         \/ Slotless(id, b)'
    BY <1>3, <1>4, <1>5, <1>7, LockStays
  <1>12. /\ \A c \in Consumers, i \in Ids, e \in Bufs : Claims(c, i, e)' <=> Claims(c, i, e)
         /\ \A c \in Consumers, i \in Ids : Uses(c, i)' <=> Uses(c, i)
         /\ \A c \in Consumers, i \in Ids, e \in Bufs : shadow'[c][i][e].gen \in {0, pool[i].gen}
         /\ DeadAreGone' /\ HeldHasShadow' /\ AcquiredIsHeld' /\ CallsAreAlone'
    BY <1>4, <1>8, SameClaims
  <1>13. \A c \in Consumers : ~Claims(c, id, b)'
    BY <1>3, <1>12, FreeIsUnclaimed, SlotlessUnclaimed
  <1>14. /\ GensDiffer' /\ GensKnown' /\ ShadowsFit' /\ UsersConnected'
         /\ ClaimsAreOut' /\ OneClaimant' /\ SlotsMatch'
    BY <1>4, <1>8, <1>10, <1>11, <1>12, <1>13, BufferFreed
  <1>15. ObserversOfDead'
    <2>1. reap'.who = reap.who
      BY <1>1, ReapFields DEF ReapClears, Reap
    <2>2. reap.who \in dead
      BY <1>1 DEF Sound, ObserversOfDead
    <2> QED BY <1>4, <2>1, <2>2 DEF Sound, ObserversOfDead
  <1> QED BY <1>12, <1>14, <1>15 DEF Sound

-----------------------------------------------------------------------------
(* A pool is new: of an id nobody uses, with a number nobody holds.          *)

LEMMA AllocSound ==
    ASSUME Typed, Typed', Sound, NEW p \in Producers, Alloc(p)
    PROVE  Sound'
  <1>1. /\ pool' = pool /\ allocs' = allocs + 1 /\ mLock = Idle /\ UNCHANGED clientVars
        /\ UNCHANGED <<dead, obits, reap>>
    BY DEF Alloc, deathVars
  <1>2. ObserversOfDead'
    BY <1>1 DEF Sound, ObserversOfDead
  <1>3. \A id \in Ids, b \in Bufs : BeingCleared(id, b) => BeingCleared(id, b)'
    BY <1>1 DEF BeingCleared
  <1> QED BY <1>1, <1>2, <1>3, SameClients

LEMMA AllocAddsSound ==
    ASSUME Typed, Typed', Sound, LockSound, AllocAdds
    PROVE  Sound'
  <1>1. /\ UNCHANGED <<allocs, dead, obits, reap, pc, shadow, held>>
        /\ mLock.at = "alloc" /\ mLock' = Idle
    BY DEF AllocAdds, deathVars, clientVars
  <1>2. PICK g \in Gens : g = allocs /\ g # 0
    BY <1>1, Types DEF Gens, Typed, LockSound, AllocSafe
  <1>3. PICK id \in Ids, p \in Producers : id = mLock.id /\ p = mLock.who
    BY <1>1, Types, LockFields DEF Typed
  <1>4. pool[id].gen = 0
    BY <1>1, <1>3 DEF LockSound, AllocSafe
  <1> DEFINE item == NewPool(g, p)
  <1>5. /\ item \in Pool /\ item.gen = g /\ item.dequeued = {}
        /\ \A b \in Bufs : item.token[b] = Nobody
    BY Allocated
  <1>6. pool' = [pool EXCEPT ![id] = item]
    BY <1>2, <1>3 DEF AllocAdds
  <1> HIDE DEF item
  <1>7. \A i \in Ids : pool'[i] = IF i = id THEN item ELSE pool[i]
    BY <1>4, <1>5, <1>6, PoolBecomes DEF Typed
  <1>8. \A i \in Ids : pool[i].gen # g
    BY <1>1, <1>2 DEF LockSound, AllocSafe
  <1>9. \A c \in Consumers : ~Uses(c, id)
    BY <1>4, Unconnected
  <1>10. \A c \in Consumers, b \in Bufs : ~(held[c][g][b] > 0)
    BY <1>8 DEF Sound, HeldHasShadow
  <1>11. ASSUME NEW c \in Consumers, NEW i \in Ids, NEW b \in Bufs
         PROVE  /\ Requests(c, i, b)' <=> Requests(c, i, b)
                /\ Gives(c, i, b)' <=> Gives(c, i, b)
                /\ HoldsOf(c, i, b)' <=> HoldsOf(c, i, b)
                /\ Claims(c, i, b)' => i # id /\ Claims(c, i, b)
    <2>1. /\ Requests(c, i, b)' <=> Requests(c, i, b)
          /\ Gives(c, i, b)' <=> Gives(c, i, b)
      BY <1>1 DEF Requests, Gives
    <2>2. HoldsOf(c, i, b)' <=> HoldsOf(c, i, b)
      <3>1. CASE i = id
        BY <1>1, <1>4, <1>5, <1>7, <1>10, <3>1 DEF HoldsOf
      <3>2. CASE i # id
        BY <1>1, <1>7, <3>2 DEF HoldsOf
      <3> QED BY <3>1, <3>2
    <2>3. ~Claims(c, id, b)
      BY <1>4, <1>9, NoUseNoClaim
    <2> QED BY <2>1, <2>2, <2>3 DEF Claims
  <1>12. \A c \in Consumers, i \in Ids : Uses(c, i)' => i # id /\ Uses(c, i)
    BY <1>1, <1>9 DEF Uses
  <1>13. \A c \in Consumers, i \in Ids, b \in Bufs : shadow[c][i][b].gen # 0 => i # id
    BY <1>9 DEF Uses
  <1>14. \A i \in Ids, b \in Bufs : i # id => (BeingCleared(i, b) => BeingCleared(i, b)')
    BY <1>1, <1>7 DEF BeingCleared
  <1>15. GensDiffer'
    BY <1>5, <1>7, <1>8 DEF Sound, GensDiffer
  <1>16. GensKnown'
    BY <1>1, <1>2, <1>5, <1>7, Types DEF Sound, GensKnown, Typed
  <1>17. DeadAreGone' /\ ObserversOfDead'
    BY <1>1 DEF Sound, DeadAreGone, ObserversOfDead
  <1>18. ShadowsFit'
    BY <1>1, <1>7, <1>13 DEF Sound, ShadowsFit
  <1>19. HeldHasShadow'
    <2> SUFFICES ASSUME NEW c \in Consumers, NEW h \in Gens, NEW b \in Bufs, held[c][h][b] > 0
                 PROVE  /\ held[c][h][b] = 1
                        /\ \E i \in Ids : pool'[i].gen = h /\ shadow[c][i][b].gen = h
      BY <1>1 DEF HeldHasShadow
    <2>1. held[c][h][b] = 1
      BY DEF Sound, HeldHasShadow
    <2>2. PICK i \in Ids : pool[i].gen = h /\ shadow[c][i][b].gen = h
      BY DEF Sound, HeldHasShadow
    <2>3. h # 0
      BY Types DEF Gens, Typed
    <2> QED BY <1>7, <1>13, <2>1, <2>2, <2>3
  <1>20. AcquiredIsHeld'
    BY <1>1, <1>11 DEF Sound, AcquiredIsHeld
  <1>21. UsersConnected'
    BY <1>7, <1>12 DEF Sound, UsersConnected
  <1>22. CallsAreAlone'
    BY <1>11 DEF Sound, CallsAreAlone
  <1>23. ClaimsAreOut'
    <2> SUFFICES ASSUME NEW c \in Consumers, NEW i \in Ids, NEW b \in Bufs, Claims(c, i, b)'
                 PROVE  /\ b \in pool'[i].dequeued
                        /\ pool'[i].token[b] = c \/ BeingCleared(i, b)'
      BY DEF ClaimsAreOut
    <2>1. i # id /\ Claims(c, i, b)
      BY <1>11
    <2>2. b \in pool[i].dequeued /\ (pool[i].token[b] = c \/ BeingCleared(i, b))
      BY <2>1 DEF Sound, ClaimsAreOut
    <2> QED BY <1>7, <1>14, <2>1, <2>2
  <1>24. OneClaimant'
    BY <1>11 DEF Sound, OneClaimant
  <1>25. SlotsMatch'
    <2> SUFFICES ASSUME NEW i \in Ids, NEW b \in Bufs, pool'[i].gen # 0
                 PROVE  \/ b \in pool'[i].dequeued <=> pool'[i].token[b] # Nobody
                        \/ BeingCleared(i, b)'
      BY DEF SlotsMatch
    <2>0. ~Slotless(i, b)
      BY <1>1 DEF Slotless
    <2>1. CASE i = id
      BY <1>5, <1>7, <2>1
    <2>2. CASE i # id
      <3>1. pool'[i] = pool[i]
        BY <1>7, <2>2
      <3>2. (b \in pool[i].dequeued <=> pool[i].token[b] # Nobody) \/ BeingCleared(i, b)
        BY <2>0, <3>1 DEF Sound, SlotsMatch
      <3> QED BY <1>14, <2>2, <3>1, <3>2
    <2> QED BY <2>1, <2>2
  <1> QED BY <1>15, <1>16, <1>17, <1>18, <1>19, <1>20, <1>21, <1>22, <1>23, <1>24, <1>25 DEF Sound

(* A request turns the claim of a grant into one of a holder. *)
LEMMA RequestSound ==
    ASSUME Typed, Typed', Sound, NEW c \in Consumers, Request(c)
    PROVE  Sound'
  <1>1. /\ pool' = pool /\ UNCHANGED <<allocs, mLock, dead, obits, reap>>
        /\ c \notin dead /\ pc[c].at = "request"
    BY DEF Request, serverVars, deathVars, Alive
  <1>2. PICK id \in Ids, b \in Bufs : id = pc[c].id /\ b = pc[c].buf
    BY <1>1, CallFields, Types DEF Typed
  <1>3. Requests(c, id, b) /\ Uses(c, id) /\ pool[id].gen # 0
    BY <1>1, <1>2 DEF Requests, Uses, Sound, UsersConnected
  <1>4. PICK g \in Gens : g = pool[id].gen
    BY <1>3, Types DEF Typed
  <1>5. held[c][g][b] = 0
    <2>1. held[c][g][b] \in Nat
      BY <1>4, Types DEF Typed
    <2>2. ~HoldsOf(c, id, b)
      BY <1>3 DEF Sound, CallsAreAlone
    <2> QED BY <1>3, <1>4, <2>1, <2>2 DEF HoldsOf
  <1>6. \A d \in Consumers, h \in Gens, e \in Bufs :
           held'[d][h][e] = IF d = c /\ h = g /\ e = b THEN 1 ELSE held[d][h][e]
    <2>1. held' = [held EXCEPT ![c][g][b] = held[c][g][b] + 1]
      BY <1>2, <1>3, <1>4 DEF Request, Take
    <2>2. held' = [held EXCEPT ![c][g][b] = 1]
      BY <1>5, <2>1
    <2> QED BY <2>2 DEF Typed, TypeOK
  <1>7. PICK s \in Shade : s = [gen |-> g, isAcquired |-> TRUE] /\ s.gen = g /\ s.isAcquired
    <2>1. g \in 0..MaxAllocs
      BY <1>4, Types DEF Typed
    <2>2. [gen |-> g, isAcquired |-> TRUE] \in Shade
      BY <2>1 DEF Shade
    <2> QED BY <2>2
  <1>8. \A d \in Consumers, i \in Ids, e \in Bufs :
           shadow'[d][i][e] = IF d = c /\ i = id /\ e = b THEN s ELSE shadow[d][i][e]
    <2>1. shadow' = [shadow EXCEPT ![c][id][b] = s]
      BY <1>2, <1>3, <1>4, <1>7 DEF Request
    <2> QED BY <2>1 DEF Typed, TypeOK
  <1>9. pc'[c] = Idle /\ \A d \in Consumers : d # c => pc'[d] = pc[d]
    BY DEF Request, Typed, TypeOK
  <1>10. \A d \in Consumers, i \in Ids, e \in Bufs :
            /\ Requests(d, i, e)' => d # c /\ Requests(d, i, e)
            /\ Gives(d, i, e)' => d # c /\ Gives(d, i, e)
    BY <1>9, IdleCall DEF Requests, Gives
  <1>11. \A d \in Consumers, i \in Ids, e \in Bufs :
            /\ HoldsOf(d, i, e) => HoldsOf(d, i, e)'
            /\ HoldsOf(d, i, e)' => HoldsOf(d, i, e) \/ (d = c /\ i = id /\ e = b)
    <2>1. \A i \in Ids : pool[i].gen # 0 => pool[i].gen \in Gens /\ (pool[i].gen = g => i = id)
      BY <1>3, <1>4, Types DEF Typed, Sound, GensDiffer
    <2> QED BY <1>1, <1>6, <2>1 DEF HoldsOf
  <1>12. HoldsOf(c, id, b)'
    BY <1>1, <1>3, <1>4, <1>6 DEF HoldsOf
  <1>13. \A d \in Consumers, i \in Ids, e \in Bufs :
            /\ Claims(d, i, e)' => Claims(d, i, e)
            /\ shadow'[d][i][e].gen \in {0, pool[i].gen}
    <2>1. \A d \in Consumers, i \in Ids, e \in Bufs : Claims(d, i, e)' => Claims(d, i, e)
      BY <1>3, <1>10, <1>11 DEF Claims
    <2>2. \A d \in Consumers, i \in Ids, e \in Bufs : shadow'[d][i][e].gen \in {0, pool[i].gen}
      BY <1>4, <1>7, <1>8 DEF Sound, ShadowsFit
    <2> QED BY <2>1, <2>2
  <1>14. \A d \in Consumers, i \in Ids : Uses(d, i)' => Uses(d, i)
    <2> SUFFICES ASSUME NEW d \in Consumers, NEW i \in Ids, Uses(d, i)', d # c \/ i # id
                 PROVE  Uses(d, i)
      BY <1>3
    <2>1. \A e \in Bufs : shadow'[d][i][e] = shadow[d][i][e]
      BY <1>8
    <2> QED BY <1>9, <2>1, IdleCall DEF Uses
  <1>15. \A i \in Ids, e \in Bufs : BeingCleared(i, e) => BeingCleared(i, e)'
    BY <1>1 DEF BeingCleared
  <1>16. /\ GensDiffer' /\ GensKnown' /\ ShadowsFit' /\ UsersConnected'
         /\ ClaimsAreOut' /\ OneClaimant' /\ SlotsMatch'
    BY <1>1, <1>13, <1>14, <1>15, SamePools
  <1>17. DeadAreGone'
    BY <1>1, <1>6, <1>8, <1>9 DEF Sound, DeadAreGone
  <1>18. ObserversOfDead'
    BY <1>1 DEF Sound, ObserversOfDead
  <1>19. HeldHasShadow'
    <2> SUFFICES ASSUME NEW d \in Consumers, NEW h \in Gens, NEW e \in Bufs, held'[d][h][e] > 0
                 PROVE  /\ held'[d][h][e] = 1
                        /\ \E i \in Ids : pool[i].gen = h /\ shadow'[d][i][e].gen = h
      BY <1>1 DEF HeldHasShadow
    <2>1. CASE d = c /\ h = g /\ e = b
      BY <1>4, <1>6, <1>7, <1>8, <2>1
    <2>2. CASE ~(d = c /\ h = g /\ e = b)
      <3>1. held'[d][h][e] = held[d][h][e]
        BY <1>6, <2>2
      <3>2. held[d][h][e] = 1
        BY <3>1 DEF Sound, HeldHasShadow
      <3>3. PICK i \in Ids : pool[i].gen = h /\ shadow[d][i][e].gen = h
        BY <3>1 DEF Sound, HeldHasShadow
      <3>4. shadow'[d][i][e].gen = h
        BY <1>4, <1>7, <1>8, <3>3
      <3> QED BY <3>1, <3>2, <3>3, <3>4
    <2> QED BY <2>1, <2>2
  <1>20. AcquiredIsHeld'
    <2> SUFFICES ASSUME NEW d \in Consumers, NEW i \in Ids, NEW e \in Bufs,
                        shadow'[d][i][e].isAcquired
                 PROVE  HoldsOf(d, i, e)'
      BY DEF AcquiredIsHeld
    <2>1. CASE d = c /\ i = id /\ e = b
      BY <1>12, <2>1
    <2>2. CASE ~(d = c /\ i = id /\ e = b)
      <3>1. shadow'[d][i][e] = shadow[d][i][e]
        BY <1>8, <2>2
      <3> QED BY <1>11, <3>1 DEF Sound, AcquiredIsHeld
    <2> QED BY <2>1, <2>2
  <1>21. CallsAreAlone'
    BY <1>10, <1>11 DEF Sound, CallsAreAlone
  <1> QED BY <1>16, <1>17, <1>18, <1>19, <1>20, <1>21 DEF Sound

(* A buffer is dequeued: one that nobody claims...                           *)
LEMMA AcquireSound ==
    ASSUME Typed, Typed', Sound, NEW c \in Consumers, NEW id \in Ids, Acquire(c, id)
    PROVE  Sound'
  <1>1. UNCHANGED <<allocs, dead, obits, reap, clientVars>> /\ mLock = Idle
    BY DEF Acquire, deathVars
  <1>2. PICK b \in Grantable(id) :
           /\ pool' = [pool EXCEPT ![id].dequeued = @ \cup {b}]
           /\ mLock' = [at |-> "slot", who |-> c, id |-> id, buf |-> b]
    BY DEF Acquire
  <1>3. b \in Bufs /\ b \notin pool[id].dequeued
    BY <1>2 DEF Grantable
  <1> DEFINE item == [pool[id] EXCEPT !.dequeued = @ \cup {b}]
  <1>4. /\ item \in Pool /\ item.gen = pool[id].gen /\ item.connected = pool[id].connected
        /\ item.dequeued = pool[id].dequeued \cup {b} /\ item.token = pool[id].token
    BY <1>3, Dequeued, Types DEF Typed
  <1>5. pool' = [pool EXCEPT ![id] = item]
    BY <1>2
  <1> HIDE DEF item
  <1>6. \A i \in Ids : pool'[i] = IF i = id THEN item ELSE pool[i]
    BY <1>4, <1>5, PoolBecomes DEF Typed
  <1>7. \A i \in Ids : pool'[i].gen = pool[i].gen /\ pool'[i].connected = pool[i].connected
    BY <1>4, <1>6
  <1>8. \A i \in Ids, e \in Bufs : BeingCleared(i, e) => BeingCleared(i, e)'
    BY <1>1, <1>7 DEF BeingCleared
  <1>9. \A i \in Ids, e \in Bufs : i # id \/ e # b =>
            /\ e \in pool'[i].dequeued <=> e \in pool[i].dequeued
            /\ pool'[i].token[e] = pool[i].token[e]
            /\ BeingCleared(i, e) => BeingCleared(i, e)'
    BY <1>4, <1>6, <1>8
  <1>10. Slotless(id, b)' /\ \A i \in Ids, e \in Bufs : ~Slotless(i, e)
    BY <1>1, <1>2, Unlocked DEF Slotless
  <1>11. /\ \A d \in Consumers, i \in Ids, e \in Bufs : Claims(d, i, e)' <=> Claims(d, i, e)
         /\ \A d \in Consumers, i \in Ids : Uses(d, i)' <=> Uses(d, i)
         /\ \A d \in Consumers, i \in Ids, e \in Bufs : shadow'[d][i][e].gen \in {0, pool[i].gen}
         /\ DeadAreGone' /\ HeldHasShadow' /\ AcquiredIsHeld' /\ CallsAreAlone'
    BY <1>1, <1>7, SameClaims
  <1>12. \A d \in Consumers : ~Claims(d, id, b)'
    BY <1>3, <1>11, FreeIsUnclaimed
  <1>13. /\ GensDiffer' /\ GensKnown' /\ ShadowsFit' /\ UsersConnected'
         /\ ClaimsAreOut' /\ OneClaimant' /\ SlotsMatch'
    BY <1>1, <1>3, <1>7, <1>9, <1>10, <1>11, <1>12, BufferFreed
  <1>14. ObserversOfDead'
    BY <1>1 DEF Sound, ObserversOfDead
  <1> QED BY <1>11, <1>13, <1>14 DEF Sound

(* What is known of the call that holds the lock.                            *)
LEMMA Acquirer ==
    ASSUME Typed, LockSound, mLock.at \in {"slot", "connect"}
    PROVE  \E c \in Consumers, id \in Ids, b \in Bufs :
              /\ mLock = [at |-> mLock.at, who |-> c, id |-> id, buf |-> b]
              /\ mLock.who = c /\ mLock.id = id /\ mLock.buf = b /\ Acquiring(c, id)
              /\ pc[c] = Idle /\ pool[id] \in Pool /\ pool[id].gen # 0
              /\ b \in pool[id].dequeued /\ \A d \in Consumers : ~Claims(d, id, b)
              /\ \/ pool[id].token[b] = IF mLock.at = "slot" THEN Nobody ELSE c
                 \/ BeingCleared(id, b)
  <1>1. PICK c \in Consumers, id \in Ids, b \in Bufs :
              /\ mLock = [at |-> mLock.at, who |-> c, id |-> id, buf |-> b]
              /\ mLock.who = c /\ mLock.id = id /\ mLock.buf = b
    BY Types, LockFields DEF Typed
  <1>2. Acquiring(c, id)
    BY <1>1 DEF Acquiring
  <1>3. /\ pc[c] = Idle /\ pool[id].gen # 0
        /\ b \in pool[id].dequeued /\ \A d \in Consumers : ~Claims(d, id, b)
        /\ \/ pool[id].token[b] = IF mLock.at = "slot" THEN Nobody ELSE c
           \/ BeingCleared(id, b)
    BY <1>1, <1>2 DEF LockSound, AcquireSafe
  <1> QED BY <1>1, <1>2, <1>3, Types DEF Typed

(* ... it gets the slot of its owner...                                      *)
LEMMA AcquireSlotsSound ==
    ASSUME Typed, Typed', Sound, LockSound, AcquireSlots
    PROVE  Sound'
  <1>1. UNCHANGED <<allocs, dead, obits, reap, clientVars>> /\ mLock.at = "slot"
    BY DEF AcquireSlots, deathVars
  <1>2. PICK c \in Consumers, id \in Ids, b \in Bufs :
              /\ mLock.who = c /\ mLock.id = id /\ mLock.buf = b
              /\ pool[id] \in Pool /\ pool[id].gen # 0
              /\ b \in pool[id].dequeued /\ \A d \in Consumers : ~Claims(d, id, b)
    BY <1>1, Acquirer
  <1> DEFINE owner == Owner(pool[id], c, b)
             item == [pool[id] EXCEPT !.token[b] = owner]
  <1>3. owner \in Consumers
    BY <1>2, ItemFields DEF Owner
  <1>4. pool' = [pool EXCEPT ![id] = item]
    BY <1>2 DEF AcquireSlots
  <1> HIDE DEF owner
  <1>5. /\ item \in Pool /\ item.gen = pool[id].gen /\ item.connected = pool[id].connected
        /\ item.dequeued = pool[id].dequeued
        /\ \A e \in Bufs : item.token[e] = IF e = b THEN owner ELSE pool[id].token[e]
    BY <1>2, <1>3, Given
  <1> HIDE DEF item
  <1>6. \A i \in Ids : pool'[i] = IF i = id THEN item ELSE pool[i]
    BY <1>4, <1>5, PoolBecomes DEF Typed
  <1>7. \A i \in Ids : pool'[i].gen = pool[i].gen /\ pool'[i].connected = pool[i].connected
    BY <1>5, <1>6
  <1>8. \A i \in Ids, e \in Bufs : BeingCleared(i, e) => BeingCleared(i, e)'
    BY <1>1, <1>7 DEF BeingCleared
  <1>9. \A i \in Ids, e \in Bufs : i # id \/ e # b =>
            /\ e \in pool'[i].dequeued <=> e \in pool[i].dequeued
            /\ pool'[i].token[e] = pool[i].token[e]
            /\ BeingCleared(i, e) => BeingCleared(i, e)'
    BY <1>5, <1>6, <1>8
  <1>10. \A i \in Ids, e \in Bufs : i # id \/ e # b => ~Slotless(i, e)
    BY <1>2 DEF Slotless
  <1>11. b \in pool'[id].dequeued /\ pool'[id].token[b] # Nobody
    BY <1>2, <1>3, <1>5, <1>6, GuiExtAssumption DEF GuiExtAssumption
  <1>12. /\ \A d \in Consumers, i \in Ids, e \in Bufs : Claims(d, i, e)' <=> Claims(d, i, e)
         /\ \A d \in Consumers, i \in Ids : Uses(d, i)' <=> Uses(d, i)
         /\ \A d \in Consumers, i \in Ids, e \in Bufs : shadow'[d][i][e].gen \in {0, pool[i].gen}
         /\ DeadAreGone' /\ HeldHasShadow' /\ AcquiredIsHeld' /\ CallsAreAlone'
    BY <1>1, <1>7, SameClaims
  <1>13. /\ GensDiffer' /\ GensKnown' /\ ShadowsFit' /\ UsersConnected'
         /\ ClaimsAreOut' /\ OneClaimant' /\ SlotsMatch'
    BY <1>1, <1>2, <1>7, <1>9, <1>10, <1>11, <1>12, BufferFreed
  <1>14. ObserversOfDead'
    BY <1>1 DEF Sound, ObserversOfDead
  <1> QED BY <1>12, <1>13, <1>14 DEF Sound

(* ... and it becomes the claim of the consumer, if that still lives.        *)
LEMMA AcquireConnectsSound ==
    ASSUME Typed, Typed', Sound, LockSound, AcquireConnects
    PROVE  Sound'
  <1>1. /\ UNCHANGED <<allocs, dead, obits, reap, shadow>>
        /\ mLock.at = "connect" /\ mLock' = Idle
    BY DEF AcquireConnects, deathVars
  <1>2. PICK c \in Consumers, id \in Ids, b \in Bufs :
              /\ mLock.who = c /\ mLock.id = id /\ mLock.buf = b
              /\ pc[c] = Idle /\ pool[id] \in Pool /\ pool[id].gen # 0
              /\ b \in pool[id].dequeued /\ \A d \in Consumers : ~Claims(d, id, b)
              /\ pool[id].token[b] = c \/ BeingCleared(id, b)
    BY <1>1, Acquirer
  <1>3. /\ pool' = [pool EXCEPT ![id].connected = TRUE]
        /\ \/ UNCHANGED <<pc, held>>
           \/ /\ c \notin dead
              /\ pc' = [pc EXCEPT ![c] = [at |-> "request", id |-> id, buf |-> b]]
              /\ held' = held
           \/ /\ c \notin dead /\ shadow[c][id][b].gen # 0
              /\ held' = [held EXCEPT ![c][shadow[c][id][b].gen][b] = @ + 1]
              /\ pc' = pc
    BY <1>2 DEF AcquireConnects, Take, Alive
  <1> DEFINE item == [pool[id] EXCEPT !.connected = TRUE]
  <1>4. /\ item \in Pool /\ item.gen = pool[id].gen /\ item.connected
        /\ item.dequeued = pool[id].dequeued /\ item.token = pool[id].token
    BY <1>2, Linked
  <1>5. pool' = [pool EXCEPT ![id] = item]
    BY <1>3
  <1> HIDE DEF item
  <1>6. \A i \in Ids : pool'[i] = IF i = id THEN item ELSE pool[i]
    BY <1>4, <1>5, PoolBecomes DEF Typed
  <1>7. \A i \in Ids : /\ pool'[i].gen = pool[i].gen /\ pool'[i].dequeued = pool[i].dequeued
                       /\ pool'[i].token = pool[i].token
    BY <1>4, <1>6
  <1>10. \A i \in Ids, e \in Bufs : BeingCleared(i, e) => BeingCleared(i, e)'
    BY <1>1, <1>7 DEF BeingCleared
  <1>11. \A d \in Consumers : ~Claims(d, id, b)
    BY <1>2
  <1>13. PICK g \in Gens : g = pool[id].gen
    BY <1>2, Types DEF Typed
  <1>14. \A i \in Ids : pool[i].gen # 0 => pool[i].gen \in Gens /\ (pool[i].gen = g => i = id)
    BY <1>2, <1>13, Types DEF Typed, Sound, GensDiffer
  <1>15. held[c][g][b] = 0
    <2>1. held[c][g][b] \in Nat
      BY Types DEF Typed
    <2>2. ~HoldsOf(c, id, b)
      BY <1>11 DEF Claims
    <2> QED BY <1>2, <1>13, <2>1, <2>2 DEF HoldsOf
  (* What the ways to be granted a buffer have in common. *)
  <1>16. /\ \A d \in Consumers, i \in Ids, e \in Bufs :
               /\ Claims(d, i, e)' => Claims(d, i, e) \/ (d = c /\ i = id /\ e = b)
               /\ HoldsOf(d, i, e) => HoldsOf(d, i, e)'
         /\ \A d \in Consumers, i \in Ids : Uses(d, i)' => Uses(d, i) \/ i = id
         /\ CallsAreAlone' /\ HeldHasShadow' /\ DeadAreGone'
    <2>0. CASE UNCHANGED <<pc, held>>
      <3>1. \A d \in Consumers, i \in Ids, e \in Bufs :
               /\ Requests(d, i, e)' <=> Requests(d, i, e)
               /\ Gives(d, i, e)' <=> Gives(d, i, e)
               /\ HoldsOf(d, i, e)' <=> HoldsOf(d, i, e)
        BY <1>7, <2>0 DEF Requests, Gives, HoldsOf
      <3>2. \A d \in Consumers, i \in Ids, e \in Bufs : Claims(d, i, e)' <=> Claims(d, i, e)
        BY <3>1 DEF Claims
      <3>3. \A d \in Consumers, i \in Ids : Uses(d, i)' <=> Uses(d, i)
        BY <1>1, <2>0 DEF Uses
      <3>4. CallsAreAlone'
        BY <3>1 DEF Sound, CallsAreAlone
      <3>5. HeldHasShadow'
        BY <1>1, <1>7, <2>0 DEF Sound, HeldHasShadow
      <3>6. DeadAreGone'
        BY <1>1, <2>0 DEF Sound, DeadAreGone
      <3> QED BY <3>1, <3>2, <3>3, <3>4, <3>5, <3>6
    <2>1. CASE /\ c \notin dead
               /\ pc' = [pc EXCEPT ![c] = [at |-> "request", id |-> id, buf |-> b]]
               /\ held' = held
      <3>1. /\ pc'[c].at = "request" /\ pc'[c].id = id /\ pc'[c].buf = b
            /\ \A d \in Consumers : d # c => pc'[d] = pc[d]
        BY <2>1 DEF Typed, TypeOK
      <3>2. \A d \in Consumers, i \in Ids, e \in Bufs : HoldsOf(d, i, e)' <=> HoldsOf(d, i, e)
        BY <1>7, <2>1 DEF HoldsOf
      <3>3. \A d \in Consumers, i \in Ids, e \in Bufs :
               /\ Requests(d, i, e)' => Requests(d, i, e) \/ (d = c /\ i = id /\ e = b)
               /\ Gives(d, i, e)' => Gives(d, i, e)
        BY <3>1 DEF Requests, Gives
      <3>4. \A d \in Consumers, i \in Ids, e \in Bufs :
               Claims(d, i, e)' => Claims(d, i, e) \/ (d = c /\ i = id /\ e = b)
        BY <3>2, <3>3 DEF Claims
      <3>5. \A d \in Consumers, i \in Ids : Uses(d, i)' => Uses(d, i) \/ i = id
        BY <1>1, <3>1 DEF Uses
      <3>6. CallsAreAlone'
        <4>1. ~HoldsOf(c, id, b)
          BY <1>11 DEF Claims
        <4> QED BY <3>2, <3>3, <4>1 DEF Sound, CallsAreAlone
      <3>7. HeldHasShadow'
        BY <1>1, <1>7, <2>1 DEF Sound, HeldHasShadow
      <3>8. DeadAreGone'
        BY <1>1, <2>1, <3>1 DEF Sound, DeadAreGone
      <3> QED BY <3>2, <3>4, <3>5, <3>6, <3>7, <3>8
    <2>2. CASE /\ c \notin dead /\ shadow[c][id][b].gen # 0
               /\ held' = [held EXCEPT ![c][shadow[c][id][b].gen][b] = @ + 1]
               /\ pc' = pc
      <3>1. shadow[c][id][b].gen = g
        BY <1>13, <2>2 DEF Sound, ShadowsFit
      <3>2. \A d \in Consumers, h \in Gens, e \in Bufs :
               held'[d][h][e] = IF d = c /\ h = g /\ e = b THEN 1 ELSE held[d][h][e]
        <4>1. held' = [held EXCEPT ![c][g][b] = held[c][g][b] + 1]
          BY <2>2, <3>1
        <4>2. held' = [held EXCEPT ![c][g][b] = 1]
          BY <1>15, <4>1
        <4> QED BY <4>2 DEF Typed, TypeOK
      <3>3. \A d \in Consumers, i \in Ids, e \in Bufs :
               /\ HoldsOf(d, i, e) => HoldsOf(d, i, e)'
               /\ HoldsOf(d, i, e)' => HoldsOf(d, i, e) \/ (d = c /\ i = id /\ e = b)
        BY <1>7, <1>14, <3>2 DEF HoldsOf
      <3>4. \A d \in Consumers, i \in Ids, e \in Bufs :
               /\ Requests(d, i, e)' => Requests(d, i, e) /\ d # c
               /\ Gives(d, i, e)' => Gives(d, i, e) /\ d # c
        BY <1>2, <2>2, IdleCall DEF Requests, Gives
      <3>5. \A d \in Consumers, i \in Ids, e \in Bufs :
               Claims(d, i, e)' => Claims(d, i, e) \/ (d = c /\ i = id /\ e = b)
        BY <3>3, <3>4 DEF Claims
      <3>6. \A d \in Consumers, i \in Ids : Uses(d, i)' => Uses(d, i)
        BY <1>1, <2>2 DEF Uses
      <3>7. CallsAreAlone'
        BY <3>3, <3>4 DEF Sound, CallsAreAlone
      <3>8. HeldHasShadow'
        <4> SUFFICES ASSUME NEW d \in Consumers, NEW h \in Gens, NEW e \in Bufs,
                            held'[d][h][e] > 0
                     PROVE  /\ held'[d][h][e] = 1
                            /\ \E i \in Ids : pool[i].gen = h /\ shadow[d][i][e].gen = h
          BY <1>1, <1>7 DEF HeldHasShadow
        <4>1. CASE d = c /\ h = g /\ e = b
          BY <1>13, <3>1, <3>2, <4>1
        <4>2. CASE ~(d = c /\ h = g /\ e = b)
          <5>1. held'[d][h][e] = held[d][h][e]
            BY <3>2, <4>2
          <5> QED BY <5>1 DEF Sound, HeldHasShadow
        <4> QED BY <4>1, <4>2
      <3>9. DeadAreGone'
        <4>1. c \notin dead /\ pc' = pc
          BY <2>2
        <4>2. \A d \in Consumers \cap dead, h \in Gens, e \in Bufs : held'[d][h][e] = held[d][h][e]
          BY <3>2, <4>1
        <4> QED BY <1>1, <4>1, <4>2 DEF Sound, DeadAreGone
      <3> QED BY <3>3, <3>5, <3>6, <3>7, <3>8, <3>9, Zenon
    <2> QED BY <1>3, <2>0, <2>1, <2>2
  <1>17. GensDiffer' /\ GensKnown'
    BY <1>1, <1>7 DEF Sound, GensDiffer, GensKnown
  <1>18. ObserversOfDead'
    BY <1>1 DEF Sound, ObserversOfDead
  <1>19. ShadowsFit'
    BY <1>1, <1>7 DEF Sound, ShadowsFit
  <1>20. AcquiredIsHeld'
    BY <1>1, <1>16 DEF Sound, AcquiredIsHeld
  <1>21. UsersConnected'
    BY <1>2, <1>4, <1>6, <1>7, <1>16 DEF Sound, UsersConnected
  <1>22. ClaimsAreOut'
    <2> SUFFICES ASSUME NEW d \in Consumers, NEW i \in Ids, NEW e \in Bufs, Claims(d, i, e)'
                 PROVE  /\ e \in pool'[i].dequeued
                        /\ pool'[i].token[e] = d \/ BeingCleared(i, e)'
      BY DEF ClaimsAreOut
    <2>1. CASE i = id /\ e = b
      <3>1. d = c
        BY <1>11, <1>16, <2>1
      <3> QED BY <1>2, <1>7, <1>10, <2>1, <3>1
    <2>2. CASE i # id \/ e # b
      <3>1. Claims(d, i, e)
        BY <1>16, <2>2
      <3>2. e \in pool[i].dequeued /\ (pool[i].token[e] = d \/ BeingCleared(i, e))
        BY <3>1 DEF Sound, ClaimsAreOut
      <3> QED BY <1>7, <1>10, <3>2
    <2> QED BY <2>1, <2>2
  <1>23. OneClaimant'
    BY <1>11, <1>16 DEF Sound, OneClaimant
  <1>24. SlotsMatch'
    <2>1. \A i \in Ids, e \in Bufs : ~Slotless(i, e)
      BY <1>1 DEF Slotless
    <2> QED BY <1>7, <1>10, <2>1 DEF Sound, SlotsMatch
  <1> QED BY <1>16, <1>17, <1>18, <1>19, <1>20, <1>21, <1>22, <1>23, <1>24 DEF Sound

LEMMA MishapsAreNoted ==
    ASSUME \/ ReapLost
           \/ \E c \in Consumers, id \in Ids : AcquireBackup(c, id)
    PROVE  mishaps' # {}
  BY DEF ReapLost, AcquireBackup

-----------------------------------------------------------------------------
(* What the call that holds the lock has done so far stays done.             *)

LEMMA LockFree ==
    ASSUME mLock' = Idle
    PROVE  LockSound'
  BY IdleCall DEF LockSound, AllocSafe, AcquireSafe, Acquiring

LEMMA AllocLocks ==
    ASSUME Typed, Sound, NEW p \in Producers, Alloc(p)
    PROVE  LockSound'
  <1>1. PICK id \in PoolId : mLock' = [at |-> "alloc", who |-> p, id |-> id]
    BY DEF Alloc
  <1>2. id \in Ids /\ pool[id].gen = 0
    BY DEF PoolId, Live
  <1>3. pool' = pool /\ allocs' = allocs + 1 /\ allocs < MaxAllocs
    BY DEF Alloc
  <1>4. allocs' \in Gens /\ \A i \in Ids : pool[i].gen # allocs'
    BY <1>3, Types DEF Typed, Gens, Sound, GensKnown
  <1> QED BY <1>1, <1>2, <1>3, <1>4 DEF LockSound, AllocSafe, AcquireSafe, Acquiring

LEMMA AcquireLocks ==
    ASSUME Typed, Sound, NEW c \in Consumers, NEW id \in Ids, Acquire(c, id)
    PROVE  LockSound'
  <1>1. UNCHANGED <<dead, reap, clientVars>> /\ mLock = Idle /\ c \notin dead /\ pc[c] = Idle
    BY DEF Acquire, deathVars, Ready, Alive
  <1>2. PICK b \in Grantable(id) :
           /\ pool' = [pool EXCEPT ![id].dequeued = @ \cup {b}]
           /\ mLock' = [at |-> "slot", who |-> c, id |-> id, buf |-> b]
    BY DEF Acquire
  <1>3. b \in Bufs /\ b \notin pool[id].dequeued /\ pool[id].gen # 0
    BY <1>2 DEF Grantable
  <1> DEFINE item == [pool[id] EXCEPT !.dequeued = @ \cup {b}]
  <1>4. /\ item \in Pool /\ item.gen = pool[id].gen /\ item.token = pool[id].token
        /\ item.dequeued = pool[id].dequeued \cup {b}
    BY <1>3, Dequeued, Types DEF Typed
  <1>5. pool' = [pool EXCEPT ![id] = item]
    BY <1>2
  <1> HIDE DEF item
  <1>6. \A i \in Ids : pool'[i] = IF i = id THEN item ELSE pool[i]
    BY <1>4, <1>5, PoolBecomes DEF Typed
  <1>7. \A i \in Ids : pool'[i].gen = pool[i].gen
    BY <1>4, <1>6
  <1>8. pool'[id].gen # 0 /\ b \in pool'[id].dequeued /\ pool'[id].token[b] = pool[id].token[b]
    BY <1>3, <1>4, <1>6
  <1>9. \A d \in Consumers : ~Claims(d, id, b)'
    BY <1>1, <1>3, <1>7, FreeIsUnclaimed, SameClaims
  <1>10. pool'[id].token[b] = Nobody \/ BeingCleared(id, b)'
    <2>1. pool[id].token[b] = Nobody \/ BeingCleared(id, b)
      BY <1>1, <1>3, Unlocked DEF Sound, SlotsMatch
    <2> QED BY <1>1, <1>7, <1>8, <2>1 DEF BeingCleared
  <1>11. ~(reap'.at # "idle" /\ reap'.who = c)
    BY <1>1 DEF Sound, ObserversOfDead
  <1>12. pc'[c] = Idle
    BY <1>1 DEF clientVars
  <1> QED BY <1>2, <1>8, <1>9, <1>10, <1>11, <1>12 DEF LockSound, AllocSafe, AcquireSafe, Acquiring

LEMMA SlotsLocks ==
    ASSUME Typed, Sound, LockSound, AcquireSlots
    PROVE  LockSound'
  <1>1. UNCHANGED <<dead, reap, clientVars>> /\ mLock.at = "slot"
    BY DEF AcquireSlots, deathVars
  <1>2. PICK c \in Consumers, id \in Ids, b \in Bufs :
              /\ mLock = [at |-> mLock.at, who |-> c, id |-> id, buf |-> b]
              /\ mLock.who = c /\ mLock.id = id /\ mLock.buf = b /\ Acquiring(c, id)
              /\ pc[c] = Idle /\ pool[id] \in Pool /\ pool[id].gen # 0
              /\ b \in pool[id].dequeued /\ \A d \in Consumers : ~Claims(d, id, b)
              /\ pool[id].token[b] = Nobody \/ BeingCleared(id, b)
    BY <1>1, Acquirer
  <1> DEFINE owner == Owner(pool[id], c, b)
             item == [pool[id] EXCEPT !.token[b] = owner]
  <1>3. owner \in Consumers /\ (owner = c \/ BeingCleared(id, b))
    BY <1>2, ItemFields DEF Owner
  <1>4. pool' = [pool EXCEPT ![id] = item]
    BY <1>2 DEF AcquireSlots
  <1> HIDE DEF owner
  <1>5. /\ item \in Pool /\ item.gen = pool[id].gen /\ item.dequeued = pool[id].dequeued
        /\ item.token[b] = owner
    BY <1>2, <1>3, Given
  <1> HIDE DEF item
  <1>6. \A i \in Ids : pool'[i] = IF i = id THEN item ELSE pool[i]
    BY <1>4, <1>5, PoolBecomes DEF Typed
  <1>7. \A i \in Ids : pool'[i].gen = pool[i].gen
    BY <1>5, <1>6
  <1>8. pool'[id].gen # 0 /\ b \in pool'[id].dequeued
    BY <1>2, <1>5, <1>6
  <1>9. \A d \in Consumers : ~Claims(d, id, b)'
    BY <1>1, <1>2, <1>7, SameClaims
  <1>10. pool'[id].token[b] = c \/ BeingCleared(id, b)'
    BY <1>1, <1>3, <1>5, <1>6, <1>7 DEF BeingCleared
  <1>11. ~(reap'.at # "idle" /\ reap'.who = c /\ reap'.id = id)
    BY <1>1, <1>2 DEF LockSound, AcquireSafe
  <1>12. pc'[c] = Idle
    BY <1>1, <1>2 DEF clientVars
  <1>13. mLock' = [at |-> "connect", who |-> c, id |-> id, buf |-> b]
    BY <1>1, <1>2 DEF AcquireSlots
  <1> QED BY <1>8, <1>9, <1>10, <1>11, <1>12, <1>13 DEF LockSound, AllocSafe, AcquireSafe, Acquiring

LEMMA LockStaysSound ==
    ASSUME Typed, LockSound, mLock' = mLock, allocs' = allocs,
           \A i \in Ids : pool'[i].gen = pool[i].gen,
           \A c \in Consumers, i \in Ids, e \in Bufs : Claims(c, i, e)' => Claims(c, i, e),
           \A c \in Consumers, i \in Ids :
              Acquiring(c, i) =>
                 /\ pc'[c] = Idle /\ mLock.buf \in pool'[i].dequeued
                 /\ \/ pool'[i].token[mLock.buf] = IF mLock.at = "slot" THEN Nobody ELSE c
                    \/ BeingCleared(i, mLock.buf)'
                 /\ ~(reap'.at # "idle" /\ reap'.who = c /\ reap'.id = i)
    PROVE  LockSound'
  <1>1. AllocSafe'
    BY Types, LockFields DEF Typed, LockSound, AllocSafe
  <1>2. AcquireSafe'
    <2> SUFFICES ASSUME NEW c \in Consumers, NEW i \in Ids, Acquiring(c, i)
                 PROVE  /\ pc'[c] = Idle /\ pool'[i].gen # 0
                        /\ mLock.buf \in pool'[i].dequeued
                        /\ \A d \in Consumers : ~Claims(d, i, mLock.buf)'
                        /\ \/ pool'[i].token[mLock.buf] = IF mLock.at = "slot" THEN Nobody ELSE c
                           \/ BeingCleared(i, mLock.buf)'
                        /\ ~(reap'.at # "idle" /\ reap'.who = c /\ reap'.id = i)
      BY DEF AcquireSafe, Acquiring
    <2>1. mLock.buf \in Bufs
      BY Types, LockFields DEF Typed, Acquiring
    <2>2. \A d \in Consumers : ~Claims(d, i, mLock.buf)'
      BY <2>1 DEF LockSound, AcquireSafe
    <2>3. pool'[i].gen # 0
      BY DEF LockSound, AcquireSafe
    <2> QED BY <2>2, <2>3
  <1> QED BY <1>1, <1>2 DEF LockSound

(* Of a step that leaves queues and slots alone.                             *)
LEMMA SameSlots ==
    ASSUME Typed, LockSound, mLock' = mLock, allocs' = allocs,
           \A i \in Ids : /\ pool'[i].gen = pool[i].gen /\ pool'[i].dequeued = pool[i].dequeued
                          /\ pool'[i].token = pool[i].token,
           \A c \in Consumers, i \in Ids, e \in Bufs : Claims(c, i, e)' => Claims(c, i, e),
           \A c \in Consumers, i \in Ids :
              Acquiring(c, i) =>
                 /\ pc'[c] = Idle
                 /\ ~(reap'.at # "idle" /\ reap'.who = c /\ reap'.id = i),
           \A i \in Ids, b \in Bufs : BeingCleared(i, b) => BeingCleared(i, b)'
    PROVE  LockSound'
  <1>1. \A c \in Consumers, i \in Ids :
           Acquiring(c, i) =>
              /\ pc'[c] = Idle /\ mLock.buf \in pool'[i].dequeued
              /\ \/ pool'[i].token[mLock.buf] = IF mLock.at = "slot" THEN Nobody ELSE c
                 \/ BeingCleared(i, mLock.buf)'
              /\ ~(reap'.at # "idle" /\ reap'.who = c /\ reap'.id = i)
    <2> SUFFICES ASSUME NEW c \in Consumers, NEW i \in Ids, Acquiring(c, i)
                 PROVE  /\ pc'[c] = Idle /\ mLock.buf \in pool'[i].dequeued
                        /\ \/ pool'[i].token[mLock.buf] = IF mLock.at = "slot" THEN Nobody ELSE c
                           \/ BeingCleared(i, mLock.buf)'
                        /\ ~(reap'.at # "idle" /\ reap'.who = c /\ reap'.id = i)
      OBVIOUS
    <2>1. mLock.buf \in Bufs
      BY Types, LockFields DEF Typed, Acquiring
    <2>2. /\ mLock.buf \in pool[i].dequeued
          /\ \/ pool[i].token[mLock.buf] = IF mLock.at = "slot" THEN Nobody ELSE c
             \/ BeingCleared(i, mLock.buf)
      BY DEF LockSound, AcquireSafe
    <2> QED BY <2>1, <2>2
  <1> QED BY <1>1, LockStaysSound

LEMMA ClientsKeepLock ==
    ASSUME Typed, Typed', Sound, LockSound,
           \/ \E p \in Producers : ProducerDies(p)
           \/ \E c \in Consumers : ConsumerDies(c) \/ \E id \in Ids : Disconnect(c, id)
    PROVE  LockSound'
  <1>1. UNCHANGED <<pool, mLock, allocs, reap>>
    BY DEF ProducerDies, ConsumerDies, Disconnect, serverVars, deathVars
  <1>2. \A i \in Ids, b \in Bufs : BeingCleared(i, b) => BeingCleared(i, b)'
    BY <1>1 DEF BeingCleared
  <1>3. \A c \in Consumers, i \in Ids :
           Acquiring(c, i) => /\ pc[c] = Idle
                              /\ ~(reap'.at # "idle" /\ reap'.who = c /\ reap'.id = i)
    BY <1>1 DEF LockSound, AcquireSafe
  <1>4. ASSUME NEW p \in Producers, ProducerDies(p) PROVE LockSound'
    <2>1. UNCHANGED clientVars
      BY <1>4 DEF ProducerDies
    <2>2. \A c \in Consumers, i \in Ids, e \in Bufs : Claims(c, i, e)' => Claims(c, i, e)
      BY <1>1, <2>1 DEF Claims, Requests, Gives, HoldsOf, clientVars
    <2>3. pc' = pc
      BY <2>1 DEF clientVars
    <2> QED BY <1>1, <1>2, <1>3, <2>2, <2>3, SameSlots
  <1>5. ASSUME NEW c \in Consumers, ConsumerDies(c) PROVE LockSound'
    <2>1. \A d \in Consumers : pc'[d] = pc[d] \/ pc'[d] = Idle
      BY <1>5 DEF ConsumerDies, Typed, TypeOK
    <2> QED BY <1>1, <1>2, <1>3, <1>5, <2>1, ConsumerDiesSound, SameSlots
  <1>6. ASSUME NEW c \in Consumers, NEW id \in Ids, Disconnect(c, id) PROVE LockSound'
    <2>1. \A d \in Consumers, i \in Ids : Acquiring(d, i) => pc'[d] = pc[d]
      <3>1. \A i \in Ids : ~Acquiring(c, i)
        BY <1>6 DEF Disconnect, Ready
      <3>2. \A d \in Consumers : d # c => pc'[d] = pc[d]
        BY <1>6 DEF Disconnect, Typed, TypeOK
      <3> QED BY <3>1, <3>2
    <2>2. \A d \in Consumers, i \in Ids :
             Acquiring(d, i) =>
                /\ pc'[d] = Idle
                /\ ~(reap'.at # "idle" /\ reap'.who = d /\ reap'.id = i)
      BY <1>3, <2>1
    <2>3. \A d \in Consumers, i \in Ids, e \in Bufs : Claims(d, i, e)' => Claims(d, i, e)
      BY <1>6, DisconnectSound
    <2> QED BY <1>1, <1>2, <2>2, <2>3, SameSlots
  <1> QED BY <1>4, <1>5, <1>6

(* What the steps of an observer that follow have in common: no consumer and *)
(* no number of a pool changes.                                              *)
LEMMA ItemOrLink ==
    ASSUME Typed, NEW id \in Ids,
           \/ pool' = pool
           \/ pool' = [pool EXCEPT ![id].producer = Nobody]
           \/ \E v \in BOOLEAN : pool' = [pool EXCEPT ![id].connected = v]
    PROVE  \A i \in Ids : /\ pool'[i].gen = pool[i].gen /\ pool'[i].dequeued = pool[i].dequeued
                          /\ pool'[i].token = pool[i].token
  <1>1. pool[id] \in Pool
    BY Types DEF Typed
  <1>2. CASE pool' = pool
    BY <1>2
  <1>3. CASE pool' = [pool EXCEPT ![id].producer = Nobody]
    <2> DEFINE item == [pool[id] EXCEPT !.producer = Nobody]
    <2>1. /\ item \in Pool /\ item.gen = pool[id].gen /\ item.dequeued = pool[id].dequeued
          /\ item.token = pool[id].token
      BY <1>1, Disowned
    <2>2. pool' = [pool EXCEPT ![id] = item]
      BY <1>3
    <2> HIDE DEF item
    <2> QED BY <2>1, <2>2, PoolBecomes DEF Typed
  <1>4. ASSUME NEW v \in BOOLEAN, pool' = [pool EXCEPT ![id].connected = v]
        PROVE  \A i \in Ids : /\ pool'[i].gen = pool[i].gen /\ pool'[i].dequeued = pool[i].dequeued
                              /\ pool'[i].token = pool[i].token
    <2> DEFINE item == [pool[id] EXCEPT !.connected = v]
    <2>1. /\ item \in Pool /\ item.gen = pool[id].gen /\ item.dequeued = pool[id].dequeued
          /\ item.token = pool[id].token
      BY <1>1, Linked
    <2>2. pool' = [pool EXCEPT ![id] = item]
      BY <1>4
    <2> HIDE DEF item
    <2> QED BY <2>1, <2>2, PoolBecomes DEF Typed
  <1> QED BY <1>2, <1>3, <1>4

LEMMA NoticesKeepLock ==
    ASSUME Typed, Sound, LockSound, mishaps' = {},
           WalkBegins \/ WalkCompares \/ WalkLooks \/ ReapBegins \/ ReapDisconnects \/ ReapNotes
    PROVE  LockSound'
  <1>1. UNCHANGED <<mLock, allocs, dead, clientVars>> /\ pc' = pc
    BY DEF WalkBegins, WalkCompares, WalkLooks, ReapBegins, ReapDisconnects, ReapNotes,
           serverVars, clientVars
  <1>2. \A i \in Ids : /\ pool'[i].gen = pool[i].gen /\ pool'[i].dequeued = pool[i].dequeued
                       /\ pool'[i].token = pool[i].token
    <2>1. CASE WalkBegins \/ WalkLooks \/ ReapBegins
      BY <2>1 DEF WalkBegins, WalkLooks, ReapBegins, serverVars
    <2>2. CASE WalkCompares
      <3>1. PICK id \in Ids : pool' = pool \/ pool' = [pool EXCEPT ![id].producer = Nobody]
        BY <2>2 DEF WalkCompares, Beyond, Orphan, ListedAt, Live
      <3> QED BY <3>1, ItemOrLink
    <2>3. CASE ReapDisconnects \/ ReapNotes
      <3>1. /\ reap.id \in Ids
            /\ \/ pool' = pool \/ pool' = [pool EXCEPT ![reap.id].connected = TRUE]
               \/ pool' = [pool EXCEPT ![reap.id].connected = FALSE]
        BY <2>3, ReapingFields DEF ReapDisconnects, ReapNotes, Typed
      <3>2. PICK id \in Ids :
               \/ pool' = pool
               \/ \E v \in BOOLEAN : pool' = [pool EXCEPT ![id].connected = v]
        BY <3>1
      <3> QED BY <3>2, ItemOrLink
    <2> QED BY <2>1, <2>2, <2>3
  <1>3. \A c \in Consumers, i \in Ids, e \in Bufs : Claims(c, i, e)' => Claims(c, i, e)
    BY <1>1, <1>2, SameClaims
  <1>4. \/ reap' = reap
        \/ reap.at \notin {"clear", "again"}
    BY IdleCall DEF WalkBegins, WalkCompares, WalkLooks, ReapBegins, ReapDisconnects, ReapNotes, Reaping
  <1>5. \A i \in Ids, b \in Bufs : BeingCleared(i, b) => BeingCleared(i, b)'
    BY <1>2, <1>4 DEF BeingCleared
  <1>6. \A c \in Consumers, i \in Ids :
           Acquiring(c, i) => ~(reap'.at # "idle" /\ reap'.who = c /\ reap'.id = i)
    <2>1. CASE ReapBegins
      BY <2>1, IdleCall DEF ReapBegins
    <2>2. CASE ReapDisconnects \/ ReapNotes
      <3>1. reap.at # "idle" /\ (reap' = Idle \/ (reap'.who = reap.who /\ reap'.id = reap.id))
        BY <2>2 DEF ReapDisconnects, ReapNotes, Reaping, Reap
      <3> QED BY <3>1, IdleCall DEF LockSound, AcquireSafe
    <2>3. CASE WalkBegins \/ WalkCompares \/ WalkLooks
      BY <2>3 DEF WalkBegins, WalkCompares, WalkLooks, LockSound, AcquireSafe
    <2> QED BY <2>1, <2>2, <2>3
  <1>7. \A c \in Consumers, i \in Ids : Acquiring(c, i) => pc'[c] = Idle
    BY <1>1 DEF LockSound, AcquireSafe
  <1> QED BY <1>1, <1>2, <1>3, <1>5, <1>6, <1>7, SameSlots

(* An observer that releases is at work for another consumer, or pool...     *)
LEMMA ReapReleasesLock ==
    ASSUME Typed, Sound, LockSound, ReapReleases
    PROVE  LockSound'
  <1>1. PICK id \in Ids : id = reap.id /\ pool[id] \in Pool /\ reap.at = "scan" /\ reap.who \in Consumers
    BY ReapingFields, Types DEF ReapReleases, Typed
  <1>2. PICK b \in Bufs :
           /\ pool[id].token[b] = reap.who
           /\ pool' = [pool EXCEPT ![id].dequeued = @ \ {b}]
           /\ reap' = [at |-> "clear", who |-> reap.who, id |-> reap.id, gen |-> reap.gen, buf |-> b]
    BY <1>1 DEF ReapReleases, Slots
  <1>3. UNCHANGED <<allocs, mLock, dead, clientVars>> /\ pc' = pc
    BY DEF ReapReleases, clientVars
  <1> DEFINE item == [pool[id] EXCEPT !.dequeued = @ \ {b}]
  <1>4. /\ item \in Pool /\ item.gen = pool[id].gen
        /\ item.dequeued = pool[id].dequeued \ {b} /\ item.token = pool[id].token
    BY <1>1, TakenBack
  <1>5. pool' = [pool EXCEPT ![id] = item]
    BY <1>2
  <1> HIDE DEF item
  <1>6. \A i \in Ids : pool'[i] = IF i = id THEN item ELSE pool[i]
    BY <1>4, <1>5, PoolBecomes DEF Typed
  <1>7. \A i \in Ids : pool'[i].gen = pool[i].gen /\ pool'[i].token = pool[i].token
    BY <1>4, <1>6
  <1>8. \A c \in Consumers, i \in Ids, e \in Bufs : Claims(c, i, e)' => Claims(c, i, e)
    BY <1>3, <1>7, SameClaims
  <1>9. \A c \in Consumers, i \in Ids :
           Acquiring(c, i) =>
              /\ pc'[c] = Idle /\ mLock.buf \in pool'[i].dequeued
              /\ \/ pool'[i].token[mLock.buf] = IF mLock.at = "slot" THEN Nobody ELSE c
                 \/ BeingCleared(i, mLock.buf)'
              /\ ~(reap'.at # "idle" /\ reap'.who = c /\ reap'.id = i)
    <2> SUFFICES ASSUME NEW c \in Consumers, NEW i \in Ids, Acquiring(c, i)
                 PROVE  /\ pc'[c] = Idle /\ mLock.buf \in pool'[i].dequeued
                        /\ pool'[i].token[mLock.buf] = IF mLock.at = "slot" THEN Nobody ELSE c
                        /\ ~(reap'.at # "idle" /\ reap'.who = c /\ reap'.id = i)
      OBVIOUS
    <2>1. /\ pc[c] = Idle /\ mLock.buf \in pool[i].dequeued
          /\ pool[i].token[mLock.buf] = IF mLock.at = "slot" THEN Nobody ELSE c
          /\ ~(reap.who = c /\ reap.id = i)
      BY <1>1 DEF LockSound, AcquireSafe, BeingCleared
    <2>2. i # id \/ mLock.buf # b
      BY <1>1, <1>2, <2>1, GuiExtAssumption DEF GuiExtAssumption
    <2>3. mLock.buf \in pool'[i].dequeued
      BY <1>4, <1>6, <2>1, <2>2
    <2> QED BY <1>2, <1>3, <1>7, <2>1, <2>3
  <1> QED BY <1>3, <1>7, <1>8, <1>9, LockStaysSound

(* ... and one that clears the slot of a buffer that is out does so before   *)
(* the slot is given.                                                        *)
LEMMA ReapClearsLock ==
    ASSUME Typed, Sound, LockSound, ReapClears, mishaps' = {}
    PROVE  LockSound'
  <1>1. /\ reap.at \in {"clear", "again"} /\ reap.id \in Ids /\ reap.buf \in Bufs
        /\ pool[reap.id] \in Pool
        /\ reap = [at |-> reap.at, who |-> reap.who, id |-> reap.id, gen |-> reap.gen,
                   buf |-> reap.buf]
    BY ReapingFields, Types DEF ReapClears, Typed
  <1>2. PICK id \in Ids, b \in Bufs : id = reap.id /\ b = reap.buf /\ pool[id] \in Pool
    BY <1>1
  <1>3. b \notin pool[id].dequeued \/ Slotless(id, b)
    BY <1>2 DEF ReapClears
  <1>4. UNCHANGED <<allocs, mLock, dead, clientVars>> /\ pc' = pc
    BY DEF ReapClears, clientVars
  <1> DEFINE item == [pool[id] EXCEPT !.token[b] = Nobody]
  <1>5. /\ item \in Pool /\ item.gen = pool[id].gen /\ item.dequeued = pool[id].dequeued
        /\ \A d \in Bufs : item.token[d] = IF d = b THEN Nobody ELSE pool[id].token[d]
    BY <1>2, TakenBack
  <1>6. pool' = [pool EXCEPT ![id] = item]
    BY <1>2 DEF ReapClears
  <1> HIDE DEF item
  <1>7. \A i \in Ids : pool'[i] = IF i = id THEN item ELSE pool[i]
    BY <1>5, <1>6, PoolBecomes DEF Typed
  <1>8. \A i \in Ids : pool'[i].gen = pool[i].gen /\ pool'[i].dequeued = pool[i].dequeued
    BY <1>5, <1>7
  <1>9. \A c \in Consumers, i \in Ids, e \in Bufs : Claims(c, i, e)' => Claims(c, i, e)
    BY <1>4, <1>8, SameClaims
  <1>10. reap'.who = reap.who /\ reap'.id = reap.id
    BY <1>1 DEF ReapClears, Reap
  <1>11. \A c \in Consumers, i \in Ids :
           Acquiring(c, i) =>
              /\ pc'[c] = Idle /\ mLock.buf \in pool'[i].dequeued
              /\ \/ pool'[i].token[mLock.buf] = IF mLock.at = "slot" THEN Nobody ELSE c
                 \/ BeingCleared(i, mLock.buf)'
              /\ ~(reap'.at # "idle" /\ reap'.who = c /\ reap'.id = i)
    <2> SUFFICES ASSUME NEW c \in Consumers, NEW i \in Ids, Acquiring(c, i)
                 PROVE  /\ pc'[c] = Idle /\ mLock.buf \in pool'[i].dequeued
                        /\ pool'[i].token[mLock.buf] = IF mLock.at = "slot" THEN Nobody ELSE c
                        /\ ~(reap'.at # "idle" /\ reap'.who = c /\ reap'.id = i)
      OBVIOUS
    <2>1. /\ pc[c] = Idle /\ mLock.buf \in pool[i].dequeued
          /\ \/ pool[i].token[mLock.buf] = IF mLock.at = "slot" THEN Nobody ELSE c
             \/ BeingCleared(i, mLock.buf)
          /\ ~(reap.who = c /\ reap.id = i)
      BY <1>1 DEF LockSound, AcquireSafe
    <2>2. mLock.buf \in Bufs
      BY Types, LockFields DEF Typed, Acquiring
    <2>3. pool'[i].token[mLock.buf] = IF mLock.at = "slot" THEN Nobody ELSE c
      <3>1. CASE i = id /\ mLock.buf = b
        <4>1. mLock.at = "slot"
          BY <1>3, <2>1, <3>1 DEF Slotless
        <4> QED BY <1>5, <1>7, <3>1, <4>1
      <3>2. CASE i # id \/ mLock.buf # b
        <4>1. ~BeingCleared(i, mLock.buf)
          BY <1>2, <3>2 DEF BeingCleared
        <4>2. pool'[i].token[mLock.buf] = pool[i].token[mLock.buf]
          BY <1>5, <1>7, <2>2, <3>2
        <4> QED BY <2>1, <4>1, <4>2
      <3> QED BY <3>1, <3>2
    <2> QED BY <1>4, <1>8, <1>10, <2>1, <2>3
  <1> QED BY <1>4, <1>8, <1>9, <1>11, LockStaysSound

-----------------------------------------------------------------------------
(* All steps, and what follows.                                              *)

LEMMA ProducersSound ==
    ASSUME Typed, Typed', Sound, LockSound, NEW p \in Producers,
           Alloc(p) \/ ProducerDies(p) \/ \E id \in Ids : Free(p, id)
    PROVE  Sound' /\ LockSound'
  <1>1. CASE Alloc(p)
    BY <1>1, AllocSound, AllocLocks
  <1>2. CASE ProducerDies(p)
    BY <1>2, NoticesBegin, ClientsKeepLock
  <1>3. ASSUME NEW id \in Ids, Free(p, id) PROVE Sound' /\ LockSound'
    BY <1>3, FreeSound, LockFree DEF Free
  <1> QED BY <1>1, <1>2, <1>3

LEMMA ConsumersSound ==
    ASSUME Typed, Typed', Sound, LockSound, mishaps' = {}, NEW c \in Consumers,
           \/ Request(c) \/ DisconnectReleases(c) \/ DisconnectDone(c) \/ ConsumerDies(c)
           \/ \E id \in Ids :
                 \/ Acquire(c, id) \/ AcquireBackup(c, id) \/ Disconnect(c, id)
                 \/ \E b \in Bufs : Release(c, id, b)
    PROVE  Sound' /\ LockSound'
  <1>1. CASE Request(c) \/ DisconnectReleases(c) \/ DisconnectDone(c)
    <2>1. mLock' = Idle
      BY <1>1 DEF Request, DisconnectReleases, DisconnectDone, serverVars
    <2> QED BY <1>1, <2>1, RequestSound, DisconnectReleasesSound, DisconnectDoneSound, LockFree
  <1>2. CASE ConsumerDies(c)
    BY <1>2, ConsumerDiesSound, ClientsKeepLock
  <1>3. ASSUME NEW id \in Ids, Acquire(c, id) PROVE Sound' /\ LockSound'
    BY <1>3, AcquireSound, AcquireLocks
  <1>4. ASSUME NEW id \in Ids, AcquireBackup(c, id) PROVE Sound' /\ LockSound'
    BY <1>4, MishapsAreNoted
  <1>5. ASSUME NEW id \in Ids, Disconnect(c, id) PROVE Sound' /\ LockSound'
    BY <1>5, DisconnectSound, ClientsKeepLock
  <1>6. ASSUME NEW id \in Ids, NEW b \in Bufs, Release(c, id, b) PROVE Sound' /\ LockSound'
    BY <1>6, ReleaseSound, LockFree DEF Release
  <1> QED BY <1>1, <1>2, <1>3, <1>4, <1>5, <1>6

LEMMA CallingSound ==
    ASSUME Typed, Typed', Sound, LockSound, Calling
    PROVE  Sound' /\ LockSound'
  <1>1. CASE AllocAdds
    BY <1>1, AllocAddsSound, LockFree DEF AllocAdds
  <1>2. CASE AcquireSlots
    BY <1>2, AcquireSlotsSound, SlotsLocks
  <1>3. CASE AcquireConnects
    BY <1>3, AcquireConnectsSound, LockFree DEF AcquireConnects
  <1> QED BY <1>1, <1>2, <1>3 DEF Calling

LEMMA NoticesSound ==
    ASSUME Typed, Typed', Sound, LockSound, mishaps' = {}, Notices
    PROVE  Sound' /\ LockSound'
  <1>1. CASE WalkBegins \/ WalkLooks \/ ReapBegins
    BY <1>1, NoticesBegin, NoticesKeepLock
  <1>2. CASE WalkCompares
    BY <1>2, WalkComparesSound, NoticesKeepLock
  <1>3. CASE WalkRemoves
    BY <1>3, WalkRemovesSound, LockFree DEF WalkRemoves
  <1>4. CASE ReapReleases
    BY <1>4, ReapReleasesSound, ReapReleasesLock
  <1>5. CASE ReapClears
    BY <1>5, ReapClearsSound, ReapClearsLock
  <1>6. CASE ReapDisconnects \/ ReapNotes
    BY <1>6, ReapSettles, NoticesKeepLock
  <1>7. CASE ReapRemoves
    BY <1>7, ReapSettles, LockFree DEF ReapRemoves
  <1>8. CASE ReapLost
    BY <1>8, MishapsAreNoted
  <1> QED BY <1>1, <1>2, <1>3, <1>4, <1>5, <1>6, <1>7, <1>8 DEF Notices

LEMMA SoundKept == Typed /\ Typed' /\ SoundUntilMishap /\ [Next]_vars => SoundUntilMishap'
  <1> SUFFICES ASSUME Typed, Typed', SoundUntilMishap, [Next]_vars, mishaps' = {}
               PROVE  Sound' /\ LockSound'
    BY DEF SoundUntilMishap
  <1>1. CASE Next
    <2>1. Sound /\ LockSound
      BY <1>1 DEF Next, SoundUntilMishap
    <2>2. CASE Clients
      BY <2>1, <2>2, ProducersSound, ConsumersSound DEF Clients
    <2>3. CASE Calling
      BY <2>1, <2>3, CallingSound
    <2>4. CASE Notices
      BY <2>1, <2>4, NoticesSound
    <2> QED BY <1>1, <2>2, <2>3, <2>4 DEF Next
  <1>2. CASE UNCHANGED vars
    <2>1. Sound /\ LockSound
      BY <1>2 DEF vars, SoundUntilMishap
    <2>2. /\ UNCHANGED <<pool, allocs, mLock, clientVars>>
          /\ UNCHANGED <<dead, obits, reap>> /\ pc' = pc
      BY <1>2 DEF vars, serverVars, deathVars, clientVars
    <2>3. ObserversOfDead'
      BY <2>1, <2>2 DEF Sound, ObserversOfDead
    <2>4. \A id \in Ids, b \in Bufs : BeingCleared(id, b) => BeingCleared(id, b)'
      BY <2>2 DEF BeingCleared
    <2>5. \A c \in Consumers, i \in Ids, e \in Bufs : Claims(c, i, e)' => Claims(c, i, e)
      BY <2>1, <2>2, SameClaims
    <2>6. \A c \in Consumers, i \in Ids :
             Acquiring(c, i) => /\ pc'[c] = Idle
                                /\ ~(reap'.at # "idle" /\ reap'.who = c /\ reap'.id = i)
      BY <2>1, <2>2 DEF LockSound, AcquireSafe
    <2>7. Sound'
      BY <2>1, <2>2, <2>3, <2>4, SameClients
    <2> QED BY <2>1, <2>2, <2>4, <2>5, <2>6, <2>7, SameSlots
  <1> QED BY <1>1, <1>2

(* A mishap other than a cut leaves the shadows of the consumers alone, and  *)
(* the ids of their pools.                                                   *)
LEMMA ShadowsKept ==
    ASSUME Typed, Typed', SoundUntilMishap, ShadowsLive, [Next]_vars
    PROVE  ShadowsLive'
  <1> SUFFICES ASSUME "cut" \notin mishaps', Next
               PROVE  ShadowsLive'
    BY DEF ShadowsLive, vars, deathVars, serverVars, clientVars
  <1> DEFINE Same == \A c \in Consumers, id \in Ids, b \in Bufs :
                        /\ shadow'[c][id][b].gen = shadow[c][id][b].gen
                        /\ pool'[id].gen = pool[id].gen
  <1>1. Sound /\ LockSound
    BY DEF Next, SoundUntilMishap
  <1>2. ASSUME Same PROVE ShadowsLive'
    BY <1>1, <1>2 DEF ShadowsLive, Sound, ShadowsFit
  <1>3. ASSUME Sound' PROVE ShadowsLive'
    BY <1>3 DEF ShadowsLive, Sound, ShadowsFit
  <1>4. CASE mishaps' = {}
    <2>1. Sound'
      BY <1>4, SoundKept DEF SoundUntilMishap
    <2> QED BY <1>3, <2>1
  <1>5. ASSUME shadow' = shadow, \A id \in Ids : pool'[id].gen = pool[id].gen PROVE Same
    BY <1>5
  <1> HIDE DEF Same
  <1>6. ASSUME NEW c \in Consumers, NEW id \in Ids, AcquireBackup(c, id)
        PROVE  Same
    <2>1. PICK b \in Bufs : shadow' = [shadow EXCEPT ![c][id][b].isAcquired = TRUE]
      BY <1>6 DEF AcquireBackup
    <2> DEFINE s == [shadow[c][id][b] EXCEPT !.isAcquired = TRUE]
    <2>2. s \in Shade /\ s.gen = shadow[c][id][b].gen
      BY Types DEF Shade, Typed
    <2>3. shadow' = [shadow EXCEPT ![c][id][b] = s]
      BY <2>1
    <2> HIDE DEF s
    <2>4. \A d \in Consumers, i \in Ids, e \in Bufs : shadow'[d][i][e].gen = shadow[d][i][e].gen
      BY <2>2, <2>3, ShadowBecomes DEF Typed
    <2> QED BY <1>6, <2>4 DEF Same, AcquireBackup, serverVars
  <1>7. ASSUME WalkCompares PROVE Same
    <2>1. shadow' = shadow
      BY <1>7 DEF WalkCompares, clientVars
    <2>2. PICK id \in Ids : pool' = pool \/ pool' = [pool EXCEPT ![id].producer = Nobody]
      <3>1. CASE Beyond /\ UNCHANGED pool
        <4>1. 1 \in Ids
          BY GuiExtAssumption DEF GuiExtAssumption, Ids
        <4> QED BY <3>1, <4>1
      <3> QED BY <1>7, <3>1 DEF WalkCompares, Orphan, ListedAt, Live
    <2> QED BY <1>5, <2>1, <2>2, ItemOrLink
  <1>8. ASSUME ReapClears PROVE Same
    <2>1. PICK id \in Ids, b \in Bufs : id = reap.id /\ b = reap.buf /\ pool[id] \in Pool
      BY <1>8, ReapingFields, Types DEF ReapClears, Typed
    <2> DEFINE item == [pool[id] EXCEPT !.token[b] = Nobody]
    <2>2. item \in Pool /\ item.gen = pool[id].gen
      BY <2>1, TakenBack
    <2>3. pool' = [pool EXCEPT ![id] = item]
      BY <1>8, <2>1 DEF ReapClears
    <2> HIDE DEF item
    <2>4. \A i \in Ids : pool'[i].gen = pool[i].gen
      BY <2>2, <2>3, PoolBecomes DEF Typed
    <2>5. shadow' = shadow
      BY <1>8 DEF ReapClears, clientVars
    <2> QED BY <1>5, <2>4, <2>5
  <1>9. ASSUME ReapNotes PROVE Same
    <2>1. PICK id \in Ids : pool' = pool \/ pool' = [pool EXCEPT ![id].connected = TRUE]
      BY <1>9, ReapingFields DEF ReapNotes, Typed
    <2>2. \A i \in Ids : pool'[i].gen = pool[i].gen
      BY <2>1, ItemOrLink
    <2>3. shadow' = shadow
      BY <1>9 DEF ReapNotes, clientVars
    <2> QED BY <1>5, <2>2, <2>3
  <1>10. ASSUME ReapLost PROVE Same
    <2>1. shadow' = shadow /\ pool' = pool
      BY <1>10 DEF ReapLost, serverVars, clientVars
    <2> QED BY <1>5, <2>1
  <1>11. CASE mishaps' # {}
    <2>1. CASE AllocAdds
      BY <1>1, <1>3, <2>1, AllocAddsSound
    <2>2. ASSUME NEW c \in Consumers, ConsumerDies(c) PROVE ShadowsLive'
      BY <1>1, <1>3, <2>2, ConsumerDiesSound
    <2>3. CASE WalkBegins \/ WalkLooks \/ ReapBegins
      BY <1>1, <1>3, <2>3, NoticesBegin
    <2>4. mishaps = {}
      BY DEF Next
    <2>5. CASE Clients
      <3>1. ASSUME NEW p \in Producers, Alloc(p) \/ ProducerDies(p) \/ \E id \in Ids : Free(p, id)
            PROVE  mishaps' = mishaps
        BY <3>1 DEF Alloc, ProducerDies, Free
      <3>2. ASSUME NEW c \in Consumers, Request(c) \/ DisconnectReleases(c) \/ DisconnectDone(c)
            PROVE  mishaps' = mishaps
        BY <3>2 DEF Request, DisconnectReleases, DisconnectDone, Cut
      <3>3. ASSUME NEW c \in Consumers, NEW id \in Ids,
                   Acquire(c, id) \/ Disconnect(c, id) \/ \E b \in Bufs : Release(c, id, b)
            PROVE  mishaps' = mishaps
        BY <3>3 DEF Acquire, Disconnect, Release
      <3> QED BY <1>2, <1>6, <1>11, <2>2, <2>4, <2>5, <3>1, <3>2, <3>3 DEF Clients
    <2>6. CASE Calling
      BY <1>11, <2>1, <2>4, <2>6 DEF Calling, AcquireSlots, AcquireConnects
    <2>7. CASE Notices
      <3>1. WalkRemoves \/ ReapReleases \/ ReapDisconnects \/ ReapRemoves => mishaps' = mishaps
        BY DEF WalkRemoves, ReapReleases, ReapDisconnects, ReapRemoves, Cut
      <3> QED BY <1>2, <1>7, <1>8, <1>9, <1>10, <1>11, <2>3, <2>4, <2>7, <3>1 DEF Notices
    <2> QED BY <2>5, <2>6, <2>7 DEF Next
  <1> QED BY <1>4, <1>11

LEMMA SoundAlways == Spec => [](Typed /\ SoundUntilMishap)
  <1>1. Init => Typed /\ SoundUntilMishap
    BY TypedInit, SoundInit DEF SoundUntilMishap
  <1>2. Typed /\ SoundUntilMishap /\ [Next]_vars => (Typed /\ SoundUntilMishap)'
    BY TypedKept, SoundKept
  <1> QED BY <1>1, <1>2, PTL DEF Spec

LEMMA SoundIsExclusive == Typed /\ SoundUntilMishap => Exclusive
  <1> SUFFICES ASSUME Typed, Sound, NEW g \in Gens, NEW b \in Bufs
               PROVE  /\ \A c, d \in Holders(g, b) : c = d /\ held[c][g][b] = 1
                      /\ Holders(g, b) # {} => \A id \in PoolOf(g) : b \in pool[id].dequeued
    BY DEF SoundUntilMishap, Exclusive
  <1>1. g # 0
    BY Types DEF Gens, Typed
  <1>2. ASSUME NEW c \in Holders(g, b)
        PROVE  /\ c \in Consumers /\ held[c][g][b] = 1
               /\ \E i \in Ids : pool[i].gen = g
               /\ \A i \in Ids : pool[i].gen = g => Claims(c, i, b)
    <2>1. c \in Consumers /\ held[c][g][b] > 0
      BY DEF Holders
    <2>2. held[c][g][b] = 1 /\ \E i \in Ids : pool[i].gen = g
      BY <2>1 DEF Sound, HeldHasShadow
    <2>3. \A i \in Ids : pool[i].gen = g => Claims(c, i, b)
      BY <1>1, <2>1 DEF Claims, HoldsOf
    <2> QED BY <2>1, <2>2, <2>3
  <1>3. ASSUME NEW c \in Holders(g, b), NEW d \in Holders(g, b)
        PROVE  c = d /\ held[c][g][b] = 1
    BY <1>2 DEF Sound, OneClaimant
  <1>4. ASSUME NEW c \in Holders(g, b), NEW id \in PoolOf(g)
        PROVE  b \in pool[id].dequeued
    BY <1>2 DEF PoolOf, Sound, ClaimsAreOut
  <1> QED BY <1>3, <1>4

(* Every variable of the pools, the consumers and the observers has its type: *)
(* no call or notice of gui_ext stores anything else.                        *)
THEOREM GuiExtTypeCorrect == Spec => []TypeOK
  <1>1. Typed => TypeOK
    BY DEF Typed
  <1> QED BY <1>1, SoundAlways, PTL

(* A buffer is held by one caller of one consumer at most, and while it is   *)
(* held the service does not give it out again: through every order of       *)
(* allocations, grants, releases, disconnects and deaths (GuiExtPool), up to *)
(* the first mishap.                                                         *)
THEOREM BufferIsExclusive == Spec => []Exclusive
  BY SoundAlways, SoundIsExclusive, PTL

(* Only a cut takes a pool from under a living consumer: until a disconnect  *)
(* meant for another consumer does so, its shadow buffers                    *)
(* (GuiExtClientConsumer::mSlots) are of buffers of the pool that has the id *)
(* now; this holds up to the first mishap, and just after it when that is    *)
(* not a cut.                                                                *)
THEOREM ShadowsAreLive == Spec => []ShadowsLive
  <1>1. Init => ShadowsLive
    BY SoundInit DEF Sound, ShadowsFit, ShadowsLive
  <1>2. ShadowsLive /\ (Typed /\ SoundUntilMishap) /\ (Typed /\ SoundUntilMishap)' /\ [Next]_vars
           => ShadowsLive'
    BY ShadowsKept
  <1> QED BY <1>1, <1>2, SoundAlways, PTL DEF Spec

(* A buffer is out if and only if its slot names a consumer, whose death     *)
(* observer will then bring it back (GuiExtPoolItem::acquire(), release()),  *)
(* but for the moments acquire() or an observer takes to make both agree, up *)
(* to the first mishap.                                                      *)
THEOREM SlotsTellHolders == Spec => []TokensMatch
  <1>1. Typed /\ SoundUntilMishap => TokensMatch
    BY DEF SoundUntilMishap, Sound, SlotsMatch, TokensMatch, BeingCleared, Live
  <1> QED BY <1>1, SoundAlways, PTL

=============================================================================
