-------------------------------- MODULE GuiExt --------------------------------
(***************************************************************************)
(* The pools of preallocated video buffers (src/mtk/graphics/gui_ext):     *)
(* GuiExtService keeps them; a producer allocates a pool and frees it; the *)
(* consumers acquire buffers of it, keep a shadow of every buffer they saw *)
(* and disconnect.  The service is told when one of them dies.             *)
(*                                                                         *)
(* A call into the service holds GuiExtPool::mLock.  Death notices do not: *)
(* they take it only to remove a pool, so that those calls that register   *)
(* an observer, alloc() and acquire(), are taken in the steps an observer  *)
(* can come between; the others are a step each.  A call is carried out to *)
(* its end when the process that made it dies.  There is one queue of      *)
(* buffers per pool (the one of the primary display; queues for the GPU    *)
(* are compiled out), whose order of buffers is left open.                 *)
(*                                                                         *)
(* An operator no action uses is a faulty variant of the definition that   *)
(* follows it.                                                             *)
(***************************************************************************)
EXTENDS Naturals, FiniteSets

CONSTANTS
    Producers, Consumers,   \* client processes, each with its token sLife
    MaxPools,               \* MAX_ALLOC_SIZE
    Bufs,                   \* the buffers of a pool, MAX_HWC_DEQUEUED_NUM
    MaxAllocs, MaxDeaths,   \* pools allocated and deaths in a behaviour
    Nobody                  \* NULL, for a token

ASSUME GuiExtAssumption ==
    /\ MaxPools \in Nat \ {0}
    /\ MaxAllocs \in Nat /\ MaxDeaths \in Nat
    /\ Producers \cap Consumers = {}
    /\ Nobody \notin Producers \cup Consumers

VARIABLES
    mPoolId,    \* the id given last
    pool,       \* mPoolList, by id
    allocs,     \* pools allocated so far: a pool is known by its number
    mLock,      \* the alloc() or acquire() under way: it holds the lock
    dead,       \* the processes that have died
    notices,    \* deaths of producers not yet told to the observer of a pool
    walk,       \* ProducerDeathObserver::binderDied() under way
    obits,      \* deaths of consumers not yet told to the observers of a pool
    reap,       \* ConsumerDeathObserver::binderDied() under way
    pc,         \* a consumer's call under way
    shadow,     \* mSlots of the consumers, by pool id and buffer
    held,       \* how often a consumer's callers hold a buffer
    mishaps     \* what has gone wrong so far
serverVars == <<mPoolId, pool, allocs, mLock>>
deathVars  == <<dead, notices, walk, obits, reap>>
clientVars == <<pc, shadow, held>>
vars == <<serverVars, deathVars, clientVars, mishaps>>

Ids  == 1..MaxPools
Gens == 1..MaxAllocs

(* gen 0: there is no such pool, or no such shadow.                          *)
NoPool   == [gen |-> 0, producer |-> Nobody, connected |-> FALSE,
             dequeued |-> {}, token |-> [b \in Bufs |-> Nobody]]
NoShadow == [gen |-> 0, isAcquired |-> FALSE]

Pool  == [gen : 0..MaxAllocs, producer : Producers \cup {Nobody}, connected : BOOLEAN,
          dequeued : SUBSET Bufs, token : [Bufs -> Consumers \cup {Nobody}]]
Shade == [gen : 0..MaxAllocs, isAcquired : BOOLEAN]

Idle  == [at |-> "idle"]
Calls == {Idle} \cup [at : {"request"}, id : Ids, buf : Bufs]
                \cup [at : {"disconnect"}, id : Ids, todo : SUBSET Bufs]
Locks == {Idle} \cup [at : {"alloc"}, who : Producers, id : Ids]
                \cup [at : {"slot", "connect"}, who : Consumers, id : Ids, buf : Bufs]
Walks == {Idle} \cup [at : {"walk"}, who : Producers, i : 0..MaxPools]
                \cup [at : {"look", "remove"}, who : Producers, i : 0..MaxPools, id : Ids]
Reaps == {Idle} \cup [at : {"scan", "remove"}, who : Consumers, id : Ids, gen : Gens]
                \cup [at : {"clear", "again"}, who : Consumers, id : Ids, gen : Gens, buf : Bufs]
                \cup [at : {"note"}, who : Consumers, id : Ids, gen : Gens, found : BOOLEAN]

Mishaps == {"backup",     \* a consumer was given a buffer the service did not grant
            "race",       \* a notice undid what a call had done meanwhile
            "unnoticed",  \* a consumer died connected but without a buffer
            "cut",        \* a pool was disconnected although a consumer was connected
            "early",      \* a notice came before the call it is about had ended
            "skipped",    \* the list shifted under a notice, which misses a pool
            "wild"}       \* a notice went for a pool beyond the list, or gone

TypeOK ==
    /\ mPoolId \in 0..MaxPools
    /\ pool \in [Ids -> Pool]
    /\ allocs \in 0..MaxAllocs
    /\ mLock \in Locks
    /\ dead \subseteq Producers \cup Consumers
    /\ notices \subseteq Producers \X Gens
    /\ walk \in Walks
    /\ obits \subseteq Consumers \X Gens
    /\ reap \in Reaps
    /\ pc \in [Consumers -> Calls]
    /\ shadow \in [Consumers -> [Ids -> [Bufs -> Shade]]]
    /\ held \in [Consumers -> [Gens -> [Bufs -> Nat]]]
    /\ mishaps \subseteq Mishaps

Init ==
    /\ mPoolId = 0
    /\ pool = [id \in Ids |-> NoPool]
    /\ allocs = 0
    /\ mLock = Idle
    /\ dead = {}
    /\ notices = {} /\ walk = Idle
    /\ obits = {} /\ reap = Idle
    /\ pc = [c \in Consumers |-> Idle]
    /\ shadow = [c \in Consumers |-> [id \in Ids |-> [b \in Bufs |-> NoShadow]]]
    /\ held = [c \in Consumers |-> [g \in Gens |-> [b \in Bufs |-> 0]]]
    /\ mishaps = {}

-----------------------------------------------------------------------------
(* GuiExtPool, under its lock.                                               *)

Live == {id \in Ids : pool[id].gen # 0}

(* getPoolId(): the ids are tried in turn, from the one after the id given    *)
(* last; after MaxPools comes 1.                                             *)
Turn(id) == (id + MaxPools - 1 - mPoolId) % MaxPools
UnwrappedId == {mPoolId + 1}
PoolId == {id \in Ids \ Live : \A other \in Ids \ Live : Turn(id) <= Turn(other)}

Alive(process) == process \notin dead

(* A consumer that is connected to a pool: it has seen a buffer of it.       *)
Connected(c, gen) ==
    \/ \E id \in Ids, b \in Bufs : shadow[c][id][b].gen = gen
    \/ pc[c].at = "request" /\ pool[pc[c].id].gen = gen
    \/ pc[c].at = "disconnect" /\ pc[c].todo # {} /\ pool[pc[c].id].gen = gen

(* acquire() has registered the observer of the consumer it is for.          *)
Acquiring(c, id) == mLock.at \in {"slot", "connect"} /\ mLock.who = c /\ mLock.id = id

(* It has dequeued the buffer, and has yet to read the slot.                 *)
Slotless(id, b) == mLock.at = "slot" /\ mLock.id = id /\ mLock.buf = b

InUse(gen) == \E c \in Consumers : Alive(c) /\ Connected(c, gen)

Cut(id) == mishaps' = IF InUse(pool[id].gen) THEN mishaps \cup {"cut"} ELSE mishaps

(* removePoolItemLocked() *)
NotOwned(item) == item.producer = Nobody
Unused(item) == ~item.connected /\ item.producer = Nobody
Settled(item) == IF Unused(item) THEN NoPool ELSE item

(* GuiExtPoolItem::release() *)
FreedQueueOnly(item, b) == [item EXCEPT !.dequeued = @ \ {b}]
Freed(item, b) == [item EXCEPT !.dequeued = @ \ {b}, !.token[b] = Nobody]

-----------------------------------------------------------------------------
(* Producers.                                                                *)

NewPool(gen, p) == [NoPool EXCEPT !.gen = gen, !.producer = p]

(* mPoolList is sorted by id. *)
Place(id) == Cardinality({i \in Live : i < id})

(* The observer is registered before the buffers are prepared...             *)
Alloc(p) ==
    /\ Alive(p)
    /\ mLock = Idle
    /\ allocs < MaxAllocs
    /\ Cardinality(Live) < MaxPools
    /\ allocs' = allocs + 1
    /\ \E id \in PoolId :
          /\ mPoolId' = id
          /\ mLock' = [at |-> "alloc", who |-> p, id |-> id]
    /\ UNCHANGED <<pool, deathVars, clientVars, mishaps>>

(* ... and the pool is in the list only then.                                *)
AllocAdds ==
    /\ mLock.at = "alloc"
    /\ mLock' = Idle
    /\ pool' = [pool EXCEPT ![mLock.id] = NewPool(allocs, mLock.who)]
    /\ mishaps' = IF walk # Idle /\ Place(mLock.id) <= walk.i THEN mishaps \cup {"skipped"}
                                                              ELSE mishaps
    /\ UNCHANGED <<mPoolId, allocs, deathVars, clientVars>>

Free(p, id) ==
    /\ Alive(p)
    /\ mLock = Idle
    /\ pool[id].producer = p
    /\ pool' = [pool EXCEPT ![id] = Settled([@ EXCEPT !.producer = Nobody])]
    /\ UNCHANGED <<mPoolId, allocs, mLock, deathVars, clientVars, mishaps>>

-----------------------------------------------------------------------------
(* Consumers: GuiExtClientConsumer, one call at a time (mLock).              *)

Ready(c) == Alive(c) /\ pc[c] = Idle /\ \A id \in Ids : ~Acquiring(c, id)

Take(c, gen, b) == held' = [held EXCEPT ![c][gen][b] = @ + 1]

(* GuiExtPoolItem::acquire() *)
Owner(item, c, b) == IF item.token[b] = Nobody THEN c ELSE item.token[b]

GrantAny(id) == IF pool[id].gen = 0 THEN {} ELSE Bufs
Grantable(id) == IF pool[id].gen = 0 THEN {} ELSE Bufs \ pool[id].dequeued

(* The buffer is dequeued and the observer registered...                     *)
Acquire(c, id) ==
    /\ Ready(c)
    /\ mLock = Idle
    /\ \E b \in Grantable(id) :
          /\ pool' = [pool EXCEPT ![id].dequeued = @ \cup {b}]
          /\ mLock' = [at |-> "slot", who |-> c, id |-> id, buf |-> b]
    /\ UNCHANGED <<mPoolId, allocs, deathVars, clientVars, mishaps>>

(* ... the slot is given to the consumer...                                  *)
AcquireSlots ==
    /\ mLock.at = "slot"
    /\ mLock' = [mLock EXCEPT !.at = "connect"]
    /\ pool' = [pool EXCEPT ![mLock.id].token[mLock.buf] =
                     Owner(pool[mLock.id], mLock.who, mLock.buf)]
    /\ UNCHANGED <<mPoolId, allocs, deathVars, clientVars, mishaps>>

(* ... and the pool is connected.  The reply goes to the consumer's library  *)
(* (GuiExtClientConsumer.cpp:96-127): a buffer it has no shadow of is to be   *)
(* requested, another is handed out as it is.                                *)
AcquireConnects ==
    /\ mLock.at = "connect"
    /\ mLock' = Idle
    /\ pool' = [pool EXCEPT ![mLock.id].connected = TRUE]
    /\ LET c  == mLock.who
           id == mLock.id
           b  == mLock.buf
       IN \/ ~Alive(c) /\ UNCHANGED <<pc, held>>
          \/ /\ Alive(c) /\ shadow[c][id][b].gen = 0
             /\ pc' = [pc EXCEPT ![c] = [at |-> "request", id |-> id, buf |-> b]]
             /\ UNCHANGED held
          \/ /\ Alive(c) /\ shadow[c][id][b].gen # 0
             /\ Take(c, shadow[c][id][b].gen, b)
             /\ UNCHANGED pc
    /\ UNCHANGED <<mPoolId, allocs, deathVars, shadow, mishaps>>

Request(c) ==
    /\ Alive(c)
    /\ mLock = Idle
    /\ pc[c].at = "request"
    /\ LET id == pc[c].id
           b  == pc[c].buf
       IN \/ /\ pool[id].gen # 0
             /\ shadow' = [shadow EXCEPT ![c][id][b] = [gen |-> pool[id].gen, isAcquired |-> TRUE]]
             /\ Take(c, pool[id].gen, b)
          \/ pool[id].gen = 0 /\ UNCHANGED <<shadow, held>>
    /\ pc' = [pc EXCEPT ![c] = Idle]
    /\ UNCHANGED <<serverVars, deathVars, mishaps>>

(* The service refuses: a shadow that seems free serves as a backup.         *)
AcquireBackup(c, id) ==
    /\ Ready(c)
    /\ mLock = Idle
    /\ Grantable(id) = {}
    /\ \E b \in Bufs :
          /\ shadow[c][id][b].gen # 0
          /\ ~shadow[c][id][b].isAcquired
          /\ shadow' = [shadow EXCEPT ![c][id][b].isAcquired = TRUE]
          /\ Take(c, shadow[c][id][b].gen, b)
    /\ mishaps' = mishaps \cup {"backup"}
    /\ UNCHANGED <<serverVars, deathVars, pc>>

(* The service's release(), whatever pool has the id by now.                 *)
ServerRelease(id, b) ==
    pool' = IF pool[id].gen = 0 THEN pool ELSE [pool EXCEPT ![id] = Freed(@, b)]

Release(c, id, b) ==
    /\ Ready(c)
    /\ mLock = Idle
    /\ shadow[c][id][b].gen # 0
    /\ held[c][shadow[c][id][b].gen][b] > 0
    /\ held' = [held EXCEPT ![c][shadow[c][id][b].gen][b] = @ - 1]
    /\ shadow' = [shadow EXCEPT ![c][id][b].isAcquired = FALSE]
    /\ ServerRelease(id, b)
    /\ UNCHANGED <<mPoolId, allocs, mLock, deathVars, pc, mishaps>>

(* disconnect(): the shadows go, each that is marked acquired is released,   *)
(* and the service is told.                                                  *)
Shades(c, id) == {b \in Bufs : shadow[c][id][b].gen # 0}

Disconnect(c, id) ==
    /\ Ready(c)
    /\ Shades(c, id) # {}
    /\ pc' = [pc EXCEPT ![c] = [at |-> "disconnect", id |-> id,
                                todo |-> {b \in Bufs : shadow[c][id][b].isAcquired}]]
    /\ shadow' = [shadow EXCEPT ![c][id] = [b \in Bufs |-> NoShadow]]
    /\ held' = [held EXCEPT ![c] = [g \in Gens |-> [b \in Bufs |->
                   IF shadow[c][id][b].gen = g THEN 0 ELSE held[c][g][b]]]]
    /\ UNCHANGED <<serverVars, deathVars, mishaps>>

DisconnectReleases(c) ==
    /\ Alive(c)
    /\ mLock = Idle
    /\ pc[c].at = "disconnect"
    /\ \E b \in pc[c].todo :
          /\ ServerRelease(pc[c].id, b)
          /\ pc' = [pc EXCEPT ![c].todo = @ \ {b}]
    /\ UNCHANGED <<mPoolId, allocs, mLock, deathVars, shadow, held, mishaps>>

DisconnectDone(c) ==
    /\ Alive(c)
    /\ mLock = Idle
    /\ pc[c].at = "disconnect"
    /\ pc[c].todo = {}
    /\ pc' = [pc EXCEPT ![c] = Idle]
    /\ LET id == pc[c].id
       IN IF pool[id].gen = 0 THEN UNCHANGED <<pool, mishaps>>
          ELSE /\ pool' = [pool EXCEPT ![id] = Settled([@ EXCEPT !.connected = FALSE])]
               /\ Cut(id)
    /\ UNCHANGED <<mPoolId, allocs, mLock, deathVars, shadow, held>>

-----------------------------------------------------------------------------
(* Deaths.  The observers of a process that dies are told one after the      *)
(* other: of a producer, one with each of its pools; of a consumer, those    *)
(* with the buffers it holds -- release() has dropped the others; and that   *)
(* of the call the service carries out for it.                               *)

Allocating(p) == {allocs : l \in {l \in {mLock} : l.at = "alloc" /\ l.who = p}}
OwnGens(p) == {pool[id].gen : id \in {i \in Ids : pool[i].producer = p}} \cup Allocating(p)

ProducerDies(p) ==
    /\ Alive(p)
    /\ Cardinality(dead) < MaxDeaths
    /\ dead' = dead \cup {p}
    /\ notices' = notices \cup ({p} \X OwnGens(p))
    /\ UNCHANGED <<serverVars, walk, obits, reap, clientVars, mishaps>>

HoldersItems(c) == {id \in Ids : Acquiring(c, id) \/ \E b \in Bufs : pool[id].token[b] = c}

ConsumerDies(c) ==
    /\ Alive(c)
    /\ Cardinality(dead) < MaxDeaths
    /\ dead' = dead \cup {c}
    /\ obits' = obits \cup {<<c, pool[id].gen>> : id \in HoldersItems(c)}
    /\ pc' = [pc EXCEPT ![c] = Idle]
    /\ shadow' = [shadow EXCEPT ![c] = [id \in Ids |-> [b \in Bufs |-> NoShadow]]]
    /\ held' = [held EXCEPT ![c] = [g \in Gens |-> [b \in Bufs |-> 0]]]
    /\ mishaps' = IF \E id \in Live \ HoldersItems(c) :
                         \/ Connected(c, pool[id].gen)
                         \/ pc[c].at = "disconnect" /\ pc[c].id = id
                     THEN mishaps \cup {"unnoticed"} ELSE mishaps
    /\ UNCHANGED <<serverVars, notices, walk, reap>>

(* ProducerDeathObserver: from the last pool of the list to the first.  The  *)
(* pool it was registered for may not be in the list yet.                    *)
WalkBegins ==
    /\ walk = Idle
    /\ \E n \in notices :
          /\ notices' = notices \ {n}
          /\ walk' = IF \E id \in Live : pool[id].gen = n[2]
                        THEN [at |-> "walk", who |-> n[1], i |-> Cardinality(Live) - 1]
                        ELSE Idle
          /\ mishaps' = IF n[2] \in Allocating(n[1]) THEN mishaps \cup {"early"} ELSE mishaps
    /\ UNCHANGED <<serverVars, dead, obits, reap, clientVars>>

Beyond == walk.i >= Cardinality(Live) /\ walk' = Idle /\ mishaps' = mishaps \cup {"wild"}
Walked == IF walk.i = 0 THEN Idle ELSE [at |-> "walk", who |-> walk.who, i |-> walk.i - 1]
ListedAt == {id \in Live : Place(id) = walk.i}

(* A pool of the producer loses its owner...                                 *)
OrphanKept(id) == pool
Orphan(id) == [pool EXCEPT ![id].producer = Nobody]

WalkCompares ==
    /\ walk.at = "walk"
    /\ \/ Beyond /\ UNCHANGED pool
       \/ \E id \in ListedAt :
             /\ \/ /\ pool[id].producer = walk.who
                   /\ pool' = Orphan(id)
                   /\ walk' = [at |-> "look", who |-> walk.who, i |-> walk.i, id |-> id]
                \/ pool[id].producer # walk.who /\ walk' = Walked /\ UNCHANGED pool
             /\ UNCHANGED mishaps
    /\ UNCHANGED <<mPoolId, allocs, mLock, dead, notices, obits, reap, clientVars>>

(* ... the list is read once more for its id...                              *)
WalkLooks ==
    /\ walk.at = "look"
    /\ \/ Beyond
       \/ \E id \in ListedAt :
             /\ walk' = [at |-> "remove", who |-> walk.who, i |-> walk.i, id |-> id]
             /\ mishaps' = IF id # walk.id /\ walk.id \in Live /\ Unused(pool[walk.id])
                              THEN mishaps \cup {"skipped"} ELSE mishaps
    /\ UNCHANGED <<serverVars, dead, notices, obits, reap, clientVars>>

(* ... and the pool that has that id by then is removed, under the lock.     *)
WalkRemoves ==
    /\ walk.at = "remove"
    /\ mLock = Idle
    /\ pool' = [pool EXCEPT ![walk.id] = Settled(@)]
    /\ walk' = Walked
    /\ UNCHANGED <<mPoolId, allocs, mLock, dead, notices, obits, reap, clientVars, mishaps>>

(* ConsumerDeathObserver: release() of each buffer the consumer holds is a   *)
(* cancelBuffer() that frees it and then clears its slot...                  *)
ReapBegins ==
    /\ reap = Idle
    /\ \E o \in obits :
          /\ obits' = obits \ {o}
          /\ \/ \E id \in HoldersItems(o[1]) :
                   /\ pool[id].gen = o[2]
                   /\ reap' = [at |-> "scan", who |-> o[1], id |-> id, gen |-> o[2]]
                   /\ mishaps' = IF Acquiring(o[1], id) THEN mishaps \cup {"early"} ELSE mishaps
             \/ /\ \A id \in HoldersItems(o[1]) : pool[id].gen # o[2]
                /\ UNCHANGED <<reap, mishaps>>
    /\ UNCHANGED <<serverVars, dead, notices, walk, clientVars>>

Reaping(place) == reap.at = place /\ pool[reap.id].gen = reap.gen
Reap(place) == [at |-> place, who |-> reap.who, id |-> reap.id, gen |-> reap.gen]
Slots(c, id) == {b \in Bufs : pool[id].token[b] = c}

ReapReleases ==
    /\ Reaping("scan")
    /\ \E b \in Slots(reap.who, reap.id) :
          /\ pool' = [pool EXCEPT ![reap.id].dequeued = @ \ {b}]
          /\ reap' = [at |-> "clear", who |-> reap.who, id |-> reap.id, gen |-> reap.gen, buf |-> b]
    /\ UNCHANGED <<mPoolId, allocs, mLock, dead, notices, walk, obits, clientVars, mishaps>>

(* ... as the observer does once more itself; by then another consumer may   *)
(* have been granted the buffer...                                           *)
ReapClears ==
    /\ \/ Reaping("clear") /\ reap' = [reap EXCEPT !.at = "again"]
       \/ Reaping("again") /\ reap' = Reap("scan")
    /\ pool' = [pool EXCEPT ![reap.id].token[reap.buf] = Nobody]
    /\ mishaps' = IF reap.buf \in pool[reap.id].dequeued /\ ~Slotless(reap.id, reap.buf)
                     THEN mishaps \cup {"race"} ELSE mishaps
    /\ UNCHANGED <<mPoolId, allocs, mLock, dead, notices, walk, obits, clientVars>>

(* ... the pool is disconnected, and connected again if a buffer is held...  *)
ReapDisconnects ==
    /\ Reaping("scan")
    /\ Slots(reap.who, reap.id) = {}
    /\ pool' = [pool EXCEPT ![reap.id].connected = FALSE]
    /\ reap' = [at |-> "note", who |-> reap.who, id |-> reap.id, gen |-> reap.gen,
                found |-> \E b \in Bufs : pool[reap.id].token[b] # Nobody]
    /\ Cut(reap.id)
    /\ UNCHANGED <<mPoolId, allocs, mLock, dead, notices, walk, obits, clientVars>>

ReapNotes ==
    /\ Reaping("note")
    /\ pool' = IF reap.found THEN [pool EXCEPT ![reap.id].connected = TRUE] ELSE pool
    /\ reap' = IF reap.found THEN Idle ELSE Reap("remove")
    /\ mishaps' = IF /\ reap.found /\ ~InUse(pool[reap.id].gen)
                     /\ \A c \in Consumers : ~Acquiring(c, reap.id)
                     THEN mishaps \cup {"race"} ELSE mishaps
    /\ UNCHANGED <<mPoolId, allocs, mLock, dead, notices, walk, obits, clientVars>>

(* ... and, if none is, removed under the lock.                              *)
ReapRemoves ==
    /\ Reaping("remove")
    /\ mLock = Idle
    /\ reap' = Idle
    /\ pool' = [pool EXCEPT ![reap.id] = Settled(@)]
    /\ UNCHANGED <<mPoolId, allocs, mLock, dead, notices, walk, obits, clientVars, mishaps>>

(* The pool can be removed in between: the observer goes on with an item     *)
(* that is gone.                                                             *)
ReapLost ==
    /\ reap # Idle
    /\ pool[reap.id].gen # reap.gen
    /\ reap' = Idle
    /\ mishaps' = mishaps \cup {"wild"}
    /\ UNCHANGED <<serverVars, dead, notices, walk, obits, clientVars>>

-----------------------------------------------------------------------------
Clients ==
    \/ \E p \in Producers : Alloc(p) \/ ProducerDies(p) \/ \E id \in Ids : Free(p, id)
    \/ \E c \in Consumers :
          \/ Request(c) \/ DisconnectReleases(c) \/ DisconnectDone(c) \/ ConsumerDies(c)
          \/ \E id \in Ids :
                \/ Acquire(c, id) \/ AcquireBackup(c, id) \/ Disconnect(c, id)
                \/ \E b \in Bufs : Release(c, id, b)

Calling == AllocAdds \/ AcquireSlots \/ AcquireConnects

Notices ==
    \/ WalkBegins \/ WalkCompares \/ WalkLooks \/ WalkRemoves
    \/ ReapBegins \/ ReapReleases \/ ReapClears \/ ReapDisconnects \/ ReapNotes \/ ReapRemoves
    \/ ReapLost

(* A behaviour is followed up to its first mishap.                           *)
Next == mishaps = {} /\ (Clients \/ Calling \/ Notices)
Spec == Init /\ [][Next]_vars

(* The binder driver delivers the notices, a call once made ends, and a      *)
(* thread that waits for the lock is not passed over for ever.               *)
FairSpec ==
    /\ Spec
    /\ WF_vars(Calling)
    /\ SF_vars(Notices)
    /\ \A c \in Consumers : SF_vars(Request(c) \/ DisconnectReleases(c) \/ DisconnectDone(c))

-----------------------------------------------------------------------------
Holders(g, b) == {c \in Consumers : held[c][g][b] > 0}
PoolOf(g) == {id \in Ids : pool[id].gen = g}

(* A buffer is held by one caller of one consumer at most, and while it is   *)
(* held the service does not take it for free: through ids given anew,       *)
(* shadows handed out again, and disconnects and deaths of others.           *)
Exclusive ==
    mishaps = {} =>
        \A g \in Gens, b \in Bufs :
            /\ \A c, d \in Holders(g, b) : c = d /\ held[c][g][b] = 1
            /\ Holders(g, b) # {} => \A id \in PoolOf(g) : b \in pool[id].dequeued

(* The shadows of a living consumer are of buffers of the pool that has the  *)
(* id: no pool goes away, and its id to another one, under a consumer, but   *)
(* by a cut; no other mishap has that effect.                                *)
ShadowsLive ==
    "cut" \notin mishaps =>
        \A c \in Consumers \ dead, id \in Ids, b \in Bufs :
            shadow[c][id][b].gen \in {0, pool[id].gen}

(* A buffer is out if and only if its slot names a consumer, whose death     *)
(* then brings it back; unless an observer, or the call that takes the       *)
(* buffer, is about to make both agree.                                      *)
TokensMatch ==
    mishaps = {} =>
        \A id \in Live, b \in Bufs :
            \/ b \in pool[id].dequeued <=> pool[id].token[b] # Nobody
            \/ reap.at \in {"clear", "again"} /\ reap.id = id /\ reap.buf = b
            \/ Slotless(id, b)

(* A pool whose producer freed it or died, and to which no living consumer   *)
(* is connected, goes away, so that allocations never run out of pools; up   *)
(* to the first mishap, some of which leave a pool behind for ever: a notice *)
(* that comes early, misses the pool, or is never sent.                      *)
Owned(g) == \E id \in PoolOf(g) : pool[id].producer \notin dead \cup {Nobody}
Abandoned(g) == PoolOf(g) # {} /\ ~Owned(g) /\ ~InUse(g)

PoolsGoAway == []<>(mishaps # {} \/ \A g \in Gens : ~Abandoned(g))

=============================================================================
