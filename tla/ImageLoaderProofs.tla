--------------------------- MODULE ImageLoaderProofs ---------------------------
(***************************************************************************)
(* Proofs, for any images, workers, cache limit and number of requests, of *)
(* what ImageLoader says of its queues and loads.                          *)
(*                                                                         *)
(* An entry may be stale, but never the only one of a request that waits:  *)
(* it is in the queue of its present priority until a worker starts it.    *)
(* Starting is what makes a load exclusive, as long as an image that is    *)
(* pending is not in the cache.                                            *)
(*                                                                         *)
(* A completion has one holder because its number is new, an image that is *)
(* not pending has none waiting, and a worker that loads has called those  *)
(* it held.  The bytes counted are a sum over the list of images, and what *)
(* an eviction or a hit does to it is proved by induction over the list:   *)
(* the least position at which two sums differ does not exist.             *)
(***************************************************************************)
EXTENDS ImageLoader, TLAPS, SequenceTheorems, WellFoundedInduction

Types ==
  /\ queues \in [Priorities -> Seq(Urls)]
  /\ pending \subseteq Urls /\ started \subseteq pending
  /\ prio \in [Urls -> Priorities]
  /\ cache \in Seq(Urls)
  /\ stop \in {"no", "set", "notified", "joined"}
  /\ wpc \in [Workers -> {"ready", "asleep", "load", "call", "exited"}]
  /\ wurl \in [Workers -> Urls]

(* Every load has started a request of its own.                            *)
Loading ==
  /\ \A w \in Workers : wpc[w] = "load" => wurl[w] \in started
  /\ \A v, w \in Workers :
       wpc[v] = "load" /\ wpc[w] = "load" /\ wurl[v] = wurl[w] => v = w
  /\ \A i \in 1..Len(cache) : cache[i] \notin pending

InQueue(u) == \E i \in 1..Len(queues[prio[u]]) : queues[prio[u]][i] = u

Queued == stop = "no" => \A u \in pending \ started : InQueue(u)

Awake == stop = "no" => QueuesEmpty \/ \E w \in Workers : wpc[w] # "asleep"

IInv == Types /\ Loading /\ Queued /\ Awake

-----------------------------------------------------------------------------
(* A notification makes a sleeping worker ready, if there is one.          *)
LEMMA Notified ==
  ASSUME Types, Notify
  PROVE  /\ wpc' \in [Workers -> {"ready", "asleep", "load", "call", "exited"}]
         /\ \A w \in Workers : wpc'[w] = "load" <=> wpc[w] = "load"
         /\ \A w \in Workers : wpc'[w] = "call" <=> wpc[w] = "call"
         /\ \E w \in Workers : wpc'[w] # "asleep"
<1>1. CASE \E w \in Workers : wpc[w] = "asleep"
  <2>1. PICK w \in Workers : wpc[w] = "asleep" /\ wpc' = [wpc EXCEPT ![w] = "ready"]
    BY <1>1 DEF Notify
  <2> QED
    BY <2>1 DEF Types
<1>2. CASE ~\E w \in Workers : wpc[w] = "asleep"
  BY <1>2, ConstantsAssumption DEF Notify, Types
<1> QED
  BY <1>1, <1>2

(* Queueing an image keeps what is queued.                                 *)
LEMMA Enqueued ==
  ASSUME Types, NEW u \in Urls, NEW p \in Priorities, Enqueue(u, p)
  PROVE  /\ queues' \in [Priorities -> Seq(Urls)]
         /\ \E i \in 1..Len(queues'[p]) : queues'[p][i] = u
         /\ \A q \in Priorities, v \in Urls :
              (\E i \in 1..Len(queues[q]) : queues[q][i] = v) =>
                \E i \in 1..Len(queues'[q]) : queues'[q][i] = v
<1>1. queues' = [queues EXCEPT ![p] = Append(queues[p], u)]
  BY DEF Enqueue
<1>2. queues[p] \in Seq(Urls) /\ Len(queues[p]) \in Nat
  BY LenProperties DEF Types
<1>3. /\ Append(queues[p], u) \in Seq(Urls)
      /\ Len(Append(queues[p], u)) = Len(queues[p]) + 1
      /\ \A i \in 1..Len(queues[p]) : Append(queues[p], u)[i] = queues[p][i]
      /\ Append(queues[p], u)[Len(queues[p]) + 1] = u
  BY <1>2, AppendProperties
<1>4. queues'[p] = Append(queues[p], u) /\ \A q \in Priorities : q # p => queues'[q] = queues[q]
  BY <1>1 DEF Types
<1>5. queues' \in [Priorities -> Seq(Urls)]
  BY <1>1, <1>3 DEF Types
<1>6. \E i \in 1..Len(queues'[p]) : queues'[p][i] = u
  <2>1. Len(queues[p]) + 1 \in 1..Len(queues'[p])
    BY <1>2, <1>3, <1>4
  <2> QED
    BY <1>3, <1>4, <2>1
<1>7. ASSUME NEW q \in Priorities, NEW v \in Urls, NEW i \in 1..Len(queues[q]), queues[q][i] = v
      PROVE  \E j \in 1..Len(queues'[q]) : queues'[q][j] = v
  <2>1. CASE q # p
    BY <1>4, <1>7, <2>1
  <2>2. CASE q = p
    <3>1. i \in 1..Len(queues'[p]) /\ queues'[p][i] = v
      BY <1>2, <1>3, <1>4, <1>7, <2>2
    <3> QED
      BY <2>2, <3>1
  <2> QED
    BY <2>1, <2>2
<1> QED
  BY <1>5, <1>6, <1>7

(* Neither a hit nor an eviction brings an image into the cache that was   *)
(* neither there nor is the one inserted.                                  *)
LEMMA RefreshedCache ==
  ASSUME Types, NEW i \in 1..Len(cache), cache' = Refreshed(i)
  PROVE  /\ cache' \in Seq(Urls)
         /\ \A j \in 1..Len(cache') : \E k \in 1..Len(cache) : cache'[j] = cache[k]
<1> DEFINE a == SubSeq(cache, 1, i - 1)
           b == SubSeq(cache, i + 1, Len(cache))
<1>1. Len(cache) \in Nat /\ i \in Nat /\ \A k \in 1..Len(cache) : cache[k] \in Urls
  BY LenProperties, ElementOfSeq DEF Types
<1>2. /\ a \in Seq(Urls) /\ Len(a) = i - 1
      /\ \A j \in 1..(i - 1) : a[j] = cache[j]
  <2>1. \A k \in 1..(i - 1) : cache[k] \in Urls
    BY <1>1
  <2> QED
    BY <1>1, <2>1, SubSeqProperties
<1>3. /\ b \in Seq(Urls) /\ Len(b) = Len(cache) - i
      /\ \A j \in 1..(Len(cache) - i) : b[j] = cache[i + j]
  <2>1. \A k \in (i + 1)..Len(cache) : cache[k] \in Urls
    BY <1>1
  <2> QED
    BY <1>1, <2>1, SubSeqProperties
<1> HIDE DEF a, b
<1>4. /\ a \o b \in Seq(Urls) /\ Len(a \o b) = Len(cache) - 1
      /\ \A j \in 1..(Len(cache) - 1) : (a \o b)[j] = IF j <= i - 1 THEN a[j] ELSE b[j - (i - 1)]
  <2>1. /\ a \o b \in Seq(Urls) /\ Len(a \o b) = Len(a) + Len(b)
        /\ \A j \in 1..(Len(a) + Len(b)) :
             (a \o b)[j] = IF j <= Len(a) THEN a[j] ELSE b[j - Len(a)]
    BY <1>2, <1>3, ConcatProperties
  <2>2. Len(a) + Len(b) = Len(cache) - 1
    BY <1>1, <1>2, <1>3
  <2> QED
    BY <1>2, <2>1, <2>2
<1>5. cache' = Append(a \o b, cache[i])
  BY DEF Refreshed, a, b
<1>6. /\ cache' \in Seq(Urls) /\ Len(cache') = Len(cache)
      /\ \A j \in 1..(Len(cache) - 1) : cache'[j] = (a \o b)[j]
      /\ cache'[Len(cache)] = cache[i]
  BY <1>1, <1>4, <1>5, AppendProperties
<1>7. ASSUME NEW j \in 1..Len(cache') PROVE \E k \in 1..Len(cache) : cache'[j] = cache[k]
  <2>1. CASE j = Len(cache)
    BY <1>6, <2>1
  <2>2. CASE j <= i - 1
    <3>1. j \in 1..(i - 1) /\ j \in 1..(Len(cache) - 1) /\ j \in 1..Len(cache)
      BY <1>1, <1>6, <2>2
    <3> QED
      BY <1>2, <1>4, <1>6, <2>2, <3>1
  <2>3. CASE j > i - 1 /\ j < Len(cache)
    <3>1. j - (i - 1) \in 1..(Len(cache) - i) /\ j + 1 \in 1..Len(cache)
          /\ j \in 1..(Len(cache) - 1) /\ i + (j - (i - 1)) = j + 1
      BY <1>1, <1>6, <2>3
    <3>2. cache'[j] = b[j - (i - 1)]
      <4>1. cache'[j] = (a \o b)[j]
        BY <1>6, <3>1
      <4>2. (a \o b)[j] = IF j <= i - 1 THEN a[j] ELSE b[j - (i - 1)]
        BY <1>4, <3>1
      <4>3. ~(j <= i - 1)
        BY <1>1, <2>3
      <4> QED
        BY <4>1, <4>2, <4>3
    <3>3. b[j - (i - 1)] = cache[j + 1]
      BY <1>3, <3>1
    <3> QED
      BY <3>1, <3>2, <3>3
  <2> QED
    BY <1>1, <1>6, <2>1, <2>2, <2>3
<1> QED
  BY <1>6, <1>7

LEMMA InsertedCache ==
  ASSUME Types, NEW u \in Urls, InsertMemoryCache(u)
  PROVE  /\ cache' \in Seq(Urls)
         /\ \A j \in 1..Len(cache') :
              cache'[j] = u \/ \E k \in 1..Len(cache) : cache'[j] = cache[k]
<1>1. PICK n \in 0..Len(cache) : cache' = Append(SubSeq(cache, n + 1, Len(cache)), u)
  BY DEF InsertMemoryCache
<1> DEFINE a == SubSeq(cache, n + 1, Len(cache))
<1>2. Len(cache) \in Nat /\ n \in Nat /\ \A k \in (n + 1)..Len(cache) : cache[k] \in Urls
  BY LenProperties, ElementOfSeq DEF Types
<1>3. /\ a \in Seq(Urls) /\ Len(a) = Len(cache) - n
      /\ \A j \in 1..(Len(cache) - n) : a[j] = cache[n + j]
  BY <1>2, SubSeqProperties
<1> HIDE DEF a
<1>4. /\ cache' \in Seq(Urls) /\ Len(cache') = Len(cache) - n + 1
      /\ \A j \in 1..(Len(cache) - n) : cache'[j] = a[j]
      /\ cache'[Len(cache) - n + 1] = u
  <2>1. cache' = Append(a, u)
    BY <1>1 DEF a
  <2> QED
    BY <1>3, <2>1, AppendProperties
<1>5. ASSUME NEW j \in 1..Len(cache'), cache'[j] # u
      PROVE  \E k \in 1..Len(cache) : cache'[j] = cache[k]
  <2>1. j \in 1..(Len(cache) - n) /\ n + j \in 1..Len(cache)
    BY <1>2, <1>4, <1>5
  <2> QED
    BY <1>3, <1>4, <2>1
<1> QED
  BY <1>4, <1>5

-----------------------------------------------------------------------------
(* Each kind of step keeps the invariant.                                  *)
LEMMA HitStep ==
  ASSUME IInv, NEW u \in Urls, RequestHit(u) PROVE IInv'
<1> USE DEF IInv
<1>1. PICK i \in 1..Len(cache) : cache' = Refreshed(i)
  BY DEF RequestHit
<1>2. UNCHANGED <<queues, pending, started, prio, wpc, wurl, stop>>
  BY DEF RequestHit, requestVars, workerVars
<1>3. Types'
  BY <1>1, <1>2, RefreshedCache DEF Types
<1>4. Loading'
  BY <1>1, <1>2, RefreshedCache DEF Loading
<1>5. Queued' /\ Awake'
  BY <1>2 DEF Queued, InQueue, Awake, QueuesEmpty
<1> QED
  BY <1>3, <1>4, <1>5

LEMMA JoinStep ==
  ASSUME IInv, NEW u \in Urls, NEW p \in Priorities, RequestJoin(u, p)
  PROVE  IInv'
<1> USE DEF IInv
<1>1. UNCHANGED <<pending, started, cache, wurl, stop>>
  BY DEF RequestJoin, cacheVars
<1>2. CASE UNCHANGED <<prio, queues, wpc>>
  BY <1>1, <1>2 DEF Types, Loading, Queued, InQueue, Awake, QueuesEmpty
<1>3. CASE prio' = [prio EXCEPT ![u] = p] /\ Enqueue(u, p) /\ Notify
  <2>1. Types'
    BY <1>1, <1>3, Enqueued, Notified DEF Types
  <2>2. Loading'
    BY <1>1, <1>3, Notified DEF Loading
  <2>3. ASSUME NEW v \in pending \ started, InQueue(v) PROVE InQueue(v)'
    <3>1. v \in Urls /\ prio[v] \in Priorities
      BY DEF Types
    <3>2. CASE v = u
      <4>1. prio'[v] = p
        BY <1>3, <3>1, <3>2 DEF Types
      <4> QED
        BY <1>3, <3>2, <4>1, Enqueued DEF InQueue
    <3>3. CASE v # u
      <4>1. prio'[v] = prio[v]
        BY <1>3, <3>3 DEF Types
      <4> QED
        BY <1>3, <2>3, <3>1, <4>1, Enqueued DEF InQueue
    <3> QED
      BY <3>2, <3>3
  <2>4. Queued'
    BY <1>1, <2>3 DEF Queued
  <2>5. Awake'
    BY <1>3, Notified DEF Awake
  <2> QED
    BY <2>1, <2>2, <2>4, <2>5
<1> QED
  BY <1>2, <1>3 DEF RequestJoin, Raise

LEMMA NewStep ==
  ASSUME IInv, NEW u \in Urls, NEW p \in Priorities, RequestNew(u, p)
  PROVE  IInv'
<1> USE DEF IInv
<1>1. /\ u \notin pending /\ pending' = pending \cup {u}
      /\ \A i \in 1..Len(cache) : cache[i] # u
      /\ prio' = [prio EXCEPT ![u] = p] /\ Enqueue(u, p) /\ Notify
      /\ UNCHANGED <<started, cache, wurl, stop>>
  BY DEF RequestNew, cacheVars, Cached
<1>2. Types'
  BY <1>1, Enqueued, Notified DEF Types
<1>3. Loading'
  BY <1>1, Notified DEF Loading
<1>4. ASSUME NEW v \in pending' \ started', stop = "no" PROVE InQueue(v)'
  <2>1. CASE v = u
    <3>1. prio'[v] = p
      BY <1>1, <2>1 DEF Types
    <3> QED
      BY <1>1, <2>1, <3>1, Enqueued DEF InQueue
  <2>2. CASE v # u
    <3>1. v \in pending \ started /\ v \in Urls /\ prio[v] \in Priorities
      BY <1>1, <2>2 DEF Types
    <3>2. prio'[v] = prio[v] /\ InQueue(v)
      BY <1>1, <1>4, <2>2, <3>1 DEF Types, Queued
    <3>3. \E i \in 1..Len(queues'[prio[v]]) : queues'[prio[v]][i] = v
      BY <1>1, <3>1, <3>2, Enqueued DEF InQueue
    <3> QED
      BY <3>2, <3>3 DEF InQueue
  <2> QED
    BY <2>1, <2>2
<1>5. Queued'
  BY <1>1, <1>4 DEF Queued
<1>6. Awake'
  BY <1>1, Notified DEF Awake
<1> QED
  BY <1>2, <1>3, <1>5, <1>6

(* An image a worker takes is the head of the most urgent queue.           *)
LEMMA TakeStep ==
  ASSUME IInv, NEW w \in Workers, Take(w)
  PROVE  /\ IInv'
         /\ \A u \in started' \ started, v \in pending \ started : prio[v] <= prio[u]
<1> USE DEF IInv
<1>1. PICK p \in Priorities :
        /\ Served(p)
        /\ queues' = [queues EXCEPT ![p] = Tail(queues[p])]
        /\ IF Wanted(Head(queues[p]), p)
           THEN /\ started' = started \cup {Head(queues[p])}
                /\ pending' = pending
                /\ Goto(w, "load")
                /\ wurl' = [wurl EXCEPT ![w] = Head(queues[p])]
           ELSE UNCHANGED <<started, pending, wpc, wurl>>
  BY DEF Take, Left
<1>2. wpc[w] = "ready" /\ stop = "no" /\ UNCHANGED <<prio, cache, stop>>
  BY DEF Take, cacheVars
<1> DEFINE h == Head(queues[p])
           t == Tail(queues[p])
<1>3. queues[p] \in Seq(Urls) /\ queues[p] # <<>>
  BY <1>1 DEF Served, Types
<1>4. /\ h \in Urls /\ t \in Seq(Urls) /\ Len(t) = Len(queues[p]) - 1
      /\ \A i \in 1..Len(t) : t[i] = queues[p][i + 1]
      /\ h = queues[p][1] /\ Len(queues[p]) \in Nat
  BY <1>3, HeadTailProperties, LenProperties
<1> HIDE DEF h, t
<1>5. queues'[p] = t /\ \A q \in Priorities : q # p => queues'[q] = queues[q]
  BY <1>1 DEF Types, t
<1>6. queues' \in [Priorities -> Seq(Urls)]
  BY <1>1, <1>4 DEF Types, t
<1>7. pending' = pending /\ started \subseteq started' /\ started' \subseteq started \cup {h}
      /\ (Wanted(h, p) => h \in started')
  BY <1>1 DEF h
<1>8. Types'
  <2>1. /\ wpc' \in [Workers -> {"ready", "asleep", "load", "call", "exited"}]
        /\ wurl' \in [Workers -> Urls]
    BY <1>1, <1>4 DEF Types, Goto, h
  <2>2. started' \subseteq pending'
    BY <1>1, <1>7 DEF Wanted, Types, h
  <2> QED
    BY <1>2, <1>6, <1>7, <2>1, <2>2 DEF Types
<1>9. Loading'
  <2>1. CASE Wanted(h, p)
    <3>1. /\ h \notin started /\ started' = started \cup {h}
          /\ wpc' = [wpc EXCEPT ![w] = "load"] /\ wurl' = [wurl EXCEPT ![w] = h]
      BY <1>1, <2>1 DEF Wanted, Goto, h
    <3>2. /\ wpc'[w] = "load" /\ wurl'[w] = h
          /\ \A v \in Workers : v # w => wpc'[v] = wpc[v] /\ wurl'[v] = wurl[v]
      BY <3>1 DEF Types
    <3>3. \A v \in Workers : v # w /\ wpc'[v] = "load" => wurl'[v] \in started
      BY <3>2 DEF Loading
    <3> QED
      BY <1>2, <1>7, <3>1, <3>2, <3>3 DEF Loading
  <2>2. CASE ~Wanted(h, p)
    BY <1>1, <1>2, <2>2 DEF Loading, h
  <2> QED
    BY <2>1, <2>2
<1>10. Queued'
  <2>1. ASSUME NEW v \in pending' \ started' PROVE InQueue(v)'
    <3>1. v \in pending \ started /\ v \in Urls /\ prio[v] \in Priorities /\ prio' = prio
      BY <1>2, <1>7 DEF Types
    <3>2. PICK i \in 1..Len(queues[prio[v]]) : queues[prio[v]][i] = v
      BY <1>2, <3>1 DEF Queued, InQueue
    <3>3. CASE prio[v] # p
      BY <1>5, <3>1, <3>2, <3>3 DEF InQueue
    <3>4. CASE prio[v] = p
      <4>1. v # h
        BY <1>7, <3>1, <3>4 DEF Wanted
      <4>2. i # 1
        BY <1>4, <3>2, <3>4, <4>1
      <4>3. i - 1 \in 1..Len(t) /\ (i - 1) + 1 = i
        BY <1>4, <3>4, <4>2
      <4>4. t[i - 1] = v
        BY <1>4, <3>2, <3>4, <4>3
      <4>5. i - 1 \in 1..Len(queues'[prio'[v]]) /\ queues'[prio'[v]][i - 1] = v
        BY <1>5, <3>1, <3>4, <4>3, <4>4
      <4> QED
        BY <4>5 DEF InQueue
    <3> QED
      BY <3>3, <3>4
  <2> QED
    BY <2>1 DEF Queued
<1>11. Awake'
  <2>1. wpc'[w] # "asleep"
    BY <1>1, <1>2 DEF Goto, Types
  <2> QED
    BY <2>1 DEF Awake
<1>12. ASSUME NEW u \in started' \ started, NEW v \in pending \ started
       PROVE  prio[v] <= prio[u]
  <2>1. u = h /\ prio[u] = p
    BY <1>1, <1>7, <1>12 DEF Wanted, h
  <2>2. prio[v] \in Priorities /\ InQueue(v)
    BY <1>2 DEF Types, Queued
  <2>3. queues[prio[v]] # <<>>
    <3>1. queues[prio[v]] \in Seq(Urls) /\ Len(queues[prio[v]]) # 0
      BY <2>2, LenProperties DEF InQueue, Types
    <3> QED
      BY <3>1, EmptySeq
  <2>4. ~(prio[v] > p)
    BY <1>1, <2>2, <2>3 DEF Served
  <2> QED
    BY <2>1, <2>2, <2>4 DEF Priorities
<1> QED
  BY <1>8, <1>9, <1>10, <1>11, <1>12

LEMMA LoadedStep ==
  ASSUME IInv, NEW w \in Workers, Loaded(w) PROVE IInv'
<1> USE DEF IInv
<1> DEFINE u == wurl[w]
<1>1. /\ wpc[w] = "load" /\ u \in Urls
      /\ pending' = pending \ {u} /\ started' = started \ {u}
      /\ wpc' = [wpc EXCEPT ![w] = "call"]
      /\ UNCHANGED <<queues, prio, wurl, stop>>
  BY DEF Loaded, Goto, Types
<1>2. /\ cache' \in Seq(Urls)
      /\ \A j \in 1..Len(cache') :
           cache'[j] = u \/ \E k \in 1..Len(cache) : cache'[j] = cache[k]
  BY <1>1, InsertedCache DEF Loaded, cacheVars, Types
<1> HIDE DEF u
<1>3. Types'
  BY <1>1, <1>2 DEF Types
<1>4. wpc'[w] = "call" /\ \A v \in Workers : v # w => wpc'[v] = wpc[v]
  BY <1>1 DEF Types
<1>5. Loading'
  <2>1. \A j \in 1..Len(cache') : cache'[j] \notin pending'
    BY <1>1, <1>2 DEF Loading
  <2>2. \A v \in Workers : wpc'[v] = "load" => wpc[v] = "load" /\ v # w /\ wurl[v] # u
    BY <1>1, <1>4 DEF Loading, u
  <2> QED
    BY <1>1, <2>1, <2>2 DEF Loading
<1>6. Queued'
  BY <1>1 DEF Queued, InQueue
<1>7. Awake'
  BY <1>4 DEF Awake
<1> QED
  BY <1>3, <1>5, <1>6, <1>7

(* Steps of the workers and of the shutdown that leave the requests alone. *)
LEMMA OtherStep ==
  ASSUME IInv, \/ \E w \in Workers : \/ Sleep(w) \/ SpuriousWake(w) \/ Exit(w)
                                     \/ LoadedLate(w) \/ Call(w)
               \/ Stop \/ StopNotify \/ Join \/ UNCHANGED vars
  PROVE  IInv'
<1> USE DEF IInv
<1>1. UNCHANGED <<pending, started, prio, cache, wurl>>
  BY DEF Sleep, SpuriousWake, Exit, LoadedLate, Call, Stop, StopNotify, Join, vars,
    requestVars, cacheVars, workerVars
<1>2. CASE \E w \in Workers : SpuriousWake(w) \/ Exit(w) \/ LoadedLate(w) \/ Call(w)
  <2>1. PICK w \in Workers : SpuriousWake(w) \/ Exit(w) \/ LoadedLate(w) \/ Call(w)
    BY <1>2
  <2>2. \E pc \in {"ready", "call", "exited"} : wpc' = [wpc EXCEPT ![w] = pc]
    BY <2>1 DEF SpuriousWake, Exit, LoadedLate, Call, Goto, Types
  <2>3. UNCHANGED <<queues, stop>>
    BY <2>1 DEF SpuriousWake, Exit, LoadedLate, Call, requestVars
  <2>4. Types'
    BY <1>1, <2>2, <2>3 DEF Types
  <2>5. wpc'[w] \notin {"asleep", "load"} /\ \A v \in Workers : v # w => wpc'[v] = wpc[v]
    BY <2>2 DEF Types
  <2>6. Loading'
    BY <1>1, <2>5 DEF Loading
  <2>7. Queued' /\ Awake'
    BY <1>1, <2>3, <2>5 DEF Queued, InQueue, Awake
  <2> QED
    BY <2>4, <2>6, <2>7
<1>3. CASE \E w \in Workers : Sleep(w)
  <2>1. PICK w \in Workers : Sleep(w)
    BY <1>3
  <2>2. /\ QueuesEmpty /\ wpc' = [wpc EXCEPT ![w] = "asleep"] /\ UNCHANGED <<queues, stop>>
    BY <2>1 DEF Sleep, Goto, requestVars
  <2>3. Types'
    BY <1>1, <2>2 DEF Types
  <2>4. Loading'
    BY <1>1, <2>2 DEF Loading, Types
  <2>5. Queued' /\ Awake'
    BY <1>1, <2>2 DEF Queued, InQueue, Awake, QueuesEmpty
  <2> QED
    BY <2>3, <2>4, <2>5
<1>4. CASE Stop
  <2>1. stop' = "set" /\ queues' = [p \in Priorities |-> <<>>] /\ UNCHANGED wpc
    BY <1>4 DEF Stop, workerVars
  <2>2. queues' \in [Priorities -> Seq(Urls)]
    BY <2>1, EmptySeq
  <2> QED
    BY <1>1, <2>1, <2>2 DEF Types, Loading, Queued, Awake
<1>5. CASE StopNotify
  <2>1. stop' = "notified" /\ queues' = queues /\ NotifyAll
    BY <1>5 DEF StopNotify, requestVars
  <2>2. wpc' \in [Workers -> {"ready", "asleep", "load", "call", "exited"}]
        /\ \A w \in Workers : wpc'[w] = "load" <=> wpc[w] = "load"
    BY <2>1 DEF NotifyAll, Types
  <2> QED
    BY <1>1, <2>1, <2>2 DEF Types, Loading, Queued, Awake
<1>6. CASE Join \/ UNCHANGED vars
  <2>1. UNCHANGED <<queues, wpc>> /\ (stop' = stop \/ stop' = "joined")
    BY <1>6 DEF Join, vars, requestVars, workerVars
  <2> QED
    BY <1>1, <2>1 DEF Types, Loading, Queued, InQueue, Awake, QueuesEmpty
<1> QED
  BY <1>2, <1>3, <1>4, <1>5, <1>6

-----------------------------------------------------------------------------
LEMMA InitIInv == Init => IInv
<1> SUFFICES ASSUME Init PROVE IInv
  OBVIOUS
<1>1. /\ queues = [p \in Priorities |-> <<>>] /\ cache = <<>> /\ pending = {}
      /\ started = {} /\ stop = "no" /\ wpc = [w \in Workers |-> "ready"]
  BY DEF Init
<1>2. cache \in Seq(Urls) /\ queues \in [Priorities -> Seq(Urls)] /\ Len(cache) = 0
  BY <1>1, EmptySeq
<1>3. prio \in [Urls -> Priorities]
  BY DEF Init, Priorities
<1>4. wurl \in [Workers -> Urls]
  <2>1. (CHOOSE u \in Urls : TRUE) \in Urls
    BY ConstantsAssumption
  <2> QED
    BY <2>1 DEF Init
<1>5. Types
  BY <1>1, <1>2, <1>3, <1>4 DEF Types
<1>6. Loading /\ Queued
  BY <1>1, <1>2 DEF Loading, Queued
<1>7. Awake
  BY <1>1 DEF Awake, QueuesEmpty
<1> QED
  BY <1>5, <1>6, <1>7 DEF IInv

LEMMA NextIInv == IInv /\ [Next]_vars => IInv'
BY HitStep, JoinStep, NewStep, TakeStep, LoadedStep, OtherStep
   DEF Next, Request, Work, Ended

LEMMA Invariance == Spec => []IInv
BY InitIInv, NextIInv, PTL DEF Spec

(* A request that no worker has started is in the queue that will be       *)
(* served for its priority, and somebody is awake to serve it              *)
(* (ImageLoader::Request, WorkerLoop).                                     *)
THEOREM NothingLost == Spec => []NoLostRequest
<1>1. IInv => NoLostRequest
  BY DEF IInv, Queued, InQueue, Awake, NoLostRequest
<1> QED
  BY <1>1, Invariance, PTL

(* No two workers load the same image, which both would write to its file, *)
(* and none loads what the cache has (WorkerLoop, PendingRequest::started).*)
THEOREM LoadsExclusive == Spec => []SingleLoader
<1>1. IInv => SingleLoader
  BY DEF IInv, Types, Loading, SingleLoader, Cached
<1> QED
  BY <1>1, Invariance, PTL

(* The image a worker takes is as urgent as any that waits (PopNext).      *)
THEOREM UrgentServed == Spec => UrgentFirst
<1>1. IInv /\ [Next]_vars =>
        [\A u \in started' \ started, v \in pending \ started : prio[v] <= prio[u]]_vars
  <2> SUFFICES ASSUME IInv, Next
               PROVE  \A u \in started' \ started, v \in pending \ started : prio[v] <= prio[u]
    OBVIOUS
  <2>1. CASE \E w \in Workers : Take(w)
    BY <2>1, TakeStep
  <2>2. CASE ~\E w \in Workers : Take(w)
    <3>1. started' \subseteq started
      BY <2>2 DEF Next, Request, RequestHit, RequestJoin, RequestNew, Sleep, SpuriousWake,
        Work, Exit, Loaded, LoadedLate, Call, Stop, StopNotify, Join, Ended, vars,
        requestVars
    <3> QED
      BY <3>1
  <2> QED
    BY <2>1, <2>2
<1> QED
  BY <1>1, Invariance, PTL DEF Spec, UrgentFirst

-----------------------------------------------------------------------------
(* The least of a set of numbers, from which an induction takes the step   *)
(* before.                                                                 *)
LEMMA Least ==
  ASSUME NEW I, I \subseteq Nat, I # {}
  PROVE  \E i \in I : \A j \in I : i <= j
<1>1. PICK i \in I : \A j \in I : <<j, i>> \notin OpToRel(<, Nat)
  BY NatLessThanWellFounded, WFMin, Zenon
<1>2. \A j \in I : ~(j < i)
  BY <1>1, Zenon DEF OpToRel
<1>3. \A j \in I : i <= j
  <2> TAKE j \in I
  <2>1. i \in Nat /\ j \in Nat /\ ~(j < i)
    BY <1>2
  <2> QED
    BY ONLY <2>1
<1> QED
  BY <1>3

(* The sums of the first n sizes of a list.                                *)
Sums(q, f) ==
  /\ f \in [0..Len(q) -> Int] /\ f[0] = 0
  /\ \A n \in 1..Len(q) : f[n] = f[n - 1] + Size[q[n]]

LEMMA SumsAgree ==
  ASSUME NEW q \in Seq(Urls), NEW f, Sums(q, f), NEW g, g[0] = 0,
         \A n \in 1..Len(q) : g[n] = g[n - 1] + Size[q[n]]
  PROVE  \A n \in 0..Len(q) : f[n] = g[n]
<1> DEFINE I == {n \in 0..Len(q) : f[n] # g[n]}
<1>1. Len(q) \in Nat /\ I \subseteq Nat
  BY LenProperties
<1>2. SUFFICES ASSUME I # {} PROVE FALSE
  OBVIOUS
<1>3. PICK n \in I : \A m \in I : n <= m
  BY <1>1, <1>2, Least
<1>4. n # 0
  BY <1>3 DEF Sums
<1>5. n \in 1..Len(q) /\ n - 1 \in 0..Len(q) /\ ~(n <= n - 1)
  BY <1>1, <1>3, <1>4
<1>6. f[n - 1] = g[n - 1]
  BY <1>3, <1>5
<1>7. f[n] = f[n - 1] + Size[q[n]] /\ g[n] = g[n - 1] + Size[q[n]]
  BY <1>5 DEF Sums
<1>8. f[n] = g[n]
  BY <1>6, <1>7
<1> QED
  BY <1>3, <1>8

LEMMA SumsGive ==
  ASSUME NEW q \in Seq(Urls), NEW f, Sums(q, f)
  PROVE  TotalSize(q) = f[Len(q)]
<1> DEFINE F(g) == [n \in 0..Len(q) |-> IF n = 0 THEN 0 ELSE g[n - 1] + Size[q[n]]]
           sum == CHOOSE g : g = F(g)
<1>1. Len(q) \in Nat
  BY LenProperties
<1>2. f = F(f)
  <2>1. ASSUME NEW n \in 0..Len(q)
        PROVE  f[n] = IF n = 0 THEN 0 ELSE f[n - 1] + Size[q[n]]
    <3>1. CASE n = 0
      BY <3>1 DEF Sums
    <3>2. CASE n # 0
      <4>1. n \in 1..Len(q)
        BY <1>1, <3>2
      <4> QED
        BY <3>2, <4>1 DEF Sums
    <3> QED
      BY <3>1, <3>2
  <2>2. f \in [0..Len(q) -> Int]
    BY DEF Sums
  <2> QED
    BY <2>1, <2>2
<1>3. sum = F(sum)
  BY <1>2
<1>4. sum[0] = 0 /\ \A n \in 1..Len(q) : sum[n] = sum[n - 1] + Size[q[n]]
  <2>1. \A n \in 0..Len(q) : sum[n] = IF n = 0 THEN 0 ELSE sum[n - 1] + Size[q[n]]
    BY <1>3
  <2>2. 0 \in 0..Len(q) /\ \A n \in 1..Len(q) : n \in 0..Len(q) /\ n # 0
    BY <1>1
  <2> HIDE DEF sum
  <2> QED
    BY <2>1, <2>2
<1>5. TotalSize(q) = sum[Len(q)]
  BY DEF TotalSize
<1> HIDE DEF sum
<1>6. f[Len(q)] = sum[Len(q)]
  BY <1>1, <1>4, SumsAgree
<1> QED
  BY <1>5, <1>6

LEMMA SumsExist ==
  ASSUME NEW q \in Seq(Urls)
  PROVE  \E f \in [0..Len(q) -> Nat] : Sums(q, f)
<1> DEFINE Has(n, f) == /\ f \in [0..n -> Nat] /\ f[0] = 0
                        /\ \A k \in 1..n : f[k] = f[k - 1] + Size[q[k]]
           I == {n \in 0..Len(q) : ~\E f : Has(n, f)}
<1>1. Len(q) \in Nat /\ I \subseteq Nat /\ \A n \in 1..Len(q) : Size[q[n]] \in Nat
  BY LenProperties, ElementOfSeq, ConstantsAssumption
<1>2. I = {}
  <2>1. SUFFICES ASSUME I # {} PROVE FALSE
    OBVIOUS
  <2>2. PICK n \in I : \A m \in I : n <= m
    BY <1>1, <2>1, Least
  <2>3. n # 0
    <3>1. Has(0, [k \in 0..0 |-> 0])
      OBVIOUS
    <3> QED
      BY <2>2, <3>1
  <2>4. n \in 1..Len(q) /\ n - 1 \in 0..Len(q) /\ ~(n <= n - 1)
    BY <1>1, <2>2, <2>3
  <2>5. PICK f : Has(n - 1, f)
    BY <2>2, <2>4
  <2> DEFINE g == [k \in 0..n |-> IF k = n THEN f[n - 1] + Size[q[n]] ELSE f[k]]
  <2>6. n - 1 \in 0..(n - 1) /\ 0 \in 0..(n - 1) /\ \A k \in 0..n : k # n => k \in 0..(n - 1)
    BY <2>4
  <2>7. f[n - 1] + Size[q[n]] \in Nat /\ \A k \in 0..(n - 1) : f[k] \in Nat
    BY <1>1, <2>4, <2>5, <2>6
  <2>8. g \in [0..n -> Nat] /\ g[0] = 0
    BY <2>4, <2>5, <2>6, <2>7
  <2>9. ASSUME NEW k \in 1..n PROVE g[k] = g[k - 1] + Size[q[k]]
    <3>1. /\ k \in 0..n /\ k - 1 \in 0..n /\ k - 1 # n
          /\ k # n => k \in 1..(n - 1) /\ k - 1 \in 0..(n - 1)
      BY <2>4
    <3>2. g[k - 1] = f[k - 1]
      BY <3>1
    <3>3. CASE k = n
      BY <3>1, <3>2, <3>3
    <3>4. CASE k # n
      BY <2>5, <3>1, <3>2, <3>4
    <3> QED
      BY <3>3, <3>4
  <2>10. Has(n, g)
    BY <2>8, <2>9
  <2> QED
    BY <2>2, <2>10
<1>3. PICK f : Has(Len(q), f)
  BY <1>1, <1>2
<1> QED
  BY <1>1, <1>3 DEF Sums

(* The total size adds up over the parts of a list.                        *)
LEMMA TotalOfParts ==
  ASSUME NEW q \in Seq(Urls)
  PROVE  /\ TotalSize(q) \in Nat
         /\ \A n \in 0..Len(q) :
              TotalSize(q) = TotalSize(SubSeq(q, 1, n)) + TotalSize(SubSeq(q, n + 1, Len(q)))
         /\ \A n \in 1..Len(q) :
              TotalSize(SubSeq(q, 1, n)) = TotalSize(SubSeq(q, 1, n - 1)) + Size[q[n]]
         /\ \A n \in 0..Len(q) : TotalSize(SubSeq(q, 1, n)) \in Nat
                                 /\ TotalSize(SubSeq(q, n + 1, Len(q))) \in Nat
<1>1. PICK f \in [0..Len(q) -> Nat] : Sums(q, f)
  BY SumsExist
<1>2. Len(q) \in Nat /\ \A n \in 1..Len(q) : q[n] \in Urls
  BY LenProperties, ElementOfSeq
<1>3. TotalSize(q) = f[Len(q)]
  BY <1>1, SumsGive
<1>4. ASSUME NEW n \in 0..Len(q)
      PROVE  SubSeq(q, 1, n) \in Seq(Urls) /\ TotalSize(SubSeq(q, 1, n)) = f[n]
  <2> DEFINE a == SubSeq(q, 1, n)
             g == [k \in 0..n |-> f[k]]
  <2>1. a \in Seq(Urls) /\ Len(a) = n /\ \A k \in 1..n : a[k] = q[k]
    <3>1. \A k \in 1..n : q[k] \in Urls
      BY <1>2
    <3> QED
      BY <1>2, <3>1, SubSeqProperties
  <2> HIDE DEF a
  <2>2. g \in [0..Len(a) -> Int] /\ g[0] = 0 /\ \A k \in 0..n : g[k] = f[k] /\ k \in 0..Len(q)
    <3>1. \A k \in 0..n : k \in 0..Len(q) /\ f[k] \in Int
      BY <1>2
    <3>2. 0 \in 0..n /\ f[0] = 0 /\ \A k \in 0..n : g[k] = f[k]
      BY <1>1, <1>2 DEF Sums
    <3> QED
      BY <2>1, <3>1, <3>2
  <2>3. ASSUME NEW k \in 1..n PROVE g[k] = g[k - 1] + Size[a[k]]
    <3>1. k \in 1..Len(q) /\ k \in 0..n /\ k - 1 \in 0..n
      BY <1>2
    <3>2. f[k] = f[k - 1] + Size[q[k]]
      BY <1>1, <3>1 DEF Sums
    <3> QED
      BY <2>1, <2>2, <3>1, <3>2
  <2> HIDE DEF g
  <2>4. Sums(a, g)
    BY <2>1, <2>2, <2>3 DEF Sums
  <2>5. TotalSize(a) = g[n]
    BY <2>1, <2>4, SumsGive
  <2> QED
    BY <1>2, <2>1, <2>2, <2>5 DEF a
<1>5. ASSUME NEW n \in 0..Len(q)
      PROVE  /\ SubSeq(q, n + 1, Len(q)) \in Seq(Urls)
             /\ TotalSize(SubSeq(q, n + 1, Len(q))) = f[Len(q)] - f[n]
  <2> DEFINE b == SubSeq(q, n + 1, Len(q))
             m == Len(q) - n
             g == [k \in 0..m |-> f[n + k] - f[n]]
  <2>0. m \in Nat
    BY <1>2
  <2>1. b \in Seq(Urls) /\ Len(b) = m /\ \A k \in 1..m : b[k] = q[n + k]
    <3>1. \A k \in (n + 1)..Len(q) : q[k] \in Urls
      BY <1>2
    <3> QED
      BY <1>2, <3>1, SubSeqProperties
  <2>2. /\ \A k \in 0..m : n + k \in 0..Len(q)
        /\ \A k \in 1..m : n + k \in 1..Len(q) /\ n + (k - 1) = (n + k) - 1 /\ k - 1 \in 0..m /\ k \in 0..m
        /\ n + m = Len(q) /\ n + 0 = n /\ 0 \in 0..m /\ m \in 0..m
    BY <1>2
  <2>3. \A k \in 0..Len(q) : f[k] \in Nat
    BY <1>1
  <2>4. g \in [0..m -> Int] /\ \A k \in 0..m : g[k] = f[n + k] - f[n]
    BY <2>2, <2>3
  <2> HIDE DEF b, m, g
  <2>5. g[0] = 0 /\ g[m] = f[Len(q)] - f[n]
    BY <2>2, <2>3, <2>4
  <2>6. ASSUME NEW k \in 1..m PROVE g[k] = g[k - 1] + Size[b[k]]
    <3>1. f[n + k] = f[n + (k - 1)] + Size[q[n + k]]
      BY <1>1, <2>2 DEF Sums
    <3>2. g[k] = f[n + k] - f[n] /\ g[k - 1] = f[n + (k - 1)] - f[n] /\ b[k] = q[n + k]
      BY <2>1, <2>2, <2>4
    <3>3. f[n + (k - 1)] \in Nat /\ f[n] \in Nat /\ Size[q[n + k]] \in Nat
      <4>1. n + (k - 1) \in 0..Len(q) /\ n \in 0..Len(q) /\ q[n + k] \in Urls
        BY <1>2, <2>2
      <4> QED
        BY <2>3, <4>1, ConstantsAssumption
    <3> QED
      BY <3>1, <3>2, <3>3
  <2>7. Sums(b, g)
    BY <2>1, <2>4, <2>5, <2>6 DEF Sums
  <2>8. TotalSize(b) = g[m]
    BY <2>1, <2>7, SumsGive
  <2> QED
    BY <2>1, <2>5, <2>8 DEF b
<1>6. \A n \in 0..Len(q) : f[n] \in Nat
  BY <1>1
<1>7. TotalSize(q) \in Nat
  BY <1>2, <1>3, <1>6
<1>8. ASSUME NEW n \in 0..Len(q)
      PROVE  TotalSize(q) = TotalSize(SubSeq(q, 1, n)) + TotalSize(SubSeq(q, n + 1, Len(q)))
  <2>1. f[n] \in Nat /\ f[Len(q)] \in Nat
    BY <1>2, <1>6
  <2> QED
    BY <1>3, <1>4, <1>5, <2>1
<1>9. ASSUME NEW n \in 1..Len(q)
      PROVE  TotalSize(SubSeq(q, 1, n)) = TotalSize(SubSeq(q, 1, n - 1)) + Size[q[n]]
  <2>1. n \in 0..Len(q) /\ n - 1 \in 0..Len(q)
    BY <1>2
  <2>2. f[n] = f[n - 1] + Size[q[n]]
    BY <1>1 DEF Sums
  <2> QED
    BY <1>4, <2>1, <2>2
<1>10. \A n \in 0..Len(q) : /\ TotalSize(SubSeq(q, 1, n)) \in Nat
                            /\ TotalSize(SubSeq(q, n + 1, Len(q))) \in Nat
  <2> TAKE n \in 0..Len(q)
  <2>1. SubSeq(q, 1, n) \in Seq(Urls) /\ SubSeq(q, n + 1, Len(q)) \in Seq(Urls)
    BY <1>4, <1>5
  <2>2. \A s \in Seq(Urls) : TotalSize(s) \in Nat
    <3> TAKE s \in Seq(Urls)
    <3>1. PICK h \in [0..Len(s) -> Nat] : Sums(s, h)
      BY SumsExist
    <3>2. TotalSize(s) = h[Len(s)] /\ Len(s) \in Nat
      BY <3>1, SumsGive, LenProperties
    <3> QED
      BY <3>1, <3>2
  <2> QED
    BY <2>1, <2>2
<1> QED
  BY <1>7, <1>8, <1>9, <1>10

LEMMA TotalOfNone == TotalSize(<<>>) = 0
<1> DEFINE g == [n \in 0..0 |-> 0]
<1>1. <<>> \in Seq(Urls) /\ Len(<<>>) = 0
  OBVIOUS
<1>2. Sums(<<>>, g) /\ g[0] = 0
  BY <1>1 DEF Sums
<1> QED
  BY <1>1, <1>2, SumsGive

LEMMA TotalOfAppend ==
  ASSUME NEW q \in Seq(Urls), NEW u \in Urls
  PROVE  TotalSize(Append(q, u)) = TotalSize(q) + Size[u]
<1> DEFINE s == Append(q, u)
<1>1. /\ s \in Seq(Urls) /\ Len(s) = Len(q) + 1 /\ s[Len(s)] = u /\ Len(q) \in Nat
      /\ \A i \in 1..Len(q) : s[i] = q[i]
  BY AppendProperties, LenProperties
<1> HIDE DEF s
<1>2. SubSeq(s, 1, Len(s)) = s /\ SubSeq(s, 1, Len(s) - 1) = q
  <2>1. \A i \in 1..Len(s) : s[i] \in Urls
    BY <1>1, ElementOfSeq
  <2>2. /\ SubSeq(s, 1, Len(s)) \in Seq(Urls) /\ Len(SubSeq(s, 1, Len(s))) = Len(s)
        /\ \A i \in 1..Len(s) : SubSeq(s, 1, Len(s))[i] = s[i]
    BY <1>1, <2>1, SubSeqProperties
  <2>3. /\ SubSeq(s, 1, Len(q)) \in Seq(Urls) /\ Len(SubSeq(s, 1, Len(q))) = Len(q)
        /\ \A i \in 1..Len(q) : SubSeq(s, 1, Len(q))[i] = s[i]
    <3>1. \A i \in 1..Len(q) : s[i] \in Urls
      BY <1>1, <2>1
    <3> QED
      BY <1>1, <3>1, SubSeqProperties
  <2>4. Len(s) - 1 = Len(q)
    BY <1>1
  <2>5. SubSeq(s, 1, Len(s)) = s
    BY <1>1, <2>2, SeqEqual
  <2>6. SubSeq(s, 1, Len(q)) = q
    BY <1>1, <2>3, SeqEqual
  <2> QED
    BY <2>4, <2>5, <2>6
<1>3. Len(s) \in 1..Len(s)
  BY <1>1
<1>4. TotalSize(SubSeq(s, 1, Len(s))) = TotalSize(SubSeq(s, 1, Len(s) - 1)) + Size[s[Len(s)]]
  BY <1>1, <1>3, TotalOfParts
<1> QED
  BY <1>1, <1>2, <1>4 DEF s

LEMMA TotalOfConcat ==
  ASSUME NEW a \in Seq(Urls), NEW b \in Seq(Urls)
  PROVE  TotalSize(a \o b) = TotalSize(a) + TotalSize(b)
<1> DEFINE s == a \o b
<1>1. /\ s \in Seq(Urls) /\ Len(s) = Len(a) + Len(b) /\ Len(a) \in Nat /\ Len(b) \in Nat
      /\ \A i \in 1..(Len(a) + Len(b)) : s[i] = IF i <= Len(a) THEN a[i] ELSE b[i - Len(a)]
  <2>1. /\ s \in Seq(Urls) /\ Len(s) = Len(a) + Len(b)
        /\ \A i \in 1..(Len(a) + Len(b)) : s[i] = IF i <= Len(a) THEN a[i] ELSE b[i - Len(a)]
    BY ConcatProperties
  <2> QED
    BY <2>1, LenProperties
<1> HIDE DEF s
<1>2. \A i \in 1..Len(s) : s[i] \in Urls
  BY <1>1, ElementOfSeq
<1>3. SubSeq(s, 1, Len(a)) = a
  <2>1. \A i \in 1..Len(a) : i \in 1..Len(s) /\ s[i] \in Urls /\ s[i] = a[i]
    BY <1>1, <1>2
  <2>2. /\ SubSeq(s, 1, Len(a)) \in Seq(Urls) /\ Len(SubSeq(s, 1, Len(a))) = Len(a)
        /\ \A i \in 1..Len(a) : SubSeq(s, 1, Len(a))[i] = s[i]
    BY <1>1, <2>1, SubSeqProperties
  <2> QED
    BY <2>1, <2>2, SeqEqual
<1>4. SubSeq(s, Len(a) + 1, Len(s)) = b
  <2>1. \A i \in (Len(a) + 1)..Len(s) : s[i] \in Urls
    BY <1>1, <1>2
  <2>2. /\ SubSeq(s, Len(a) + 1, Len(s)) \in Seq(Urls) /\ Len(SubSeq(s, Len(a) + 1, Len(s))) = Len(b)
        /\ \A i \in 1..Len(b) : SubSeq(s, Len(a) + 1, Len(s))[i] = s[Len(a) + i]
    BY <1>1, <2>1, SubSeqProperties
  <2>3. \A i \in 1..Len(b) : s[Len(a) + i] = b[i]
    <3> TAKE i \in 1..Len(b)
    <3>1. Len(a) + i \in 1..(Len(a) + Len(b)) /\ ~(Len(a) + i <= Len(a)) /\ (Len(a) + i) - Len(a) = i
      BY <1>1
    <3> QED
      BY <1>1, <3>1
  <2> QED
    BY <2>2, <2>3, SeqEqual
<1>5. Len(a) \in 0..Len(s)
  BY <1>1
<1>6. TotalSize(s) = TotalSize(SubSeq(s, 1, Len(a))) + TotalSize(SubSeq(s, Len(a) + 1, Len(s)))
  BY <1>1, <1>5, TotalOfParts
<1> QED
  BY <1>3, <1>4, <1>6 DEF s

-----------------------------------------------------------------------------
(* A completion that is not yet called is held by one request or worker,   *)
(* for the image it was handed over for.                                   *)
HeldTypes ==
  /\ waiting \in [Urls -> SUBSET (1..MaxRequests)]
  /\ open \in [Urls -> SUBSET (1..MaxRequests)]
  /\ calls \in [Workers -> SUBSET (1..MaxRequests)]
  /\ requests \in 0..MaxRequests

Held ==
  /\ \A u \in Urls : waiting[u] \subseteq open[u]
  /\ \A w \in Workers : calls[w] \subseteq open[wurl[w]]
  /\ \A u \in Urls : \A r \in open[u] :
       r \in waiting[u] \/ \E w \in Workers : wurl[w] = u /\ r \in calls[w]
  /\ \A w \in Workers : calls[w] \cap waiting[wurl[w]] = {}
  /\ \A v, w \in Workers : v # w => calls[v] \cap calls[w] = {}

(* Why it stays so: completions are new, an image is asked for anew when   *)
(* nothing waits for it, and a worker loads when it has called them all.   *)
Fresh ==
  /\ \A u \in Urls : open[u] \subseteq 1..requests
  /\ \A u, v \in Urls : u # v => open[u] \cap open[v] = {}
  /\ \A u \in Urls : u \notin pending => waiting[u] = {}
  /\ \A w \in Workers : wpc[w] # "call" => calls[w] = {}

HInv == IInv /\ HeldTypes /\ Held /\ Fresh

LEMMA SameHeld ==
  ASSUME HInv, UNCHANGED <<waiting, open, calls, wurl>>, pending \subseteq pending',
         requests' \in 0..MaxRequests, requests <= requests',
         \A w \in Workers : wpc'[w] # "call" => wpc[w] # "call" \/ calls[w] = {}
  PROVE  HeldTypes' /\ Held' /\ Fresh'
<1> USE DEF HInv
<1>1. HeldTypes'
  BY DEF HeldTypes
<1>2. Held'
  BY DEF Held
<1>3. Fresh'
  <2>1. \A u \in Urls : open'[u] \subseteq 1..requests'
    <3>1. requests \in Nat /\ requests' \in Nat
      BY ConstantsAssumption DEF HeldTypes
    <3>2. 1..requests \subseteq 1..requests'
      BY <3>1
    <3> QED
      BY <3>2 DEF Fresh
  <2> QED
    BY <2>1 DEF Fresh
<1> QED
  BY <1>1, <1>2, <1>3

(* The completion of the request being made is added to those that wait.   *)
LEMMA AddedHeld ==
  ASSUME HInv, NEW u \in Urls, NEW p, Asking, waiting' = Joined(u, p), open' = Opened(u, p),
         u \in pending', pending \subseteq pending', UNCHANGED <<calls, wurl>>,
         \A w \in Workers : wpc'[w] = "call" <=> wpc[w] = "call"
  PROVE  HeldTypes' /\ Held' /\ Fresh'
<1> USE DEF HInv
<1> DEFINE c == Completion(p)
<1>1. requests \in Nat /\ MaxRequests \in Nat /\ requests < MaxRequests /\ requests' = requests + 1
  BY ConstantsAssumption DEF HeldTypes, Asking
<1>2. /\ c \subseteq {requests + 1} /\ requests + 1 \in 1..MaxRequests /\ requests + 1 \in 1..requests'
      /\ requests' \in 0..MaxRequests /\ 1..requests \subseteq 1..requests' /\ requests + 1 \notin 1..requests
  BY <1>1 DEF Completion
<1>3. /\ waiting' = [waiting EXCEPT ![u] = waiting[u] \cup c]
      /\ open' = [open EXCEPT ![u] = open[u] \cup c]
  BY DEF Joined, Opened
<1> HIDE DEF c
<1>4. /\ waiting'[u] = waiting[u] \cup c /\ open'[u] = open[u] \cup c
      /\ \A v \in Urls : v # u => waiting'[v] = waiting[v] /\ open'[v] = open[v]
  BY <1>3 DEF HeldTypes
<1>5. \A v \in Urls : c \cap open[v] = {}
  BY <1>2 DEF Fresh
<1>6. \A w \in Workers : wurl[w] \in Urls
  BY DEF IInv, Types
<1>7. HeldTypes'
  <2>1. /\ waiting[u] \cup c \in SUBSET (1..MaxRequests)
        /\ open[u] \cup c \in SUBSET (1..MaxRequests)
    BY <1>2 DEF HeldTypes
  <2> QED
    BY <1>2, <1>3, <2>1 DEF HeldTypes
<1>8. Held'
  <2>1. \A v \in Urls : waiting'[v] \subseteq open'[v] /\ open[v] \subseteq open'[v]
    BY <1>4 DEF Held
  <2>2. \A w \in Workers : calls'[w] \subseteq open'[wurl'[w]]
    BY <1>6, <2>1 DEF Held
  <2>3. ASSUME NEW v \in Urls, NEW r \in open'[v]
        PROVE  r \in waiting'[v] \/ \E w \in Workers : wurl'[w] = v /\ r \in calls'[w]
    <3>1. r \in open[v] \/ r \in waiting'[v]
      BY <1>4, <2>3
    <3> QED
      BY <1>4, <3>1 DEF Held
  <2>4. ASSUME NEW w \in Workers PROVE calls'[w] \cap waiting'[wurl'[w]] = {}
    <3>1. calls[w] \cap c = {}
      BY <1>5, <1>6 DEF Held
    <3> QED
      BY <1>4, <1>6, <3>1 DEF Held
  <2>5. \A v, w \in Workers : v # w => calls'[v] \cap calls'[w] = {}
    BY DEF Held
  <2> QED
    BY <2>1, <2>2, <2>3, <2>4, <2>5 DEF Held
<1>9. Fresh'
  <2>1. \A v \in Urls : open'[v] \subseteq 1..requests'
    BY <1>2, <1>4 DEF Fresh
  <2>2. \A v, w \in Urls : v # w => open'[v] \cap open'[w] = {}
    BY <1>4, <1>5 DEF Fresh
  <2>3. \A v \in Urls : v \notin pending' => waiting'[v] = {}
    BY <1>4 DEF Fresh
  <2>4. \A w \in Workers : wpc'[w] # "call" => calls'[w] = {}
    BY DEF Fresh
  <2> QED
    BY <2>1, <2>2, <2>3, <2>4 DEF Fresh
<1> QED
  BY <1>7, <1>8, <1>9

LEMMA RequestHeld ==
  ASSUME HInv, NEW u \in Urls, NEW p \in Priorities, Request(u, p)
  PROVE  HeldTypes' /\ Held' /\ Fresh'
<1> USE DEF HInv
<1>1. CASE RequestHit(u)
  <2>1. UNCHANGED <<waiting, open, calls, wurl, pending, wpc>> /\ Asking
    BY <1>1 DEF RequestHit, requestVars, workerVars
  <2>2. requests' \in 0..MaxRequests /\ requests <= requests'
    BY <2>1, ConstantsAssumption DEF Asking, HeldTypes
  <2> QED
    BY <2>1, <2>2, SameHeld
<1>2. CASE RequestJoin(u, p)
  <2>1. /\ Asking /\ waiting' = Joined(u, p) /\ open' = Opened(u, p) /\ u \in pending
        /\ UNCHANGED <<pending, calls, wurl>> /\ Raise(u, p)
    BY <1>2 DEF RequestJoin
  <2>2. \A w \in Workers : wpc'[w] = "call" <=> wpc[w] = "call"
    BY <2>1, Notified DEF Raise, IInv
  <2> QED
    BY <2>1, <2>2, AddedHeld
<1>3. CASE RequestNew(u, p)
  <2>1. /\ Asking /\ waiting' = [waiting EXCEPT ![u] = Completion(p)] /\ open' = Opened(u, p)
        /\ u \notin pending /\ pending' = pending \cup {u} /\ UNCHANGED <<calls, wurl>> /\ Notify
    BY <1>3 DEF RequestNew
  <2>2. \A w \in Workers : wpc'[w] = "call" <=> wpc[w] = "call"
    BY <2>1, Notified DEF IInv
  <2>3. waiting' = Joined(u, p)
    <3>1. waiting[u] = {} /\ waiting[u] \cup Completion(p) = Completion(p)
      BY <2>1 DEF Fresh
    <3> QED
      BY <2>1, <3>1 DEF Joined
  <2> QED
    BY <2>1, <2>2, <2>3, AddedHeld
<1> QED
  BY <1>1, <1>2, <1>3 DEF Request

LEMMA TakeHeld ==
  ASSUME HInv, NEW w \in Workers, Take(w)
  PROVE  HeldTypes' /\ Held' /\ Fresh'
<1> USE DEF HInv
<1>1. /\ wpc[w] = "ready" /\ UNCHANGED <<waiting, calls, requests, open, pending>>
      /\ calls[w] = {}
  BY DEF Take, Left, historyVars, Fresh
<1>2. \/ UNCHANGED <<wpc, wurl>>
      \/ wpc' = [wpc EXCEPT ![w] = "load"] /\ \E h : wurl' = [wurl EXCEPT ![w] = h]
  BY DEF Take, Goto
<1>3. \A v \in Workers : v # w => wpc'[v] = wpc[v] /\ wurl'[v] = wurl[v]
  BY <1>2 DEF IInv, Types
<1>4. wurl' \in [Workers -> Urls]
  BY TakeStep DEF IInv, Types
<1>5. HeldTypes'
  BY <1>1 DEF HeldTypes
<1>6. Held'
  BY <1>1, <1>3, <1>4 DEF Held
<1>7. Fresh'
  BY <1>1, <1>3 DEF Fresh
<1> QED
  BY <1>5, <1>6, <1>7

(* The worker takes the completions of the request it has loaded.          *)
LEMMA LoadedHeld ==
  ASSUME HInv, NEW w \in Workers, Loaded(w)
  PROVE  HeldTypes' /\ Held' /\ Fresh'
<1> USE DEF HInv
<1> DEFINE u == wurl[w]
<1>1. /\ wpc[w] = "load" /\ calls' = [calls EXCEPT ![w] = waiting[u]]
      /\ waiting' = [waiting EXCEPT ![u] = {}] /\ pending' = pending \ {u}
      /\ wpc' = [wpc EXCEPT ![w] = "call"] /\ UNCHANGED <<wurl, requests, open>>
  BY DEF Loaded, Goto, historyVars
<1>2. u \in Urls /\ \A v \in Workers : wurl[v] \in Urls
  BY DEF IInv, Types
<1>3. wurl[w] = u
  OBVIOUS
<1> HIDE DEF u
<1>4. /\ calls'[w] = waiting[u] /\ \A v \in Workers : v # w => calls'[v] = calls[v] /\ wpc'[v] = wpc[v]
      /\ waiting'[u] = {} /\ \A v \in Urls : v # u => waiting'[v] = waiting[v]
      /\ wpc'[w] = "call" /\ calls[w] = {}
  BY <1>1, <1>2 DEF HeldTypes, Fresh, IInv, Types
<1>5. HeldTypes'
  BY <1>1, <1>2 DEF HeldTypes
<1>6. Held'
  <2>1. \A v \in Urls : waiting'[v] \subseteq open'[v]
    BY <1>1, <1>4 DEF Held
  <2>2. \A v \in Workers : calls'[v] \subseteq open'[wurl'[v]]
    BY <1>1, <1>2, <1>3, <1>4 DEF Held
  <2>3. ASSUME NEW v \in Urls, NEW r \in open'[v]
        PROVE  r \in waiting'[v] \/ \E x \in Workers : wurl'[x] = v /\ r \in calls'[x]
    <3>1. r \in waiting[v] \/ \E x \in Workers : wurl[x] = v /\ r \in calls[x]
      BY <1>1, <2>3 DEF Held
    <3>2. CASE r \in waiting[v]
      BY <1>1, <1>3, <1>4, <3>2
    <3>3. CASE \E x \in Workers : wurl[x] = v /\ r \in calls[x]
      <4>1. PICK x \in Workers : wurl[x] = v /\ r \in calls[x]
        BY <3>3
      <4>2. x # w
        BY <1>4, <4>1
      <4> QED
        BY <1>1, <1>4, <4>1, <4>2
    <3> QED
      BY <3>1, <3>2, <3>3
  <2>4. ASSUME NEW v \in Workers PROVE calls'[v] \cap waiting'[wurl'[v]] = {}
    BY <1>1, <1>2, <1>3, <1>4 DEF Held
  <2>5. ASSUME NEW v \in Workers, v # w PROVE calls[v] \cap waiting[u] = {}
    <3>1. CASE wurl[v] = u
      BY <3>1 DEF Held
    <3>2. CASE wurl[v] # u
      <4>1. open[wurl[v]] \cap open[u] = {}
        BY <1>2, <3>2 DEF Fresh
      <4> QED
        BY <1>2, <4>1 DEF Held
    <3> QED
      BY <3>1, <3>2
  <2>6. \A v, x \in Workers : v # x => calls'[v] \cap calls'[x] = {}
    BY <1>4, <2>5 DEF Held
  <2> QED
    BY <2>1, <2>2, <2>3, <2>4, <2>6 DEF Held
<1>7. Fresh'
  BY <1>1, <1>4 DEF Fresh
<1> QED
  BY <1>5, <1>6, <1>7

LEMMA FirstCalled ==
  ASSUME NEW S, S \subseteq Nat, S # {}
  PROVE  First(S) \in S
BY Least DEF First

LEMMA CallHeld ==
  ASSUME HInv, NEW w \in Workers, Call(w)
  PROVE  HeldTypes' /\ Held' /\ Fresh'
<1> USE DEF HInv
<1>1. wpc[w] = "call" /\ UNCHANGED <<waiting, wurl, requests, pending>>
  BY DEF Call, requestVars
<1>2. CASE calls[w] = {}
  <2>1. UNCHANGED <<calls, open>> /\ wpc' = [wpc EXCEPT ![w] = "ready"]
    BY <1>2 DEF Call, Goto
  <2>2. \A v \in Workers : wpc'[v] # "call" => wpc[v] # "call" \/ calls[v] = {}
    BY <1>2, <2>1 DEF IInv, Types
  <2>3. requests' \in 0..MaxRequests /\ requests <= requests'
    BY <1>1, ConstantsAssumption DEF HeldTypes
  <2> QED
    BY <1>1, <2>1, <2>2, <2>3, SameHeld
<1>3. CASE calls[w] # {}
  <2> DEFINE r == First(calls[w])
             u == wurl[w]
  <2>1. /\ calls' = [calls EXCEPT ![w] = calls[w] \ {r}]
        /\ open' = [open EXCEPT ![u] = open[u] \ {r}] /\ UNCHANGED wpc
    BY <1>3 DEF Call
  <2>2. r \in calls[w]
    <3>1. calls[w] \subseteq Nat
      BY DEF HeldTypes
    <3> QED
      BY <1>3, <3>1, FirstCalled
  <2>3. wurl[w] = u /\ u \in Urls /\ \A v \in Workers : wurl[v] \in Urls
    BY DEF IInv, Types
  <2> HIDE DEF r, u
  <2>4. /\ calls'[w] = calls[w] \ {r} /\ \A v \in Workers : v # w => calls'[v] = calls[v]
        /\ open'[u] = open[u] \ {r} /\ \A v \in Urls : v # u => open'[v] = open[v]
    BY <2>1, <2>3 DEF HeldTypes
  <2>5. HeldTypes'
    <3>1. calls[w] \ {r} \in SUBSET (1..MaxRequests) /\ open[u] \ {r} \in SUBSET (1..MaxRequests)
      BY <2>3 DEF HeldTypes
    <3> QED
      BY <1>1, <2>1, <3>1 DEF HeldTypes
  <2>6. r \notin waiting[u] /\ \A v \in Workers : v # w => r \notin calls[v]
    BY <2>2, <2>3 DEF Held
  <2>7. Held'
    <3>1. \A v \in Urls : waiting'[v] \subseteq open'[v]
      BY <1>1, <2>4, <2>6 DEF Held
    <3>2. \A v \in Workers : calls'[v] \subseteq open'[wurl'[v]]
      BY <1>1, <2>3, <2>4, <2>6 DEF Held
    <3>3. ASSUME NEW v \in Urls, NEW s \in open'[v]
          PROVE  s \in waiting'[v] \/ \E x \in Workers : wurl'[x] = v /\ s \in calls'[x]
      <4>1. s \in open[v] /\ (v = u => s # r)
        BY <2>4, <3>3
      <4>2. s \in waiting[v] \/ \E x \in Workers : wurl[x] = v /\ s \in calls[x]
        BY <4>1 DEF Held
      <4>3. ASSUME NEW x \in Workers, wurl[x] = v, s \in calls[x] PROVE s \in calls'[x]
        BY <2>3, <2>4, <4>1, <4>3
      <4> QED
        BY <1>1, <4>2, <4>3
    <3>4. \A v \in Workers : calls'[v] \subseteq calls[v]
      BY <2>4
    <3>5. \A v \in Workers : calls'[v] \cap waiting'[wurl'[v]] = {}
      BY <1>1, <3>4 DEF Held
    <3>6. \A v, x \in Workers : v # x => calls'[v] \cap calls'[x] = {}
      BY <3>4 DEF Held
    <3> QED
      BY <3>1, <3>2, <3>3, <3>5, <3>6 DEF Held
  <2>8. Fresh'
    <3>1. \A v \in Urls : open'[v] \subseteq open[v]
      BY <2>4
    <3>2. \A v \in Workers : calls'[v] \subseteq calls[v]
      BY <2>4
    <3> QED
      BY <1>1, <2>1, <3>1, <3>2 DEF Fresh
  <2> QED
    BY <2>5, <2>7, <2>8
<1> QED
  BY <1>2, <1>3

LEMMA OtherHeld ==
  ASSUME HInv, \/ \E w \in Workers : Sleep(w) \/ SpuriousWake(w) \/ Exit(w) \/ LoadedLate(w)
               \/ Stop \/ StopNotify \/ Join \/ UNCHANGED vars
  PROVE  HeldTypes' /\ Held' /\ Fresh'
<1> USE DEF HInv
<1>1. UNCHANGED <<waiting, open, calls, wurl, pending, requests>>
  BY DEF Sleep, SpuriousWake, Exit, LoadedLate, Stop, StopNotify, Join, vars, requestVars,
    workerVars, historyVars
<1>2. requests' \in 0..MaxRequests /\ requests <= requests'
  BY <1>1, ConstantsAssumption DEF HeldTypes
<1>3. \A v \in Workers : wpc'[v] # "call" => wpc[v] # "call"
  <2>1. CASE \E w \in Workers : Sleep(w) \/ SpuriousWake(w) \/ Exit(w) \/ LoadedLate(w)
    <3>1. PICK w \in Workers : wpc[w] # "call" /\ \E there : wpc' = [wpc EXCEPT ![w] = there]
      BY <2>1 DEF Sleep, SpuriousWake, Exit, LoadedLate, Goto
    <3> QED
      BY <3>1 DEF IInv, Types
  <2>2. CASE StopNotify
    BY <2>2 DEF StopNotify, NotifyAll
  <2>3. CASE Stop \/ Join \/ UNCHANGED vars
    BY <2>3 DEF Stop, Join, vars, workerVars
  <2> QED
    BY <2>1, <2>2, <2>3
<1> QED
  BY <1>1, <1>2, <1>3, SameHeld

LEMMA HeldInvariance == Spec => []HInv
<1>1. Init => HInv
  <2> SUFFICES ASSUME Init PROVE HInv
    OBVIOUS
  <2>1. /\ waiting = [u \in Urls |-> {}] /\ open = [u \in Urls |-> {}]
        /\ calls = [w \in Workers |-> {}] /\ requests = 0
    BY DEF Init
  <2>2. HeldTypes
    BY <2>1, ConstantsAssumption DEF HeldTypes
  <2>3. Held
    <3>1. \A w \in Workers : wurl[w] \in Urls
      BY InitIInv DEF IInv, Types
    <3> QED
      BY <2>1, <3>1 DEF Held
  <2>4. Fresh
    BY <2>1 DEF Fresh
  <2> QED
    BY <2>2, <2>3, <2>4, InitIInv DEF HInv
<1>2. HInv /\ [Next]_vars => HInv'
  <2> SUFFICES ASSUME HInv, [Next]_vars PROVE HInv'
    OBVIOUS
  <2>1. IInv'
    BY NextIInv DEF HInv
  <2>2. HeldTypes' /\ Held' /\ Fresh'
    BY RequestHeld, TakeHeld, LoadedHeld, CallHeld, OtherHeld DEF Next, Work, Ended
  <2> QED
    BY <2>1, <2>2 DEF HInv
<1> QED
  BY <1>1, <1>2, PTL DEF Spec

(* Every completion that was handed over and not yet called is held by one *)
(* request or one worker, for the image it was asked for, and those that   *)
(* were called by none; no load is made twice (ImageLoader::Request and    *)
(* WorkerLoop, PendingRequest::completions).                               *)
THEOREM CompletionsKept == Spec => []CompletionsOnce
<1>1. HInv => CompletionsOnce
  <2> SUFFICES ASSUME HInv PROVE CompletionsOnce
    OBVIOUS
  <2>1. SingleLoader
    BY DEF HInv, IInv, Types, Loading, SingleLoader, Cached
  <2>2. ASSUME NEW u \in Urls
        PROVE  open[u] = waiting[u] \cup Calling(u) /\ waiting[u] \cap Calling(u) = {}
    <3>1. \A r : r \in Calling(u) <=> \E w \in Workers : wurl[w] = u /\ r \in calls[w]
      BY DEF Calling
    <3>2. \A r \in open[u] : r \in waiting[u] \/ r \in Calling(u)
      BY <3>1 DEF HInv, Held
    <3>3. \A r \in Calling(u) : r \in open[u] /\ r \notin waiting[u]
      BY <3>1 DEF HInv, Held
    <3>4. waiting[u] \subseteq open[u]
      BY DEF HInv, Held
    <3> HIDE DEF Calling
    <3> QED
      BY <3>2, <3>3, <3>4
  <2> QED
    BY <2>1, <2>2 DEF CompletionsOnce, HInv, Held
<1> QED
  BY <1>1, HeldInvariance, PTL

-----------------------------------------------------------------------------
(* The bytes of the cache                                                   *)
Distinct(q) == \A i, j \in 1..Len(q) : q[i] = q[j] => i = j

Counted ==
  /\ bytes = TotalSize(cache)
  /\ Distinct(cache)
  /\ bytes > CacheLimit => Len(cache) = 1

(* A hit moves an image to the end.                                        *)
LEMMA RefreshedSum ==
  ASSUME NEW q \in Seq(Urls), Distinct(q), NEW i \in 1..Len(q), NEW r,
         r = Append(SubSeq(q, 1, i - 1) \o SubSeq(q, i + 1, Len(q)), q[i])
  PROVE  TotalSize(r) = TotalSize(q) /\ Distinct(r) /\ Len(r) = Len(q)
<1> DEFINE a == SubSeq(q, 1, i - 1)
           b == SubSeq(q, i + 1, Len(q))
<1>1. Len(q) \in Nat /\ i \in Nat /\ \A k \in 1..Len(q) : q[k] \in Urls
  BY LenProperties, ElementOfSeq
<1>2. /\ a \in Seq(Urls) /\ Len(a) = i - 1 /\ \A j \in 1..(i - 1) : a[j] = q[j]
  <2>1. \A k \in 1..(i - 1) : q[k] \in Urls
    BY <1>1
  <2> QED
    BY <1>1, <2>1, SubSeqProperties
<1>3. /\ b \in Seq(Urls) /\ Len(b) = Len(q) - i /\ \A j \in 1..(Len(q) - i) : b[j] = q[i + j]
  <2>1. \A k \in (i + 1)..Len(q) : q[k] \in Urls
    BY <1>1
  <2> QED
    BY <1>1, <2>1, SubSeqProperties
<1>4. TotalSize(q) = (TotalSize(a) + Size[q[i]]) + TotalSize(b)
  <2>1. i \in 0..Len(q)
    BY <1>1
  <2> QED
    BY <2>1, TotalOfParts
<1>5. TotalSize(a) \in Nat /\ TotalSize(b) \in Nat /\ Size[q[i]] \in Nat
  <2>1. i - 1 \in 0..Len(q) /\ i \in 0..Len(q)
    BY <1>1
  <2> QED
    BY <1>1, <2>1, TotalOfParts, ConstantsAssumption
<1>6. r = Append(a \o b, q[i])
  OBVIOUS
<1> HIDE DEF a, b
<1>7. /\ a \o b \in Seq(Urls) /\ Len(a \o b) = Len(q) - 1
      /\ \A j \in 1..(Len(q) - 1) : (a \o b)[j] = IF j <= i - 1 THEN a[j] ELSE b[j - (i - 1)]
  <2>1. /\ a \o b \in Seq(Urls) /\ Len(a \o b) = Len(a) + Len(b)
        /\ \A j \in 1..(Len(a) + Len(b)) :
             (a \o b)[j] = IF j <= Len(a) THEN a[j] ELSE b[j - Len(a)]
    BY <1>2, <1>3, ConcatProperties
  <2>2. Len(a) + Len(b) = Len(q) - 1
    BY <1>1, <1>2, <1>3
  <2> QED
    BY <1>2, <2>1, <2>2
<1>8. TotalSize(r) = TotalSize(q)
  <2>1. TotalSize(r) = TotalSize(a \o b) + Size[q[i]]
    BY <1>1, <1>6, <1>7, TotalOfAppend
  <2>2. TotalSize(a \o b) = TotalSize(a) + TotalSize(b)
    BY <1>2, <1>3, TotalOfConcat
  <2> QED
    BY <1>4, <1>5, <2>1, <2>2
<1>9. /\ Len(r) = Len(q) /\ r[Len(q)] = q[i]
      /\ \A j \in 1..(Len(q) - 1) : r[j] = (a \o b)[j]
  <2> DEFINE c == a \o b
  <2>1. c \in Seq(Urls) /\ Len(c) = Len(q) - 1 /\ r = Append(c, q[i]) /\ q[i] \in Urls
    BY <1>1, <1>6, <1>7
  <2> HIDE DEF c
  <2>2. /\ Len(r) = Len(c) + 1 /\ r[Len(c) + 1] = q[i]
        /\ \A j \in 1..Len(c) : r[j] = c[j]
    <3>1. ASSUME NEW e \in Urls
          PROVE  /\ Len(Append(c, e)) = Len(c) + 1 /\ Append(c, e)[Len(c) + 1] = e
                 /\ \A j \in 1..Len(c) : Append(c, e)[j] = c[j]
      BY <2>1, AppendProperties
    <3> QED
      BY ONLY <2>1, <3>1, Zenon
  <2>3. Len(c) + 1 = Len(q)
    BY <1>1, <2>1
  <2> QED
    BY <2>1, <2>2, <2>3 DEF c
<1> DEFINE from(j) == IF j = Len(q) THEN i ELSE IF j <= i - 1 THEN j ELSE j + 1
<1>10. ASSUME NEW j \in 1..Len(q) PROVE from(j) \in 1..Len(q) /\ r[j] = q[from(j)]
  <2>1. CASE j = Len(q)
    BY <1>9, <2>1
  <2>2. CASE j # Len(q) /\ j <= i - 1
    <3>1. j \in 1..(i - 1) /\ j \in 1..(Len(q) - 1)
      BY <1>1, <2>2
    <3> QED
      BY <1>2, <1>7, <1>9, <2>2, <3>1
  <2>3. CASE j # Len(q) /\ ~(j <= i - 1)
    <3>1. /\ j - (i - 1) \in 1..(Len(q) - i) /\ j + 1 \in 1..Len(q)
          /\ j \in 1..(Len(q) - 1) /\ i + (j - (i - 1)) = j + 1
      BY <1>1, <2>3
    <3>2. r[j] = b[j - (i - 1)]
      BY <1>7, <1>9, <2>3, <3>1
    <3>3. b[j - (i - 1)] = q[j + 1]
      BY <1>3, <3>1
    <3> QED
      BY <2>3, <3>1, <3>2, <3>3
  <2> QED
    BY <2>1, <2>2, <2>3
<1>11. \A j, k \in 1..Len(q) : from(j) = from(k) => j = k
  BY <1>1
<1> HIDE DEF from
<1>12. Distinct(r)
  <2> SUFFICES ASSUME NEW j \in 1..Len(q), NEW k \in 1..Len(q), r[j] = r[k] PROVE j = k
    BY <1>9 DEF Distinct
  <2>1. q[from(j)] = q[from(k)] /\ from(j) \in 1..Len(q) /\ from(k) \in 1..Len(q)
    BY <1>10
  <2>2. from(j) = from(k)
    BY <2>1 DEF Distinct
  <2> QED
    BY <1>11, <2>2
<1> QED
  BY <1>8, <1>9, <1>12

(* An insertion evicts the first n images.                                 *)
LEMMA InsertedSum ==
  ASSUME NEW q \in Seq(Urls), Distinct(q), NEW u \in Urls, NEW n \in 0..Len(q), NEW r,
         \A i \in 1..Len(q) : q[i] # u, r = Append(SubSeq(q, n + 1, Len(q)), u)
  PROVE  /\ TotalSize(r) = TotalSize(q) + Size[u] - TotalSize(SubSeq(q, 1, n))
         /\ Distinct(r) /\ Len(r) = Len(q) - n + 1
<1> DEFINE a == SubSeq(q, n + 1, Len(q))
<1>1. Len(q) \in Nat /\ n \in Nat /\ \A k \in 1..Len(q) : q[k] \in Urls
  BY LenProperties, ElementOfSeq
<1>2. a \in Seq(Urls) /\ Len(a) = Len(q) - n /\ \A j \in 1..(Len(q) - n) : a[j] = q[n + j]
  <2>1. \A k \in (n + 1)..Len(q) : q[k] \in Urls
    BY <1>1
  <2> QED
    BY <1>1, <2>1, SubSeqProperties
<1>3. /\ TotalSize(q) = TotalSize(SubSeq(q, 1, n)) + TotalSize(a)
      /\ TotalSize(SubSeq(q, 1, n)) \in Nat /\ TotalSize(a) \in Nat
  BY TotalOfParts
<1>4. r = Append(a, u) /\ Size[u] \in Nat
  BY ConstantsAssumption
<1> HIDE DEF a
<1>5. TotalSize(r) = TotalSize(a) + Size[u]
  BY <1>2, <1>4, TotalOfAppend
<1>6. TotalSize(r) = TotalSize(q) + Size[u] - TotalSize(SubSeq(q, 1, n))
  BY <1>3, <1>4, <1>5
<1>7. /\ Len(r) = Len(q) - n + 1 /\ r[Len(q) - n + 1] = u
      /\ \A j \in 1..(Len(q) - n) : r[j] = a[j]
  BY <1>2, <1>4, AppendProperties
<1>8. \A j \in 1..(Len(q) - n) : n + j \in 1..Len(q) /\ r[j] = q[n + j]
  BY <1>1, <1>2, <1>7
<1>9. Distinct(r)
  <2> SUFFICES ASSUME NEW i \in 1..Len(r), NEW j \in 1..Len(r), r[i] = r[j] PROVE i = j
    BY DEF Distinct
  <2>1. /\ i = Len(q) - n + 1 \/ i \in 1..(Len(q) - n)
        /\ j = Len(q) - n + 1 \/ j \in 1..(Len(q) - n)
    <3>1. /\ i \in 1..(Len(q) - n + 1) /\ j \in 1..(Len(q) - n + 1)
          /\ Len(q) - n \in Nat
      BY <1>1, <1>7
    <3>2. \A m \in Nat : \A k \in 1..(m + 1) : k = m + 1 \/ k \in 1..m
      OBVIOUS
    <3> QED
      BY <3>1, <3>2, Zenon
  <2>2. CASE i \in 1..(Len(q) - n) /\ j \in 1..(Len(q) - n)
    <3>1. n + i = n + j
      BY <1>8, <2>2 DEF Distinct
    <3> QED
      BY <1>1, <2>2, <3>1
  <2>3. CASE i = Len(q) - n + 1 /\ j \in 1..(Len(q) - n)
    BY <1>7, <1>8, <2>3
  <2>4. CASE j = Len(q) - n + 1 /\ i \in 1..(Len(q) - n)
    BY <1>7, <1>8, <2>4
  <2> QED
    BY <2>1, <2>2, <2>3, <2>4
<1> QED
  BY <1>6, <1>7, <1>9

LEMMA CountedStep ==
  ASSUME IInv, Counted, [Next]_vars
  PROVE  Counted'
<1>1. cache \in Seq(Urls) /\ Len(cache) \in Nat
  BY LenProperties DEF IInv, Types
<1>2. CASE UNCHANGED <<cache, bytes>>
  BY <1>2 DEF Counted, Distinct
<1>3. CASE \E u \in Urls : RequestHit(u)
  <2>1. PICK i \in 1..Len(cache) : cache' = Refreshed(i)
    BY <1>3 DEF RequestHit
  <2>2. bytes' = bytes
    BY <1>3 DEF RequestHit
  <2>3. TotalSize(cache') = TotalSize(cache) /\ Distinct(cache') /\ Len(cache') = Len(cache)
    BY <1>1, <2>1, RefreshedSum DEF Refreshed, Counted
  <2>4. bytes' = TotalSize(cache')
    BY <2>2, <2>3 DEF Counted
  <2>5. Distinct(cache)'
    BY <2>3 DEF Distinct
  <2> QED
    BY <2>2, <2>3, <2>4, <2>5 DEF Counted
<1>4. CASE \E w \in Workers : Loaded(w) /\ InsertMemoryCache(wurl[w])
  <2>1. PICK w \in Workers : wpc[w] = "load" /\ InsertMemoryCache(wurl[w])
    BY <1>4 DEF Loaded
  <2>2. wurl[w] \in Urls /\ \A i \in 1..Len(cache) : cache[i] # wurl[w]
    BY <2>1 DEF IInv, Types, Loading
  <2>3. PICK n \in 0..Len(cache) :
          /\ n = Len(cache) \/ BytesAfter(wurl[w], n) <= CacheLimit
          /\ cache' = Append(SubSeq(cache, n + 1, Len(cache)), wurl[w])
          /\ bytes' = BytesAfter(wurl[w], n)
    BY <2>1 DEF InsertMemoryCache
  <2>4. /\ TotalSize(cache') = TotalSize(cache) + Size[wurl[w]] - TotalSize(SubSeq(cache, 1, n))
        /\ Distinct(cache') /\ Len(cache') = Len(cache) - n + 1
    BY <1>1, <2>2, <2>3, InsertedSum DEF Counted
  <2>5. bytes' = TotalSize(cache')
    BY <2>3, <2>4 DEF BytesAfter, Counted
  <2>6. Distinct(cache)'
    BY <2>4 DEF Distinct
  <2>7. bytes' \in Int /\ CacheLimit \in Int
    <3>1. /\ TotalSize(cache) \in Nat /\ TotalSize(SubSeq(cache, 1, n)) \in Nat
          /\ Size[wurl[w]] \in Nat /\ CacheLimit \in Nat
      BY <1>1, <2>2, TotalOfParts, ConstantsAssumption
    <3> QED
      BY <2>4, <2>5, <3>1
  <2>8. bytes' > CacheLimit => Len(cache') = 1
    BY <1>1, <2>3, <2>4, <2>7
  <2> QED
    BY <2>5, <2>6, <2>8 DEF Counted
<1> QED
  BY <1>2, <1>3, <1>4 DEF Next, Request, RequestJoin, RequestNew, Work, Sleep, SpuriousWake, Exit,
    Take, Loaded, LoadedLate, Call, Stop, StopNotify, Join, Ended, vars, cacheVars

(* The bytes that are counted are those of the images in memory, whatever  *)
(* was evicted and refreshed, and exceed the limit only for the one image  *)
(* just inserted (InsertMemoryCache); the variables keep their types.      *)
THEOREM CacheCounted == Spec => []CacheBounded
<1>1. Init => Counted
  <2> SUFFICES ASSUME Init PROVE Counted
    OBVIOUS
  <2>1. cache = <<>> /\ bytes = 0 /\ Len(<<>>) = 0 /\ CacheLimit \in Nat
    BY ConstantsAssumption DEF Init
  <2> QED
    BY <2>1, TotalOfNone DEF Counted, Distinct
<1>2. IInv /\ Counted /\ [Next]_vars => Counted'
  BY CountedStep
<1>3. HInv /\ Counted => CacheBounded
  <2> SUFFICES ASSUME HInv, Counted PROVE CacheBounded
    OBVIOUS
  <2>1. bytes \in Nat
    BY TotalOfParts DEF HInv, IInv, Types, Counted
  <2>2. TypeOK
    BY <2>1 DEF HInv, IInv, Types, HeldTypes, TypeOK
  <2> QED
    BY <2>2 DEF Counted, Distinct, CacheBounded
<1> QED
  BY <1>1, <1>2, <1>3, Invariance, HeldInvariance, PTL DEF Spec
=============================================================================
