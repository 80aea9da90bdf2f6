----------------------------- MODULE ImageLoader -----------------------------
(***************************************************************************)
(* The loader of cover images (cover_image_cache.cpp): the UI thread       *)
(* requests URLs at a priority, three workers load them, a memory cache    *)
(* keeps the bytes.  Requests for a URL that is being fetched share one    *)
(* load; a request of higher priority enters a second queue entry and      *)
(* makes the first one stale.  mutex_ covers everything but the load and   *)
(* the completions, so each step between two unlocks is an action; the     *)
(* waiting of a worker on the condition variable is explicit.              *)
(***************************************************************************)
EXTENDS Integers, Sequences

CONSTANTS
  Urls,        \* images
  Workers,     \* kImageWorkerCount threads
  Size,        \* size of an image in bytes
  CacheLimit,  \* kMemoryCacheLimit
  MaxRequests  \* bound of the model: requests made

ASSUME ConstantsAssumption ==
  /\ Size \in [Urls -> Nat \ {0}]
  /\ CacheLimit \in Nat
  /\ MaxRequests \in Nat
  /\ Urls # {} /\ Workers # {}

Priorities == 0..2    \* Prefetch, Normal, Critical

VARIABLES
  queues,    \* the three queues of URLs, by priority
  pending,   \* keys of pending_
  started,   \* those a worker has taken: PendingRequest::started
  prio,      \* PendingRequest::priority
  waiting,   \* PendingRequest::completions, as the numbers of their requests
  cache,     \* keys of memory_cache_, least recently used first
  bytes,     \* memory_cache_bytes_
  stop,      \* the destructor: "set" is stopping_, then its notify_all and join
  wpc,       \* workers: where they are
  wurl,      \* workers: the URL they load
  calls,     \* workers: completions still to be called
  requests,  \* how many requests were made
  open       \* history: completions handed over and not yet called, by URL

requestVars == <<queues, pending, started, prio, waiting>>
cacheVars   == <<cache, bytes>>
workerVars  == <<wpc, wurl, calls>>
historyVars == <<requests, open>>
vars == <<requestVars, cacheVars, workerVars, historyVars, stop>>

Cached       == {cache[i] : i \in 1..Len(cache)}
QueuesEmpty  == \A p \in Priorities : queues[p] = <<>>

(* The bytes of a list of images.                                          *)
TotalSize(q) ==
  LET sum[n \in 0..Len(q)] == IF n = 0 THEN 0 ELSE sum[n - 1] + Size[q[n]]
  IN  sum[Len(q)]

-----------------------------------------------------------------------------
(* condition_.notify_one()                                                 *)
Notify ==
  IF \E w \in Workers : wpc[w] = "asleep"
  THEN \E w \in Workers : wpc[w] = "asleep" /\ wpc' = [wpc EXCEPT ![w] = "ready"]
  ELSE UNCHANGED wpc

Enqueue(u, p) == queues' = [queues EXCEPT ![p] = Append(@, u)]

(* The completion of the request being made; a prefetch has none.          *)
Completion(p) == IF p = 0 THEN {} ELSE {requests + 1}

Asking ==
  /\ stop = "no"
  /\ requests < MaxRequests
  /\ requests' = requests + 1

(* The image at i becomes the most recently used one.                      *)
Refreshed(i) ==
  Append(SubSeq(cache, 1, i - 1) \o SubSeq(cache, i + 1, Len(cache)), cache[i])

(* Request: the image is in memory; its completion is called at once.      *)
RequestHit(u) ==
  /\ Asking
  /\ \E i \in 1..Len(cache) : cache[i] = u /\ cache' = Refreshed(i)
  /\ UNCHANGED <<requestVars, workerVars, bytes, open, stop>>

(* Mutant: a request of higher priority is noted but not queued. *)
MutantRaise(u, p) ==
  /\ prio' = [prio EXCEPT ![u] = IF u \notin started /\ p > @ THEN p ELSE @]
  /\ UNCHANGED <<queues, wpc>>

Raise(u, p) ==
  IF u \notin started /\ p > prio[u]
  THEN prio' = [prio EXCEPT ![u] = p] /\ Enqueue(u, p) /\ Notify
  ELSE UNCHANGED <<prio, queues, wpc>>

(* Mutant: the completion of the last request replaces those before. *)
MutantJoined(u, p) == [waiting EXCEPT ![u] = Completion(p)]

Joined(u, p) == [waiting EXCEPT ![u] = @ \cup Completion(p)]

Opened(u, p) == [open EXCEPT ![u] = @ \cup Completion(p)]

(* Request: the image is already asked for.                                *)
RequestJoin(u, p) ==
  /\ Asking
  /\ u \notin Cached
  /\ u \in pending
  /\ waiting' = Joined(u, p)
  /\ open' = Opened(u, p)
  /\ Raise(u, p)
  /\ UNCHANGED <<pending, started, cacheVars, wurl, calls, stop>>

RequestNew(u, p) ==
  /\ Asking
  /\ u \notin Cached
  /\ u \notin pending
  /\ pending' = pending \cup {u}
  /\ prio' = [prio EXCEPT ![u] = p]
  /\ waiting' = [waiting EXCEPT ![u] = Completion(p)]
  /\ open' = Opened(u, p)
  /\ Enqueue(u, p)
  /\ Notify
  /\ UNCHANGED <<started, cacheVars, wurl, calls, stop>>

Request(u, p) == RequestHit(u) \/ RequestJoin(u, p) \/ RequestNew(u, p)

-----------------------------------------------------------------------------
(* Workers                                                                  *)

Goto(w, there) == wpc' = [wpc EXCEPT ![w] = there]

Sleep(w) ==
  /\ wpc[w] = "ready"
  /\ stop = "no"
  /\ QueuesEmpty
  /\ Goto(w, "asleep")
  /\ UNCHANGED <<requestVars, cacheVars, wurl, calls, historyVars, stop>>

SpuriousWake(w) ==
  /\ wpc[w] = "asleep"
  /\ Goto(w, "ready")
  /\ UNCHANGED <<requestVars, cacheVars, wurl, calls, historyVars, stop>>

Exit(w) ==
  /\ wpc[w] = "ready"
  /\ stop # "no"
  /\ Goto(w, "exited")
  /\ UNCHANGED <<requestVars, cacheVars, wurl, calls, historyVars, stop>>

(* Mutant: the oldest kind of request is served first. *)
MutantServed(p) == queues[p] # <<>> /\ \A q \in Priorities : q < p => queues[q] = <<>>

(* PopNext takes from the queue of the highest priority.                   *)
Served(p) == queues[p] # <<>> /\ \A q \in Priorities : q > p => queues[q] = <<>>

Wanted(u, p) == u \in pending /\ u \notin started /\ prio[u] = p

Left(u) == pending

(* An entry that is stale is passed over.                                  *)
Take(w) ==
  /\ wpc[w] = "ready"
  /\ stop = "no"
  /\ \E p \in Priorities :
       /\ Served(p)
       /\ queues' = [queues EXCEPT ![p] = Tail(@)]
       /\ LET u == Head(queues[p])
          IN  IF Wanted(u, p)
              THEN /\ started' = started \cup {u}
                   /\ pending' = Left(u)
                   /\ Goto(w, "load")
                   /\ wurl' = [wurl EXCEPT ![w] = u]
              ELSE UNCHANGED <<started, pending, wpc, wurl>>
  /\ UNCHANGED <<prio, waiting, cacheVars, calls, historyVars, stop>>

(* Mutant: the size of an evicted image is not given back. *)
MutantBytesAfter(u, n) == bytes + Size[u]

BytesAfter(u, n) == bytes + Size[u] - TotalSize(SubSeq(cache, 1, n))

(* InsertMemoryCache evicts the n least recently used images: as many as   *)
(* it takes, but never the one it has inserted.                            *)
InsertMemoryCache(u) ==
  \E n \in 0..Len(cache) :
    /\ \A k \in 0..(n - 1) : BytesAfter(u, k) > CacheLimit
    /\ n = Len(cache) \/ BytesAfter(u, n) <= CacheLimit
    /\ cache' = Append(SubSeq(cache, n + 1, Len(cache)), u)
    /\ bytes' = BytesAfter(u, n)

(* The load is over; a failure answers the completions with nothing.       *)
Loaded(w) ==
  /\ wpc[w] = "load"
  /\ stop = "no"
  /\ InsertMemoryCache(wurl[w]) \/ UNCHANGED cacheVars
  /\ calls' = [calls EXCEPT ![w] = waiting[wurl[w]]]
  /\ waiting' = [waiting EXCEPT ![wurl[w]] = {}]
  /\ pending' = pending \ {wurl[w]}
  /\ started' = started \ {wurl[w]}
  /\ Goto(w, "call")
  /\ UNCHANGED <<queues, prio, wurl, historyVars, stop>>

(* Loaded in vain: the destructor waits.                                   *)
LoadedLate(w) ==
  /\ wpc[w] = "load"
  /\ stop # "no"
  /\ Goto(w, "exited")
  /\ UNCHANGED <<requestVars, cacheVars, wurl, calls, historyVars, stop>>

(* The completions are called in the order they came in.                   *)
First(S) == CHOOSE r \in S : \A s \in S : r <= s

(* Mutant: only the first completion of an image is called. *)
MutantCall(w) ==
  /\ wpc[w] = "call"
  /\ Goto(w, "ready")
  /\ calls' = [calls EXCEPT ![w] = {}]
  /\ open' = [open EXCEPT ![wurl[w]] = {r \in @ : calls[w] # {} => r # First(calls[w])}]
  /\ UNCHANGED <<requestVars, cacheVars, wurl, requests, stop>>

Call(w) ==
  /\ wpc[w] = "call"
  /\ IF calls[w] = {}
     THEN Goto(w, "ready") /\ UNCHANGED <<calls, open>>
     ELSE /\ calls' = [calls EXCEPT ![w] = @ \ {First(@)}]
          /\ open' = [open EXCEPT ![wurl[w]] = @ \ {First(calls[w])}]
          /\ UNCHANGED wpc
  /\ UNCHANGED <<requestVars, cacheVars, wurl, requests, stop>>

-----------------------------------------------------------------------------
(* ShutdownImageCache                                                       *)

(* Mutant: only one worker is told. *)
MutantNotifyAll == Notify

NotifyAll == wpc' = [w \in Workers |-> IF wpc[w] = "asleep" THEN "ready" ELSE wpc[w]]

Stop ==
  /\ stop = "no"
  /\ stop' = "set"
  /\ queues' = [p \in Priorities |-> <<>>]
  /\ UNCHANGED <<pending, started, prio, waiting, cacheVars, workerVars, historyVars>>

StopNotify ==
  /\ stop = "set"
  /\ stop' = "notified"
  /\ NotifyAll
  /\ UNCHANGED <<requestVars, cacheVars, wurl, calls, historyVars>>

Join ==
  /\ stop = "notified"
  /\ \A w \in Workers : wpc[w] = "exited"
  /\ stop' = "joined"
  /\ UNCHANGED <<requestVars, cacheVars, workerVars, historyVars>>

Ended == stop = "joined" /\ UNCHANGED vars

-----------------------------------------------------------------------------
Init ==
  /\ queues = [p \in Priorities |-> <<>>]
  /\ pending = {} /\ started = {}
  /\ prio = [u \in Urls |-> 0] /\ waiting = [u \in Urls |-> {}]
  /\ cache = <<>> /\ bytes = 0
  /\ stop = "no"
  /\ wpc = [w \in Workers |-> "ready"]
  /\ wurl = [w \in Workers |-> CHOOSE u \in Urls : TRUE]
  /\ calls = [w \in Workers |-> {}]
  /\ requests = 0 /\ open = [u \in Urls |-> {}]

Work(w) == Exit(w) \/ Take(w) \/ Loaded(w) \/ LoadedLate(w) \/ Call(w)

Next ==
  \/ \E u \in Urls, p \in Priorities : Request(u, p)
  \/ \E w \in Workers : Sleep(w) \/ SpuriousWake(w) \/ Work(w)
  \/ Stop \/ StopNotify \/ Join \/ Ended

Spec == Init /\ [][Next]_vars

(* Workers that are not asleep run, and a download ends (it has a limit of *)
(* 15 s).  Nothing wakes a sleeping worker but a notification.             *)
FairSpec ==
  /\ Spec
  /\ \A w \in Workers : WF_vars(Work(w))
  /\ WF_vars(StopNotify) /\ WF_vars(Join)
-----------------------------------------------------------------------------
(* Properties                                                               *)

(* The variables keep their types; what is started is pending.             *)
TypeOK ==
  /\ queues \in [Priorities -> Seq(Urls)]
  /\ pending \subseteq Urls /\ started \subseteq pending
  /\ prio \in [Urls -> Priorities] /\ waiting \in [Urls -> SUBSET (1..MaxRequests)]
  /\ cache \in Seq(Urls) /\ bytes \in Nat
  /\ stop \in {"no", "set", "notified", "joined"}
  /\ wpc \in [Workers -> {"ready", "asleep", "load", "call", "exited"}]
  /\ wurl \in [Workers -> Urls] /\ calls \in [Workers -> SUBSET (1..MaxRequests)]
  /\ requests \in 0..MaxRequests
  /\ open \in [Urls -> SUBSET (1..MaxRequests)]

(* An image that is asked for and not being loaded is in the queue of its  *)
(* present priority, whatever stale entries there are, and while a queue   *)
(* has entries a worker is awake.                                          *)
NoLostRequest ==
  stop = "no" =>
    /\ \A u \in pending \ started :
         \E i \in 1..Len(queues[prio[u]]) : queues[prio[u]][i] = u
    /\ QueuesEmpty \/ \E w \in Workers : wpc[w] # "asleep"

(* An image is loaded by one worker at a time (both would write its file)  *)
(* and not at all while the memory cache has it.                           *)
SingleLoader ==
  /\ \A v, w \in Workers :
       wpc[v] = "load" /\ wpc[w] = "load" /\ wurl[v] = wurl[w] => v = w
  /\ \A w \in Workers : wpc[w] = "load" => wurl[w] \notin Cached

(* A completion that was handed over and not yet called is held by exactly *)
(* one request or one worker, for the image it was asked for; one that was *)
(* called is held by none, so that it is called once, although one load    *)
(* serves many requests and an image is loaded again after its eviction.   *)
Calling(u) == UNION {calls[w] : w \in {v \in Workers : wurl[v] = u}}
CompletionsOnce ==
  /\ SingleLoader
  /\ \A u \in Urls :
       /\ open[u] = waiting[u] \cup Calling(u)
       /\ waiting[u] \cap Calling(u) = {}
  /\ \A v, w \in Workers : v # w => calls[v] \cap calls[w] = {}

(* The counted bytes are those of the cached images, and exceed the limit  *)
(* only for a single image.                                                *)
CacheBounded ==
  /\ TypeOK
  /\ bytes = TotalSize(cache)
  /\ \A i, j \in 1..Len(cache) : cache[i] = cache[j] => i = j
  /\ bytes > CacheLimit => Len(cache) = 1

(* No load begins while an image of higher priority waits for one, also if *)
(* the priority was raised after it was asked for.                         *)
UrgentFirst ==
  [][\A u \in started' \ started, v \in pending \ started : prio[v] <= prio[u]]_vars

(* Every completion that was handed over is called in the end, unless the  *)
(* program shuts down while its image is still to be loaded.  What a       *)
(* worker has taken over to call is called in any case.                    *)
EveryCompletionCalled ==
  \A r \in 1..MaxRequests :
    (\E u \in Urls : r \in open[u]) ~>
      \A u \in Urls : r \in open[u] => stop # "no" /\ r \in waiting[u]

(* Shutting down ends.                                                     *)
StopEnds == stop = "set" ~> stop = "joined"
=============================================================================
