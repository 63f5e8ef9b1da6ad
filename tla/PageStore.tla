----------------------------- MODULE PageStore -----------------------------
(***************************************************************************)
(* NoSerializePageStore: the pages of each session, kept in memory.        *)
(*                                                                         *)
(* A ConcurrentHashMap gives each session a map of its pages, made by the  *)
(* first storePage(); the map is found in one step and locked in another,  *)
(* and the session may end, or somebody else make a map, in between.  A    *)
(* map holds the pages in order of access, the oldest first, and drops the *)
(* oldest when there are more than CacheSize.                              *)
(***************************************************************************)
EXTENDS Integers, Sequences, SequencesExt

CONSTANTS
  Requests,   \* threads of the server
  Sessions,
  Pages,
  CacheSize,
  Maps,       \* names for the maps; one nobody refers to is used again
  NoMap

ASSUME MapAssumption == NoMap \notin Maps /\ CacheSize \in Nat
ASSUME SessionAssumption == Sessions # {} /\ Pages # {}

VARIABLES
  cache,      \* the map of each session
  destroyed,  \* the field cache is null
  held,       \* the pages in each map
  request,    \* what each thread is doing
  unbound,    \* sessions that have ended
  overlap,    \* history: sessions that ended while a page was being stored
  kept        \* history: pages that were stored and not dropped since

pageVars == <<cache, destroyed, held, request, unbound, overlap, kept>>

Ops == {"get", "remove", "store"}

(* at: "idle"; "create", before putIfAbsent(); "lock", with a map in hand. *)
(* ended: history, the session has ended since the map was looked for.     *)
Idle ==
  [at |-> "idle", op |-> "get", session |-> CHOOSE s \in Sessions : TRUE,
   page |-> CHOOSE p \in Pages : TRUE, map |-> NoMap, ended |-> FALSE]

PageTypeOK ==
  /\ cache \in [Sessions -> Maps \cup {NoMap}]
  /\ destroyed \in BOOLEAN
  /\ held \in [Maps -> Seq(Pages)]
  /\ request \in [Requests -> [at : {"idle", "create", "lock"}, op : Ops,
                               session : Sessions, page : Pages,
                               map : Maps \cup {NoMap}, ended : BOOLEAN]]
  /\ unbound \subseteq Sessions /\ overlap \subseteq Sessions
  /\ kept \in [Sessions -> SUBSET Pages]

PageInit ==
  /\ cache = [s \in Sessions |-> NoMap] /\ destroyed = FALSE
  /\ held = [m \in Maps |-> <<>>]
  /\ request = [t \in Requests |-> Idle]
  /\ unbound = {} /\ overlap = {}
  /\ kept = [s \in Sessions |-> {}]

(* Nobody refers to it.                                                    *)
Unused(m) ==
  /\ \A s \in Sessions : cache[s] # m
  /\ \A t \in Requests : request[t].at = "lock" => request[t].map # m

-----------------------------------------------------------------------------
(* getSessionCache()                                                       *)

(* Faulty: get() and remove() make a map as well.                          *)
LookUpCreating(t, op, s, p) ==
  /\ request[t].at = "idle"
  /\ s \notin unbound /\ ~destroyed
  /\ request' = [request EXCEPT ![t] =
       [at |-> IF cache[s] = NoMap THEN "create" ELSE "lock",
        op |-> op, session |-> s, page |-> p, map |-> cache[s],
        ended |-> FALSE]]
  /\ UNCHANGED <<cache, destroyed, held, unbound, overlap, kept>>

(* A session that has ended gets no more requests.  Without a map there is *)
(* nothing to get or to remove.  A store that has been destroyed throws.   *)
LookUp(t, op, s, p) ==
  /\ request[t].at = "idle"
  /\ s \notin unbound /\ ~destroyed
  /\ cache[s] # NoMap \/ op = "store"
  /\ request' = [request EXCEPT ![t] =
       [at |-> IF cache[s] = NoMap THEN "create" ELSE "lock",
        op |-> op, session |-> s, page |-> p, map |-> cache[s],
        ended |-> FALSE]]
  /\ UNCHANGED <<cache, destroyed, held, unbound, overlap, kept>>

(* The request once it has a map, and once its session has ended.          *)
With(r, m) ==
  [at |-> "lock", op |-> r.op, session |-> r.session, page |-> r.page,
   map |-> m, ended |-> r.ended]

Ended(r) ==
  [at |-> r.at, op |-> r.op, session |-> r.session, page |-> r.page,
   map |-> r.map, ended |-> TRUE]

(* Faulty: the map that is there is replaced.                              *)
PutAlways(t) ==
  LET s == request[t].session IN
  /\ request[t].at = "create" /\ ~destroyed
  /\ \E m \in Maps :
       /\ Unused(m)
       /\ cache' = [cache EXCEPT ![s] = m]
       /\ held' = [held EXCEPT ![m] = <<>>]
       /\ request' = [request EXCEPT ![t] = With(@, m)]
  /\ UNCHANGED <<destroyed, unbound, overlap, kept>>

(* A new map, unless somebody has been faster.                             *)
PutIfAbsent(t) ==
  LET s == request[t].session IN
  /\ request[t].at = "create" /\ ~destroyed
  /\ IF cache[s] # NoMap
     THEN /\ request' = [request EXCEPT ![t] = With(@, cache[s])]
          /\ UNCHANGED <<cache, held>>
     ELSE \E m \in Maps :
            /\ Unused(m)
            /\ cache' = [cache EXCEPT ![s] = m]
            /\ held' = [held EXCEPT ![m] = <<>>]
            /\ request' = [request EXCEPT ![t] = With(@, m)]
  /\ UNCHANGED <<destroyed, unbound, overlap, kept>>

(* The field has become null in the meantime: a NullPointerException.      *)
Throw(t) ==
  /\ request[t].at = "create" /\ destroyed
  /\ request' = [request EXCEPT ![t] = Idle]
  /\ UNCHANGED <<cache, destroyed, held, unbound, overlap, kept>>

-----------------------------------------------------------------------------
(* The map, under its lock.                                                *)

Without(pages, p) ==
  IF p \notin ToSet(pages) THEN pages
  ELSE LET i == CHOOSE j \in DOMAIN pages : pages[j] = p
       IN [k \in 1 .. (Len(pages) - 1) |->
             IF k < i THEN pages[k] ELSE pages[k + 1]]

ToEnd(pages, p) == Append(Without(pages, p), p)

(* removeEldestEntry(): after a page has been put, one may be too many.    *)
TooMany(pages) == Len(pages) > CacheSize
Fitting(pages) == IF TooMany(pages) THEN Tail(pages) ELSE pages
Dropped(pages) == IF TooMany(pages) THEN {pages[1]} ELSE {}

Finish(t) == request' = [request EXCEPT ![t] = Idle]

GetPage(t) ==
  LET m == request[t].map p == request[t].page IN
  /\ request[t].at = "lock" /\ request[t].op = "get"
  /\ held' = [held EXCEPT ![m] = IF p \in ToSet(@) THEN ToEnd(@, p) ELSE @]
  /\ Finish(t)
  /\ UNCHANGED <<cache, destroyed, unbound, overlap, kept>>

RemovePage(t) ==
  LET m == request[t].map p == request[t].page s == request[t].session IN
  /\ request[t].at = "lock" /\ request[t].op = "remove"
  /\ held' = [held EXCEPT ![m] = Without(@, p)]
  /\ kept' = IF request[t].ended THEN kept ELSE [kept EXCEPT ![s] = @ \ {p}]
  /\ Finish(t)
  /\ UNCHANGED <<cache, destroyed, unbound, overlap>>

StorePage(t) ==
  LET m == request[t].map p == request[t].page s == request[t].session
      pages == ToEnd(held[m], p)
  IN /\ request[t].at = "lock" /\ request[t].op = "store"
     /\ held' = [held EXCEPT ![m] = Fitting(pages)]
     /\ kept' = IF request[t].ended THEN kept
                ELSE [kept EXCEPT ![s] = (@ \cup {p}) \ Dropped(pages)]
     /\ Finish(t)
     /\ UNCHANGED <<cache, destroyed, unbound, overlap>>

-----------------------------------------------------------------------------
(* The session ends.                                                       *)
Unbind(s) ==
  LET ofSession == {t \in Requests : request[t].at # "idle"
                                     /\ request[t].session = s}
  IN /\ s \notin unbound /\ ~destroyed
     /\ unbound' = unbound \cup {s}
     /\ cache' = [cache EXCEPT ![s] = NoMap]
     /\ overlap' = IF \E t \in ofSession : request[t].op = "store"
                   THEN overlap \cup {s} ELSE overlap
     /\ request' = [t \in Requests |->
          IF t \in ofSession THEN Ended(request[t])
          ELSE request[t]]
     /\ kept' = [kept EXCEPT ![s] = {}]
     /\ UNCHANGED <<destroyed, held>>

Destroy ==
  /\ ~destroyed
  /\ destroyed' = TRUE
  /\ cache' = [s \in Sessions |-> NoMap]
  /\ kept' = [s \in Sessions |-> {}]
  /\ request' = [t \in Requests |->
       IF request[t].at = "idle" THEN Idle
       ELSE Ended(request[t])]
  /\ UNCHANGED <<held, unbound, overlap>>

PageNext ==
  \/ \E t \in Requests :
       \/ \E op \in Ops, s \in Sessions, p \in Pages : LookUp(t, op, s, p)
       \/ PutIfAbsent(t) \/ Throw(t)
       \/ GetPage(t) \/ RemovePage(t) \/ StorePage(t)
  \/ \E s \in Sessions : Unbind(s)
  \/ Destroy

PageSpec == PageInit /\ [][PageNext]_pageVars

-----------------------------------------------------------------------------
(* A page that storePage() has stored is found until it is removed, pushed *)
(* out of its own session by others, or the session ends: two threads that *)
(* store the first page of a session share one map, and no thread works on *)
(* the map of another session.                                             *)
StoredIsFound ==
  \A s \in Sessions : \A p \in kept[s] :
    cache[s] # NoMap /\ p \in ToSet(held[cache[s]])

(* A session that has ended has no pages, unless one was being stored just *)
(* then: nobody will ever remove that one.                                 *)
EndedIsForgotten == \A s \in unbound \ overlap : cache[s] = NoMap
=============================================================================
