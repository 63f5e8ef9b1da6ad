---------------------------- MODULE SharedProofs ----------------------------
(***************************************************************************)
(* Proofs about the small components that threads share: PageStore,        *)
(* CachedObject, Connections, RepeatQueue and DaemonGroup, one after the   *)
(* other.  They have nothing in common but this module.                    *)
(***************************************************************************)
EXTENDS PageStore, CachedObject, Connections, RepeatQueue, DaemonGroup,
        FiniteSetTheorems, TLAPS

-----------------------------------------------------------------------------
(***************************************************************************)
(* NoSerializePageStore: for any sessions, pages and threads, and any size *)
(* of a session's cache, no page is lost between the step that finds a map *)
(* and the one that locks it.                                              *)
(***************************************************************************)

Active(t) == request[t].at # "idle"

(* A map belongs to one session.                                           *)
Apart ==
  \A r, s \in Sessions : r # s /\ cache[r] # NoMap => cache[r] # cache[s]

(* A thread has the map of its session, or one that nobody else will find. *)
MapsInv ==
  \A t \in Requests : request[t].at = "lock" =>
    /\ request[t].map \in Maps
    /\ \A s \in Sessions : cache[s] = request[t].map => s = request[t].session
    /\ ~request[t].ended => cache[request[t].session] = request[t].map

(* What the thread knows of the end of its session.                        *)
EndedInv ==
  \A t \in Requests : Active(t) =>
    /\ request[t].ended <=> request[t].session \in unbound \/ destroyed
    /\ request[t].at = "create" => request[t].op = "store"
    /\ request[t].op = "store" /\ request[t].session \in unbound
         => request[t].session \in overlap

EmptyInv ==
  /\ \A s \in unbound : kept[s] = {}
  /\ destroyed => \A s \in Sessions : kept[s] = {} /\ cache[s] = NoMap

PagesInv ==
  /\ PageTypeOK /\ Apart /\ MapsInv /\ EndedInv /\ EmptyInv
  /\ StoredIsFound /\ EndedIsForgotten

-----------------------------------------------------------------------------
(* Taking a page out of the order leaves the others in it.                 *)
LEMMA WithoutKeeps ==
  ASSUME NEW pages \in Seq(Pages), NEW p \in Pages
  PROVE  /\ Without(pages, p) \in Seq(Pages)
         /\ ToSet(pages) \ {p} \subseteq ToSet(Without(pages, p))
<1>1. CASE p \notin ToSet(pages)
  BY <1>1 DEF Without
<1>2. CASE p \in ToSet(pages)
  <2> DEFINE i == CHOOSE j \in DOMAIN pages : pages[j] = p
  <2>1. i \in DOMAIN pages /\ pages[i] = p
    BY <1>2 DEF ToSet
  <2>2. i \in 1 .. Len(pages)
    BY <2>1
  <2> HIDE DEF i
  <2> DEFINE rest == [k \in 1 .. (Len(pages) - 1) |->
                        IF k < i THEN pages[k] ELSE pages[k + 1]]
  <2>3. Without(pages, p) = rest
    BY <1>2 DEF Without, i
  <2>4. rest \in Seq(Pages) /\ Len(rest) = Len(pages) - 1
    <3>1. Len(pages) \in Nat /\ Len(pages) - 1 \in Nat
      BY <2>2
    <3>2. \A k \in 1 .. (Len(pages) - 1) : rest[k] \in Pages
      BY <2>2
    <3>3. rest \in [1 .. (Len(pages) - 1) -> Pages]
      BY <3>2
    <3>4. QED BY <3>1, <3>3
  <2> HIDE DEF rest
  <2>5. \A j \in 1 .. Len(pages) : j # i =>
          \E k \in 1 .. Len(rest) : rest[k] = pages[j]
    <3>1. SUFFICES ASSUME NEW j \in 1 .. Len(pages), j # i
                   PROVE  \E k \in 1 .. Len(rest) : rest[k] = pages[j]
      OBVIOUS
    <3>2. CASE j < i
      <4>1. rest[j] = pages[j] BY <2>2, <3>1, <3>2 DEF rest
      <4>2. QED BY <2>2, <2>4, <3>1, <3>2, <4>1
    <3>3. CASE j > i
      <4>1. rest[j - 1] = pages[j] BY <2>2, <3>1, <3>3 DEF rest
      <4>2. QED BY <2>2, <2>4, <3>1, <3>3, <4>1
    <3>4. QED BY <2>2, <3>1, <3>2, <3>3
  <2>6. \A q \in ToSet(pages) \ {p} : q \in ToSet(rest)
    <3>1. SUFFICES ASSUME NEW q \in ToSet(pages) \ {p} PROVE q \in ToSet(rest)
      OBVIOUS
    <3>2. PICK j \in 1 .. Len(pages) : pages[j] = q
      BY <3>1 DEF ToSet
    <3>3. PICK k \in 1 .. Len(rest) : rest[k] = q
      BY <2>1, <2>5, <3>1, <3>2
    <3>4. QED BY <2>4, <3>3 DEF ToSet
  <2>7. QED BY <2>3, <2>4, <2>6
<1>3. QED BY <1>1, <1>2

LEMMA ToEndKeeps ==
  ASSUME NEW pages \in Seq(Pages), NEW p \in Pages
  PROVE  /\ ToEnd(pages, p) \in Seq(Pages)
         /\ Len(ToEnd(pages, p)) > 0
         /\ ToSet(pages) \cup {p} \subseteq ToSet(ToEnd(pages, p))
<1> DEFINE rest == Without(pages, p)
<1>1. rest \in Seq(Pages) /\ ToSet(pages) \ {p} \subseteq ToSet(rest)
  BY WithoutKeeps
<1> HIDE DEF rest
<1>2. /\ Append(rest, p) \in Seq(Pages)
      /\ Len(Append(rest, p)) = Len(rest) + 1 /\ Len(rest) \in Nat
      /\ \A k \in 1 .. Len(rest) : Append(rest, p)[k] = rest[k]
      /\ Append(rest, p)[Len(rest) + 1] = p
  BY <1>1
<1>3. ToSet(rest) \cup {p} \subseteq ToSet(Append(rest, p))
  BY <1>1, <1>2 DEF ToSet
<1>4. QED BY <1>1, <1>2, <1>3 DEF ToEnd, rest

LEMMA FittingKeeps ==
  ASSUME NEW pages \in Seq(Pages), Len(pages) > 0
  PROVE  /\ Fitting(pages) \in Seq(Pages)
         /\ ToSet(pages) \ Dropped(pages) \subseteq ToSet(Fitting(pages))
<1>1. CASE ~TooMany(pages)
  BY <1>1 DEF Fitting
<1>2. CASE TooMany(pages)
  <2>1. /\ Tail(pages) \in Seq(Pages) /\ Len(Tail(pages)) = Len(pages) - 1
        /\ \A k \in 1 .. (Len(pages) - 1) : Tail(pages)[k] = pages[k + 1]
    OBVIOUS
  <2>2. \A q \in ToSet(pages) \ {pages[1]} : q \in ToSet(Tail(pages))
    <3>1. SUFFICES ASSUME NEW q \in ToSet(pages) \ {pages[1]}
                   PROVE  q \in ToSet(Tail(pages))
      OBVIOUS
    <3>2. PICK j \in 1 .. Len(pages) : pages[j] = q
      BY <3>1 DEF ToSet
    <3>3. j # 1 BY <3>1, <3>2
    <3>4. Tail(pages)[j - 1] = q /\ j - 1 \in 1 .. (Len(pages) - 1)
      BY <2>1, <3>2, <3>3
    <3>5. DOMAIN Tail(pages) = 1 .. (Len(pages) - 1)
      BY <2>1
    <3>6. QED BY <3>4, <3>5 DEF ToSet
  <2>3. QED BY <1>2, <2>1, <2>2 DEF Fitting, Dropped
<1>3. QED BY <1>1, <1>2

-----------------------------------------------------------------------------
LEMMA PageInitInv == PageInit => PagesInv
<1>1. SUFFICES ASSUME PageInit PROVE PagesInv OBVIOUS
<1>2. Idle \in [at : {"idle", "create", "lock"}, op : Ops, session : Sessions,
                page : Pages, map : Maps \cup {NoMap}, ended : BOOLEAN]
  BY SessionAssumption DEF Idle, Ops
<1>3. \A t \in Requests : request[t].at = "idle"
  BY <1>1 DEF PageInit, Idle
<1>4. PageTypeOK
  <2>1. <<>> \in Seq(Pages) OBVIOUS
  <2>2. held \in [Maps -> Seq(Pages)]
    BY <1>1, <2>1 DEF PageInit
  <2>3. /\ cache \in [Sessions -> Maps \cup {NoMap}]
        /\ kept \in [Sessions -> SUBSET Pages]
    BY <1>1 DEF PageInit
  <2>4. QED BY <1>1, <1>2, <2>2, <2>3 DEF PageInit, PageTypeOK
<1>5. QED
  BY <1>1, <1>3, <1>4
     DEF PagesInv, Apart, MapsInv, EndedInv, EmptyInv, StoredIsFound,
         EndedIsForgotten, PageInit, Active

(* Steps of one thread that leave the maps alone.                          *)
LEMMA LookUpInv ==
  ASSUME PagesInv, NEW t \in Requests, NEW op \in Ops, NEW s \in Sessions,
         NEW p \in Pages, LookUp(t, op, s, p)
  PROVE  PagesInv'
<1> DEFINE new == [at |-> IF cache[s] = NoMap THEN "create" ELSE "lock",
                   op |-> op, session |-> s, page |-> p, map |-> cache[s],
                   ended |-> FALSE]
<1>1. /\ s \notin unbound /\ ~destroyed
      /\ cache[s] # NoMap \/ op = "store"
      /\ request' = [request EXCEPT ![t] = new]
      /\ UNCHANGED <<cache, destroyed, held, unbound, overlap, kept>>
  BY DEF LookUp
<1>2. PageTypeOK /\ Apart /\ MapsInv /\ EndedInv /\ EmptyInv
  BY DEF PagesInv
<1>3. /\ new.at = "lock" => new.map \in Maps /\ cache[s] = new.map
      /\ new \in [at : {"idle", "create", "lock"}, op : Ops,
                  session : Sessions, page : Pages,
                  map : Maps \cup {NoMap}, ended : BOOLEAN]
  BY <1>2 DEF PageTypeOK
<1>4. /\ new.ended = FALSE /\ new.session = s /\ new.op = op
      /\ new.at = "create" => op = "store"
  BY <1>1
<1> HIDE DEF new
<1>5. /\ \A u \in Requests : u # t => request'[u] = request[u]
      /\ request'[t] = new
  BY <1>1, <1>2 DEF PageTypeOK
<1>6. PageTypeOK'
  BY <1>1, <1>2, <1>3 DEF PageTypeOK
<1>7. MapsInv'
  BY <1>1, <1>2, <1>3, <1>4, <1>5, MapAssumption DEF MapsInv, Apart
<1>8. EndedInv'
  BY <1>1, <1>2, <1>4, <1>5 DEF EndedInv, Active
<1>9. QED
  BY <1>1, <1>6, <1>7, <1>8
     DEF PagesInv, Apart, EmptyInv, StoredIsFound, EndedIsForgotten

LEMMA PutIfAbsentInv ==
  ASSUME PagesInv, NEW t \in Requests, PutIfAbsent(t)
  PROVE  PagesInv'
<1> DEFINE s == request[t].session
<1>1. /\ request[t].at = "create" /\ ~destroyed
      /\ UNCHANGED <<destroyed, unbound, overlap, kept>>
  BY DEF PutIfAbsent
<1>2. /\ PageTypeOK /\ Apart /\ MapsInv /\ EndedInv /\ EmptyInv
      /\ StoredIsFound /\ EndedIsForgotten
  BY DEF PagesInv
<1>3. s \in Sessions
  BY <1>2 DEF PageTypeOK
<1>4. CASE cache[s] # NoMap
  <2>1. /\ request' = [request EXCEPT ![t] = With(@, cache[s])]
        /\ UNCHANGED <<cache, held>>
    BY <1>4 DEF PutIfAbsent
  <2>2. cache[s] \in Maps
    BY <1>2, <1>3, <1>4 DEF PageTypeOK
  <2>3. PageTypeOK'
    BY <1>1, <1>2, <2>1, <2>2 DEF PageTypeOK, With
  <2>4. /\ \A u \in Requests : u # t => request'[u] = request[u]
        /\ request'[t].at = "lock" /\ request'[t].map = cache[s]
        /\ request'[t].session = s /\ request'[t].op = request[t].op
        /\ request'[t].ended = request[t].ended
    BY <1>2, <2>1 DEF PageTypeOK, With
  <2>5. MapsInv'
    <3>1. \A r \in Sessions : cache[r] = cache[s] => r = s
      BY <1>2, <1>3, <1>4 DEF Apart
    <3>2. cache' = cache BY <2>1
    <3>3. SUFFICES ASSUME NEW u \in Requests, request'[u].at = "lock"
                   PROVE  /\ request'[u].map \in Maps
                          /\ \A r \in Sessions : cache'[r] = request'[u].map
                                => r = request'[u].session
                          /\ ~request'[u].ended =>
                               cache'[request'[u].session] = request'[u].map
      BY DEF MapsInv
    <3>4. CASE u = t
      BY ONLY <2>2, <2>4, <3>1, <3>2, <3>4
    <3>5. CASE u # t
      <4>1. request'[u] = request[u] BY <2>4, <3>5
      <4>2. QED BY ONLY <1>2, <3>2, <3>3, <4>1 DEF MapsInv
    <3>6. QED BY <3>4, <3>5
  <2>6. EndedInv'
    BY <1>1, <1>2, <2>4 DEF EndedInv, Active
  <2>7. QED
    BY <1>1, <1>2, <2>1, <2>3, <2>5, <2>6
       DEF PagesInv, Apart, EmptyInv, StoredIsFound, EndedIsForgotten
<1>5. CASE cache[s] = NoMap
  <2>1. PICK m \in Maps :
          /\ Unused(m)
          /\ cache' = [cache EXCEPT ![s] = m]
          /\ held' = [held EXCEPT ![m] = <<>>]
          /\ request' = [request EXCEPT ![t] = With(@, m)]
    BY <1>5 DEF PutIfAbsent
  <2>2. PageTypeOK'
    <3>1. <<>> \in Seq(Pages) OBVIOUS
    <3>2. held' \in [Maps -> Seq(Pages)]
      BY <1>2, <2>1, <3>1 DEF PageTypeOK
    <3>3. cache' \in [Sessions -> Maps \cup {NoMap}]
      BY <1>2, <2>1 DEF PageTypeOK
    <3>4. request' \in [Requests -> [at : {"idle", "create", "lock"}, op : Ops,
                          session : Sessions, page : Pages,
                          map : Maps \cup {NoMap}, ended : BOOLEAN]]
      BY <1>2, <2>1 DEF PageTypeOK, With
    <3>5. QED BY <1>1, <1>2, <3>2, <3>3, <3>4 DEF PageTypeOK
  <2>3. /\ \A u \in Requests : u # t => request'[u] = request[u]
        /\ request'[t].at = "lock" /\ request'[t].map = m
        /\ request'[t].session = s /\ request'[t].op = request[t].op
        /\ request'[t].ended = request[t].ended
    BY <1>2, <2>1 DEF PageTypeOK, With
  <2>4. /\ \A r \in Sessions : r # s => cache'[r] = cache[r] /\ cache[r] # m
        /\ cache'[s] = m
    BY <1>2, <1>3, <2>1 DEF PageTypeOK, Unused
  <2>5. \A u \in Requests : request[u].at = "lock" => request[u].map # m
    BY <2>1 DEF Unused
  <2>6. Apart'
    BY <1>2, <2>4 DEF Apart
  <2>7. MapsInv'
    <3>1. SUFFICES ASSUME NEW u \in Requests, request'[u].at = "lock"
                   PROVE  /\ request'[u].map \in Maps
                          /\ \A r \in Sessions : cache'[r] = request'[u].map
                                => r = request'[u].session
                          /\ ~request'[u].ended =>
                               cache'[request'[u].session] = request'[u].map
      BY DEF MapsInv
    <3>2. CASE u = t
      BY <2>1, <2>3, <2>4, <3>2
    <3>3. CASE u # t
      <4>1. /\ request[u].at = "lock" /\ request'[u] = request[u]
            /\ request[u].session \in Sessions
        BY <1>2, <2>3, <3>1, <3>3 DEF PageTypeOK
      <4>2. /\ request[u].map \in Maps /\ request[u].map # m
            /\ \A r \in Sessions :
                 cache[r] = request[u].map => r = request[u].session
            /\ ~request[u].ended => cache[request[u].session] = request[u].map
        BY <1>2, <2>5, <4>1 DEF MapsInv
      <4>3. ~request[u].ended => request[u].session # s
        BY <1>5, <4>2, MapAssumption
      <4>4. QED BY <1>3, <2>4, <4>1, <4>2, <4>3
    <3>4. QED BY <3>2, <3>3
  <2>8. EndedInv'
    BY <1>1, <1>2, <2>3 DEF EndedInv, Active
  <2>9. StoredIsFound'
    <3>1. kept[s] = {}
      BY <1>2, <1>3, <1>5 DEF StoredIsFound
    <3>2. \A r \in Sessions : r # s /\ cache[r] # NoMap
            => held'[cache[r]] = held[cache[r]]
      BY <1>2, <2>1, <2>4 DEF PageTypeOK
    <3>3. QED BY <1>1, <1>2, <2>4, <3>1, <3>2 DEF StoredIsFound
  <2>10. EndedIsForgotten'
    <3>1. s \in unbound => s \in overlap
      BY <1>1, <1>2 DEF EndedInv, Active
    <3>2. \A r \in unbound : r \in Sessions
      BY <1>2 DEF PageTypeOK
    <3>3. QED BY <1>1, <1>2, <2>4, <3>1, <3>2 DEF EndedIsForgotten
  <2>11. EmptyInv'
    BY <1>1, <1>2 DEF EmptyInv
  <2>12. QED
    BY <2>2, <2>6, <2>7, <2>8, <2>9, <2>10, <2>11 DEF PagesInv
<1>6. QED BY <1>4, <1>5

(* A thread that is done with its request.                                 *)
LEMMA FinishInv ==
  ASSUME PagesInv, NEW t \in Requests, request' = [request EXCEPT ![t] = Idle],
         held' \in [Maps -> Seq(Pages)], kept' \in [Sessions -> SUBSET Pages],
         \A r \in unbound : kept'[r] = {},
         destroyed => \A r \in Sessions : kept'[r] = {},
         UNCHANGED <<cache, destroyed, unbound, overlap>>,
         StoredIsFound'
  PROVE  PagesInv'
<1>1. /\ PageTypeOK /\ Apart /\ MapsInv /\ EndedInv /\ EmptyInv
      /\ EndedIsForgotten
  BY DEF PagesInv
<1>2. Idle \in [at : {"idle", "create", "lock"}, op : Ops, session : Sessions,
                page : Pages, map : Maps \cup {NoMap}, ended : BOOLEAN]
      /\ Idle.at = "idle"
  BY SessionAssumption DEF Idle, Ops
<1>3. /\ \A u \in Requests : u # t => request'[u] = request[u]
      /\ request'[t].at = "idle"
  BY <1>1, <1>2 DEF PageTypeOK
<1>4. PageTypeOK'
  BY <1>1, <1>2 DEF PageTypeOK
<1>5. Apart' /\ EmptyInv' /\ EndedIsForgotten'
  BY <1>1 DEF Apart, EmptyInv, EndedIsForgotten
<1>6. MapsInv' /\ EndedInv'
  BY <1>1, <1>3 DEF MapsInv, EndedInv, Active
<1>7. QED BY <1>4, <1>5, <1>6 DEF PagesInv

LEMMA ThrowInv ==
  ASSUME PagesInv, NEW t \in Requests, Throw(t)
  PROVE  PagesInv'
<1>1. /\ request' = [request EXCEPT ![t] = Idle]
      /\ UNCHANGED <<cache, destroyed, held, unbound, overlap, kept>>
  BY DEF Throw
<1>2. /\ held' \in [Maps -> Seq(Pages)] /\ kept' \in [Sessions -> SUBSET Pages]
      /\ \A r \in unbound : kept'[r] = {}
      /\ destroyed => \A r \in Sessions : kept'[r] = {}
      /\ StoredIsFound'
  BY <1>1 DEF PagesInv, PageTypeOK, EmptyInv, StoredIsFound
<1>3. QED BY <1>1, <1>2, FinishInv

(* A thread that has changed its map: the pages its session should find    *)
(* must be among those now held.                                           *)
LEMMA WrittenInv ==
  ASSUME PagesInv, NEW t \in Requests, request[t].at = "lock",
         NEW pages \in Seq(Pages), NEW stays \in SUBSET Pages,
         held' = [held EXCEPT ![request[t].map] = pages],
         kept' = IF request[t].ended THEN kept
                 ELSE [kept EXCEPT ![request[t].session] = stays],
         ~request[t].ended => stays \subseteq ToSet(pages),
         Finish(t),
         UNCHANGED <<cache, destroyed, unbound, overlap>>
  PROVE  PagesInv'
<1> DEFINE m == request[t].map
           s == request[t].session
<1>1. /\ PageTypeOK /\ Apart /\ MapsInv /\ EndedInv /\ EmptyInv
      /\ StoredIsFound
  BY DEF PagesInv
<1>2. /\ s \in Sessions /\ m \in Maps
      /\ \A r \in Sessions : cache[r] = m => r = s
      /\ ~request[t].ended => cache[s] = m
      /\ request[t].ended <=> s \in unbound \/ destroyed
      /\ request[t].ended \in BOOLEAN
  BY <1>1 DEF PageTypeOK, MapsInv, EndedInv, Active
<1>3. held' \in [Maps -> Seq(Pages)]
  BY <1>1 DEF PageTypeOK
<1>4. /\ kept' \in [Sessions -> SUBSET Pages]
      /\ \A r \in Sessions : r # s => kept'[r] = kept[r]
      /\ request[t].ended => kept'[s] = kept[s]
      /\ ~request[t].ended => kept'[s] = stays
  BY <1>1, <1>2 DEF PageTypeOK
<1>5. /\ held'[m] = pages
      /\ \A q \in Maps : q # m => held'[q] = held[q]
  BY <1>1, <1>2 DEF PageTypeOK
<1> HIDE DEF m, s
<1>6. \A r \in unbound : kept'[r] = {}
  BY <1>1, <1>2, <1>4 DEF EmptyInv, PageTypeOK
<1>7. destroyed => \A r \in Sessions : kept'[r] = {}
  BY <1>1, <1>2, <1>4 DEF EmptyInv
<1>8. StoredIsFound'
  <2>1. SUFFICES ASSUME NEW r \in Sessions, NEW p \in kept'[r]
                 PROVE  cache[r] # NoMap /\ p \in ToSet(held'[cache[r]])
    BY DEF StoredIsFound
  <2>2. CASE r = s
    <3>1. ~request[t].ended
      BY <1>2, <1>6, <1>7, <2>1, <2>2
    <3>2. cache[r] = m /\ kept'[r] = stays
      BY <1>2, <1>4, <2>2, <3>1
    <3>3. QED
      BY <1>2, <1>5, <2>1, <3>1, <3>2, MapAssumption
  <2>3. CASE r # s
    <3>1. kept'[r] = kept[r] /\ cache[r] # NoMap
          /\ p \in ToSet(held[cache[r]])
      BY <1>1, <1>4, <2>1, <2>3 DEF StoredIsFound
    <3>2. cache[r] \in Maps /\ cache[r] # m
      BY <1>1, <1>2, <2>3, <3>1 DEF PageTypeOK
    <3>3. held'[cache[r]] = held[cache[r]]
      BY <1>5, <3>2
    <3>4. QED BY <3>1, <3>3
  <2>4. QED BY <2>2, <2>3
<1>9. request' = [request EXCEPT ![t] = Idle]
  BY DEF Finish
<1>10. QED BY <1>3, <1>4, <1>6, <1>7, <1>8, <1>9, FinishInv

(* What a thread knows when it has locked its map.                         *)
LEMMA LockedFacts ==
  ASSUME PagesInv, NEW t \in Requests, request[t].at = "lock"
  PROVE  /\ request[t].map \in Maps /\ request[t].session \in Sessions
         /\ request[t].page \in Pages
         /\ held[request[t].map] \in Seq(Pages)
         /\ kept[request[t].session] \in SUBSET Pages
         /\ ~request[t].ended =>
              kept[request[t].session] \subseteq ToSet(held[request[t].map])
<1>1. PageTypeOK /\ MapsInv /\ StoredIsFound
  BY DEF PagesInv
<1>2. /\ request[t].map \in Maps /\ request[t].session \in Sessions
      /\ request[t].page \in Pages
      /\ ~request[t].ended => cache[request[t].session] = request[t].map
  BY <1>1 DEF PageTypeOK, MapsInv
<1>3. /\ held[request[t].map] \in Seq(Pages)
      /\ kept[request[t].session] \in SUBSET Pages
  BY <1>1, <1>2 DEF PageTypeOK
<1>4. QED BY <1>1, <1>2, <1>3 DEF StoredIsFound

LEMMA GetPageInv ==
  ASSUME PagesInv, NEW t \in Requests, GetPage(t)
  PROVE  PagesInv'
<1> DEFINE m == request[t].map
           p == request[t].page
           s == request[t].session
           pages == IF p \in ToSet(held[m]) THEN ToEnd(held[m], p)
                    ELSE held[m]
<1>1. /\ request[t].at = "lock" /\ Finish(t)
      /\ held' = [held EXCEPT ![m] = pages]
      /\ UNCHANGED <<cache, destroyed, unbound, overlap, kept>>
  BY DEF GetPage, PagesInv, PageTypeOK
<1>2. /\ m \in Maps /\ s \in Sessions /\ p \in Pages
      /\ held[m] \in Seq(Pages) /\ kept[s] \in SUBSET Pages
      /\ ~request[t].ended => kept[s] \subseteq ToSet(held[m])
  BY <1>1, LockedFacts
<1>3. /\ ToEnd(held[m], p) \in Seq(Pages)
      /\ ToSet(held[m]) \cup {p} \subseteq ToSet(ToEnd(held[m], p))
  BY <1>2, ToEndKeeps
<1>4. pages \in Seq(Pages) /\ ToSet(held[m]) \subseteq ToSet(pages)
  BY <1>2, <1>3
<1>5. kept' = IF request[t].ended THEN kept ELSE [kept EXCEPT ![s] = kept[s]]
  BY <1>1 DEF PagesInv, PageTypeOK
<1>6. ~request[t].ended => kept[s] \subseteq ToSet(pages)
  BY <1>2, <1>4
<1> HIDE DEF pages
<1>7. QED BY <1>1, <1>2, <1>4, <1>5, <1>6, WrittenInv

LEMMA RemovePageInv ==
  ASSUME PagesInv, NEW t \in Requests, RemovePage(t)
  PROVE  PagesInv'
<1> DEFINE m == request[t].map
           p == request[t].page
           s == request[t].session
           pages == Without(held[m], p)
           stays == kept[s] \ {p}
<1>1. /\ request[t].at = "lock" /\ Finish(t)
      /\ held' = [held EXCEPT ![m] = pages]
      /\ kept' = IF request[t].ended THEN kept ELSE [kept EXCEPT ![s] = stays]
      /\ UNCHANGED <<cache, destroyed, unbound, overlap>>
  BY DEF RemovePage, PagesInv, PageTypeOK
<1>2. /\ m \in Maps /\ s \in Sessions /\ p \in Pages
      /\ held[m] \in Seq(Pages) /\ kept[s] \in SUBSET Pages
      /\ ~request[t].ended => kept[s] \subseteq ToSet(held[m])
  BY <1>1, LockedFacts
<1>3. pages \in Seq(Pages) /\ ToSet(held[m]) \ {p} \subseteq ToSet(pages)
  BY <1>2, WithoutKeeps
<1>4. /\ stays \in SUBSET Pages
      /\ ~request[t].ended => stays \subseteq ToSet(pages)
  BY <1>2, <1>3
<1> HIDE DEF pages, stays
<1>5. QED BY <1>1, <1>3, <1>4, WrittenInv

LEMMA StorePageInv ==
  ASSUME PagesInv, NEW t \in Requests, StorePage(t)
  PROVE  PagesInv'
<1> DEFINE m == request[t].map
           p == request[t].page
           s == request[t].session
           put == ToEnd(held[m], p)
           pages == Fitting(put)
           stays == (kept[s] \cup {p}) \ Dropped(put)
<1>1. /\ request[t].at = "lock" /\ Finish(t)
      /\ held' = [held EXCEPT ![m] = pages]
      /\ kept' = IF request[t].ended THEN kept ELSE [kept EXCEPT ![s] = stays]
      /\ UNCHANGED <<cache, destroyed, unbound, overlap>>
  BY DEF StorePage, PagesInv, PageTypeOK
<1>2. /\ m \in Maps /\ s \in Sessions /\ p \in Pages
      /\ held[m] \in Seq(Pages) /\ kept[s] \in SUBSET Pages
      /\ ~request[t].ended => kept[s] \subseteq ToSet(held[m])
  BY <1>1, LockedFacts
<1>3. /\ put \in Seq(Pages) /\ Len(put) > 0
      /\ ToSet(held[m]) \cup {p} \subseteq ToSet(put)
  BY <1>2, ToEndKeeps
<1> HIDE DEF put
<1>4. pages \in Seq(Pages) /\ ToSet(put) \ Dropped(put) \subseteq ToSet(pages)
  BY <1>3, FittingKeeps
<1>5. /\ stays \in SUBSET Pages
      /\ ~request[t].ended => stays \subseteq ToSet(pages)
  BY <1>2, <1>3, <1>4
<1> HIDE DEF pages, stays
<1>6. QED BY <1>1, <1>4, <1>5, WrittenInv

(* A session that ends: its threads keep a map nobody will find again.     *)
LEMMA UnbindInv ==
  ASSUME PagesInv, NEW s \in Sessions, Unbind(s)
  PROVE  PagesInv'
<1> DEFINE ofSession == {t \in Requests : request[t].at # "idle"
                                          /\ request[t].session = s}
<1>1. /\ unbound' = unbound \cup {s}
      /\ cache' = [cache EXCEPT ![s] = NoMap]
      /\ overlap' = IF \E t \in ofSession : request[t].op = "store"
                    THEN overlap \cup {s} ELSE overlap
      /\ request' = [t \in Requests |->
           IF t \in ofSession THEN Ended(request[t]) ELSE request[t]]
      /\ kept' = [kept EXCEPT ![s] = {}]
      /\ UNCHANGED <<destroyed, held>> /\ ~destroyed /\ s \notin unbound
  BY DEF Unbind
<1>2. /\ PageTypeOK /\ Apart /\ MapsInv /\ EndedInv /\ EmptyInv
      /\ StoredIsFound /\ EndedIsForgotten
  BY DEF PagesInv
<1>3. /\ cache'[s] = NoMap /\ kept'[s] = {}
      /\ \A r \in Sessions : r # s =>
           cache'[r] = cache[r] /\ kept'[r] = kept[r]
  BY <1>1, <1>2 DEF PageTypeOK
<1>4. \A t \in Requests :
        /\ request'[t].at = request[t].at /\ request'[t].op = request[t].op
        /\ request'[t].session = request[t].session
        /\ request'[t].map = request[t].map
        /\ t \in ofSession => request'[t].ended
        /\ t \notin ofSession => request'[t].ended = request[t].ended
  BY <1>1 DEF Ended
<1>5. PageTypeOK'
  <2>1. request' \in [Requests -> [at : {"idle", "create", "lock"}, op : Ops,
                        session : Sessions, page : Pages,
                        map : Maps \cup {NoMap}, ended : BOOLEAN]]
    BY <1>1, <1>2 DEF PageTypeOK, Ended
  <2>2. /\ cache' \in [Sessions -> Maps \cup {NoMap}]
        /\ kept' \in [Sessions -> SUBSET Pages]
        /\ unbound' \subseteq Sessions /\ overlap' \subseteq Sessions
    BY <1>1, <1>2 DEF PageTypeOK
  <2>3. QED BY <1>1, <1>2, <2>1, <2>2 DEF PageTypeOK
<1>6. \A t \in Requests : Active(t) /\ request[t].session = s <=>
        t \in ofSession
  BY DEF Active
<1>7. overlap \subseteq overlap'
      /\ ((\E t \in ofSession : request[t].op = "store") => s \in overlap')
  BY <1>1
<1> HIDE DEF ofSession
<1>8. Apart'
  BY <1>2, <1>3 DEF Apart
<1>9. MapsInv'
  <2>1. SUFFICES ASSUME NEW t \in Requests, request[t].at = "lock"
                 PROVE  /\ request[t].map \in Maps
                        /\ \A r \in Sessions : cache'[r] = request[t].map =>
                             r = request[t].session
                        /\ ~request'[t].ended =>
                             cache'[request[t].session] = request[t].map
    BY <1>4 DEF MapsInv
  <2>2. /\ request[t].map \in Maps /\ request[t].map # NoMap
        /\ \A r \in Sessions : cache[r] = request[t].map =>
             r = request[t].session
        /\ ~request[t].ended => cache[request[t].session] = request[t].map
        /\ request[t].session \in Sessions
    BY <1>2, <2>1, MapAssumption DEF MapsInv, PageTypeOK
  <2>3. \A r \in Sessions : cache'[r] = request[t].map =>
          r = request[t].session
    BY <1>3, <2>2
  <2>4. request[t].session = s => request'[t].ended
    BY <1>4, <1>6, <2>1 DEF Active
  <2>5. request[t].session # s => request'[t].ended = request[t].ended
    BY <1>4, <1>6
  <2>6. QED BY <1>3, <2>2, <2>3, <2>4, <2>5
<1>10. EndedInv'
  <2>1. SUFFICES ASSUME NEW t \in Requests, Active(t)
                 PROVE  /\ request'[t].ended <=>
                             request[t].session \in unbound' \/ destroyed
                        /\ request[t].at = "create" => request[t].op = "store"
                        /\ request[t].op = "store"
                           /\ request[t].session \in unbound'
                             => request[t].session \in overlap'
    BY <1>1, <1>4 DEF EndedInv, Active
  <2>2. /\ request[t].ended <=> request[t].session \in unbound \/ destroyed
        /\ request[t].at = "create" => request[t].op = "store"
        /\ request[t].op = "store" /\ request[t].session \in unbound
             => request[t].session \in overlap
    BY <1>2, <2>1 DEF EndedInv
  <2>3. CASE request[t].session = s
    BY <1>1, <1>4, <1>6, <1>7, <2>1, <2>2, <2>3
  <2>4. CASE request[t].session # s
    <3>1. request'[t].ended = request[t].ended
      BY <1>4, <1>6, <2>4
    <3>2. request[t].session \in unbound' <=> request[t].session \in unbound
      BY <1>1, <2>4
    <3>3. QED BY <1>7, <2>2, <3>1, <3>2
  <2>5. QED BY <2>3, <2>4
<1>11. EmptyInv'
  BY <1>1, <1>2, <1>3 DEF EmptyInv, PageTypeOK
<1>12. StoredIsFound'
  BY <1>1, <1>2, <1>3 DEF StoredIsFound
<1>13. EndedIsForgotten'
  BY <1>1, <1>2, <1>3, <1>7 DEF EndedIsForgotten, PageTypeOK
<1>14. QED
  BY <1>5, <1>8, <1>9, <1>10, <1>11, <1>12, <1>13 DEF PagesInv

LEMMA DestroyInv ==
  ASSUME PagesInv, Destroy
  PROVE  PagesInv'
<1>1. /\ destroyed' = TRUE
      /\ cache' = [s \in Sessions |-> NoMap]
      /\ kept' = [s \in Sessions |-> {}]
      /\ request' = [t \in Requests |->
           IF request[t].at = "idle" THEN Idle ELSE Ended(request[t])]
      /\ UNCHANGED <<held, unbound, overlap>>
  BY DEF Destroy
<1>2. PageTypeOK /\ MapsInv /\ EndedInv
  BY DEF PagesInv
<1>3. Idle \in [at : {"idle", "create", "lock"}, op : Ops, session : Sessions,
                page : Pages, map : Maps \cup {NoMap}, ended : BOOLEAN]
      /\ Idle.at = "idle"
  BY SessionAssumption DEF Idle, Ops
<1>4. \A t \in Requests :
        /\ request'[t].at = request[t].at
        /\ Active(t) => /\ request'[t].op = request[t].op
                        /\ request'[t].session = request[t].session
                        /\ request'[t].map = request[t].map
                        /\ request'[t].ended
  BY <1>1, <1>3 DEF Ended, Active
<1>5. PageTypeOK'
  <2>1. request' \in [Requests -> [at : {"idle", "create", "lock"}, op : Ops,
                        session : Sessions, page : Pages,
                        map : Maps \cup {NoMap}, ended : BOOLEAN]]
    BY <1>1, <1>2, <1>3 DEF PageTypeOK, Ended
  <2>2. /\ cache' \in [Sessions -> Maps \cup {NoMap}]
        /\ kept' \in [Sessions -> SUBSET Pages]
    BY <1>1
  <2>3. QED BY <1>1, <1>2, <2>1, <2>2 DEF PageTypeOK
<1>6. \A s \in Sessions : cache'[s] = NoMap /\ kept'[s] = {}
  BY <1>1
<1>7. Apart' /\ EmptyInv' /\ StoredIsFound'
  BY <1>1, <1>2, <1>6 DEF Apart, EmptyInv, StoredIsFound, PageTypeOK
<1>8. EndedIsForgotten'
  BY <1>1, <1>2, <1>6 DEF EndedIsForgotten, PageTypeOK
<1>9. MapsInv'
  <2>1. SUFFICES ASSUME NEW t \in Requests, request'[t].at = "lock"
                 PROVE  /\ request'[t].map \in Maps
                        /\ \A r \in Sessions : cache'[r] = request'[t].map =>
                             r = request'[t].session
                        /\ request'[t].ended
    BY DEF MapsInv
  <2>2. /\ Active(t) /\ request[t].at = "lock"
    BY <1>4, <2>1 DEF Active
  <2>3. request[t].map \in Maps
    BY <1>2, <2>2 DEF MapsInv
  <2>4. QED BY <1>4, <1>6, <2>2, <2>3, MapAssumption
<1>10. EndedInv'
  <2>1. SUFFICES ASSUME NEW t \in Requests, Active(t)
                 PROVE  /\ request'[t].ended
                        /\ request'[t].at = "create" =>
                             request'[t].op = "store"
                        /\ request'[t].op = "store"
                           /\ request'[t].session \in unbound
                             => request'[t].session \in overlap
    BY <1>1, <1>4 DEF EndedInv, Active
  <2>2. QED BY <1>2, <1>4, <2>1 DEF EndedInv
<1>11. QED BY <1>5, <1>7, <1>8, <1>9, <1>10 DEF PagesInv

LEMMA PageNextInv == PagesInv /\ [PageNext]_pageVars => PagesInv'
<1>1. SUFFICES ASSUME PagesInv, [PageNext]_pageVars PROVE PagesInv'
  OBVIOUS
<1>2. ASSUME NEW t \in Requests, NEW op \in Ops, NEW s \in Sessions,
             NEW p \in Pages, LookUp(t, op, s, p)
      PROVE  PagesInv'
  BY <1>1, <1>2, LookUpInv
<1>3. ASSUME NEW t \in Requests,
             \/ PutIfAbsent(t) \/ Throw(t)
             \/ GetPage(t) \/ RemovePage(t) \/ StorePage(t)
      PROVE  PagesInv'
  BY <1>1, <1>3, PutIfAbsentInv, ThrowInv, GetPageInv, RemovePageInv,
     StorePageInv
<1>4. ASSUME NEW s \in Sessions, Unbind(s) PROVE PagesInv'
  BY <1>1, <1>4, UnbindInv
<1>5. CASE Destroy
  BY <1>1, <1>5, DestroyInv
<1>6. CASE UNCHANGED pageVars
  BY <1>1, <1>6
     DEF PagesInv, PageTypeOK, Apart, MapsInv, EndedInv, EmptyInv,
         StoredIsFound, EndedIsForgotten, pageVars, Active
<1>7. QED BY <1>1, <1>2, <1>3, <1>4, <1>5, <1>6 DEF PageNext

(* Whatever the threads of the server do between finding a map and locking *)
(* it, a stored page is found until it is removed, pushed out, or its      *)
(* session ends (storePage, getSessionCache, unbind, destroy).             *)
THEOREM StoredIsFoundCorrect == PageSpec => []StoredIsFound
<1>1. PagesInv => StoredIsFound BY DEF PagesInv
<1>2. QED BY <1>1, PageInitInv, PageNextInv, PTL DEF PageSpec

(* unbind() leaves nothing behind unless a store was under way.            *)
THEOREM EndedIsForgottenCorrect == PageSpec => []EndedIsForgotten
<1>1. PagesInv => EndedIsForgotten BY DEF PagesInv
<1>2. QED BY <1>1, PageInitInv, PageNextInv, PTL DEF PageSpec

-----------------------------------------------------------------------------
(***************************************************************************)
(* CachedObject, for any number of callers: whatever clear() empties       *)
(* between the test without a lock, the test under the lock and the read   *)
(* behind it, a call is left with a task of its own only where clear() has *)
(* thrown away the one it had found, and then nobody else has that task.   *)
(***************************************************************************)

(* A call has a task; one that has not read the field under the lock yet   *)
(* has one of its own; and what a call found under the lock is there still *)
(* or has been thrown away.                                                *)
HasTask == \A c \in Getters :
  IF Calling(c) THEN caller[c].future \in Futures ELSE caller[c] = Away
HasOwn == \A c \in Getters : caller[c].at \in {"check", "read"} => Alone(c)
HasFound ==
  \A c \in Getters :
    caller[c].at = "read" => cached # NoFuture \/ thrown[c] # {}

CachedInv ==
  CachedTypeOK /\ HasTask /\ HasOwn /\ HasFound /\ WorksOnTheCached

(* What a call at the point pc with the task f may rely on, when the field *)
(* is x and h has been thrown away.                                        *)
Found(pc, f, x, h, alone) ==
  /\ pc \in {"check", "read"} => alone
  /\ pc = "read" => x # NoFuture \/ h # {}
  /\ pc \in {"open", "wait"} => f \in {x} \cup h \/ (h # {} /\ alone)

LEMMA FoundIsInv ==
  ASSUME CachedInv, NEW c \in Getters
  PROVE  Found(caller[c].at, caller[c].future, cached, thrown[c], Alone(c))
BY DEF CachedInv, HasOwn, HasFound, WorksOnTheCached, Working, Found

LEMMA CachedInitInv == CachedInit => CachedInv
<1>1. SUFFICES ASSUME CachedInit PROVE CachedInv OBVIOUS
<1>2. \A c \in Getters : caller[c] = Away
  BY <1>1 DEF CachedInit
<1>3. CachedTypeOK
  BY <1>1 DEF CachedInit, CachedTypeOK, Away
<1>4. HasTask /\ HasOwn /\ HasFound /\ WorksOnTheCached
  BY <1>2
     DEF HasTask, HasOwn, HasFound, WorksOnTheCached, Calling, Working, Away
<1>5. QED BY <1>3, <1>4 DEF CachedInv

(* One call moves.  The others rely on what they relied on: the field is   *)
(* as it was or is filled, and with a task that only this call had; and    *)
(* this call takes a task nobody else has, or the one in the field.        *)
LEMMA OneCallerMoves ==
  ASSUME CachedInv, NEW c \in Getters,
         NEW r \in [at : {"away", "check", "read", "open", "wait"},
                    future : Futures \cup {NoFuture}],
         caller' = [caller EXCEPT ![c] = r],
         thrown' = thrown \/ (thrown' = [thrown EXCEPT ![c] = {}]
                              /\ r = Away),
         cached' = cached
           \/ (cached = NoFuture /\ cached' = caller[c].future /\ Alone(c)),
         cached' \in Futures \cup {NoFuture},
         outcome' \in [Futures -> {"pending", "done", "failed"}],
         IF r.at = "away" THEN r = Away ELSE r.future \in Futures,
         \/ r.future \in {cached, caller[c].future, NoFuture}
         \/ \A d \in Getters : caller[d].future # r.future,
         Found(r.at, r.future, cached', thrown[c],
               /\ r.future # cached'
               /\ \A d \in Getters \ {c} : caller[d].future # r.future)
  PROVE  CachedInv'
<1>1. CachedTypeOK /\ HasTask /\ HasOwn /\ HasFound /\ WorksOnTheCached
  BY DEF CachedInv
<1>2. /\ caller'[c] = r
      /\ \A d \in Getters : d # c =>
           caller'[d] = caller[d] /\ thrown'[d] = thrown[d]
      /\ r.at # "away" => thrown'[c] = thrown[c]
  BY <1>1 DEF CachedTypeOK, Away
<1>3. CachedTypeOK'
  BY <1>1 DEF CachedTypeOK
<1>4. HasTask'
  BY <1>1, <1>2 DEF HasTask, Calling
<1>5. ASSUME NEW d \in Getters
      PROVE  Found(caller'[d].at, caller'[d].future, cached', thrown'[d],
                   Alone(d)')
  <2>1. CASE d = c
    <3>1. Alone(c)' <=> /\ r.future # cached'
                        /\ \A e \in Getters \ {c} : caller[e].future # r.future
      BY <1>2 DEF Alone
    <3>2. QED BY <1>2, <2>1, <3>1 DEF Found
  <2>2. CASE d # c
    <3>1. Found(caller[d].at, caller[d].future, cached, thrown[d], Alone(d))
      BY FoundIsInv
    <3>2. caller'[d] = caller[d] /\ thrown'[d] = thrown[d]
      BY <1>2, <2>2
    <3>3. CASE caller[d].at = "away"
      BY <3>2, <3>3 DEF Found
    <3>4. CASE caller[d].at # "away"
      <4>1. caller[d].future \in Futures
        BY <1>1, <3>4 DEF HasTask, Calling
      <4>2. ASSUME Alone(d) PROVE Alone(d)'
        <5>1. /\ caller[d].future # cached
              /\ \A e \in Getters \ {d} : caller[e].future # caller[d].future
          BY <4>2 DEF Alone
        <5>2. caller[c].future # caller[d].future
          BY <2>2, <5>1
        <5>3. caller[d].future # cached'
          BY <5>1, <5>2
        <5>4. r.future # caller[d].future
          BY <4>1, <5>1, <5>2, FutureAssumption
        <5>5. \A e \in Getters \ {d} : caller'[e].future # caller'[d].future
          BY <1>2, <3>2, <5>1, <5>4
        <5>6. QED BY <3>2, <5>3, <5>5 DEF Alone
      <4>3. caller[d].future # cached \/ cached # NoFuture
        BY <4>1, FutureAssumption
      <4>4. cached' = cached \/ (cached = NoFuture /\ caller[d].future # cached)
        BY <4>3
      <4>5. cached # NoFuture => cached' = cached
        OBVIOUS
      <4>6. caller[d].future \in {cached} => cached' = cached
        BY <4>4
      <4>7. QED BY <3>1, <3>2, <4>2, <4>5, <4>6 DEF Found
    <3>5. QED BY <3>3, <3>4
  <2>3. QED BY <2>1, <2>2
<1>6. HasOwn' /\ HasFound' /\ WorksOnTheCached'
  BY <1>5 DEF HasOwn, HasFound, WorksOnTheCached, Working, Found
<1>7. QED BY <1>3, <1>4, <1>6 DEF CachedInv

(* A call that finds the field empty makes a task nobody has.              *)
LEMMA GetInv ==
  ASSUME CachedInv, NEW c \in Getters, Get(c)
  PROVE  CachedInv'
<1>1. /\ cached \in Futures \cup {NoFuture}
      /\ outcome \in [Futures -> {"pending", "done", "failed"}]
      /\ cached' = cached /\ thrown' = thrown
  BY DEF CachedInv, CachedTypeOK, Get
<1>2. CASE cached # NoFuture
  <2> DEFINE r == [at |-> "wait", future |-> cached]
  <2>1. /\ caller' = [caller EXCEPT ![c] = r]
        /\ outcome' = outcome
    BY <1>2 DEF Get, Moves
  <2>2. /\ r \in [at : {"away", "check", "read", "open", "wait"},
                  future : Futures \cup {NoFuture}]
        /\ r.at = "wait" /\ r.future = cached /\ cached \in Futures
    BY <1>1, <1>2
  <2> HIDE DEF r
  <2>3. IF r.at = "away" THEN r = Away ELSE r.future \in Futures
    BY <2>2
  <2>4. Found(r.at, r.future, cached', thrown[c],
              /\ r.future # cached'
              /\ \A d \in Getters \ {c} : caller[d].future # r.future)
    BY <1>1, <2>2 DEF Found
  <2>5. QED BY <1>1, <2>1, <2>2, <2>3, <2>4, OneCallerMoves
<1>3. CASE cached = NoFuture
  <2>1. PICK f \in Futures :
          /\ Abandoned(f)
          /\ caller' = [caller EXCEPT ![c] = [at |-> "check", future |-> f]]
          /\ outcome' = [outcome EXCEPT ![f] = "pending"]
    BY <1>3 DEF Get, Moves
  <2> DEFINE r == [at |-> "check", future |-> f]
  <2>2. /\ r \in [at : {"away", "check", "read", "open", "wait"},
                  future : Futures \cup {NoFuture}]
        /\ r.at = "check" /\ r.future = f
    OBVIOUS
  <2>3. caller' = [caller EXCEPT ![c] = r]
    BY <2>1
  <2> HIDE DEF r
  <2>4. f # cached /\ \A d \in Getters : caller[d].future # f
    BY <2>1 DEF Abandoned
  <2>5. IF r.at = "away" THEN r = Away ELSE r.future \in Futures
    BY <2>2
  <2>6. Found(r.at, r.future, cached', thrown[c],
              /\ r.future # cached'
              /\ \A d \in Getters \ {c} : caller[d].future # r.future)
    BY <1>1, <2>2, <2>4 DEF Found
  <2>7. outcome' \in [Futures -> {"pending", "done", "failed"}]
    BY <1>1, <2>1
  <2>8. QED BY <1>1, <2>2, <2>3, <2>4, <2>5, <2>6, <2>7, OneCallerMoves
<1>4. QED BY <1>2, <1>3

(* A call that keeps its task, or puts it into the empty field.            *)
LEMMA KeepsTask ==
  ASSUME CachedInv, NEW c \in Getters, Calling(c),
         NEW pc \in {"read", "open", "wait"}, Moves(c, pc, caller[c].future),
         cached' = cached
           \/ (cached = NoFuture /\ cached' = caller[c].future /\ Alone(c)),
         thrown' = thrown,
         outcome' \in [Futures -> {"pending", "done", "failed"}],
         Found(pc, caller[c].future, cached', thrown[c],
               /\ caller[c].future # cached'
               /\ \A d \in Getters \ {c} :
                    caller[d].future # caller[c].future)
  PROVE  CachedInv'
<1>1. cached \in Futures \cup {NoFuture} /\ caller[c].future \in Futures
  BY DEF CachedInv, CachedTypeOK, HasTask
<1> DEFINE r == [at |-> pc, future |-> caller[c].future]
<1>2. caller' = [caller EXCEPT ![c] = r]
  BY DEF Moves
<1>3. /\ r \in [at : {"away", "check", "read", "open", "wait"},
                future : Futures \cup {NoFuture}]
      /\ r.at = pc /\ r.future = caller[c].future
  BY <1>1
<1> HIDE DEF r
<1>4. IF r.at = "away" THEN r = Away ELSE r.future \in Futures
  BY <1>1, <1>3
<1>5. Found(r.at, r.future, cached', thrown[c],
            /\ r.future # cached'
            /\ \A d \in Getters \ {c} : caller[d].future # r.future)
  BY <1>3
<1>6. QED BY <1>1, <1>2, <1>3, <1>4, <1>5, OneCallerMoves

LEMMA CheckInv ==
  ASSUME CachedInv, NEW c \in Getters, Check(c)
  PROVE  CachedInv'
<1>1. /\ outcome' \in [Futures -> {"pending", "done", "failed"}]
      /\ thrown' = thrown
      /\ Calling(c) /\ Alone(c)
  BY DEF CachedInv, CachedTypeOK, HasOwn, Check, Calling
<1>2. CASE cached = NoFuture
  <2>1. cached' = caller[c].future /\ Moves(c, "open", caller[c].future)
    BY <1>2 DEF Check, Put
  <2>2. Found("open", caller[c].future, cached', thrown[c],
              /\ caller[c].future # cached'
              /\ \A d \in Getters \ {c} : caller[d].future # caller[c].future)
    BY <2>1 DEF Found
  <2>3. QED BY <1>1, <1>2, <2>1, <2>2, KeepsTask
<1>3. CASE cached # NoFuture
  <2>1. cached' = cached /\ Moves(c, "read", caller[c].future)
    BY <1>3 DEF Check
  <2>2. Found("read", caller[c].future, cached', thrown[c],
              /\ caller[c].future # cached'
              /\ \A d \in Getters \ {c} : caller[d].future # caller[c].future)
    BY <1>1, <1>3, <2>1 DEF Found, Alone
  <2>3. QED BY <1>1, <2>1, <2>2, KeepsTask
<1>4. QED BY <1>2, <1>3

LEMMA ReadInv ==
  ASSUME CachedInv, NEW c \in Getters, Read(c)
  PROVE  CachedInv'
<1>1. /\ cached \in Futures \cup {NoFuture}
      /\ outcome' \in [Futures -> {"pending", "done", "failed"}]
      /\ cached' = cached /\ thrown' = thrown
      /\ Calling(c) /\ Alone(c)
      /\ cached # NoFuture \/ thrown[c] # {}
  BY DEF CachedInv, CachedTypeOK, HasOwn, HasFound, Read, Calling
<1>2. CASE cached = NoFuture
  <2>1. Moves(c, "open", caller[c].future)
    BY <1>2 DEF Read
  <2>2. Found("open", caller[c].future, cached', thrown[c],
              /\ caller[c].future # cached'
              /\ \A d \in Getters \ {c} : caller[d].future # caller[c].future)
    BY <1>1, <1>2 DEF Found, Alone
  <2>3. QED BY <1>1, <2>1, <2>2, KeepsTask
<1>3. CASE cached # NoFuture
  <2> DEFINE r == [at |-> "wait", future |-> cached]
  <2>1. caller' = [caller EXCEPT ![c] = r]
    BY <1>3 DEF Read, Moves
  <2>2. /\ r \in [at : {"away", "check", "read", "open", "wait"},
                  future : Futures \cup {NoFuture}]
        /\ r.at = "wait" /\ r.future = cached /\ cached \in Futures
    BY <1>1, <1>3
  <2> HIDE DEF r
  <2>3. IF r.at = "away" THEN r = Away ELSE r.future \in Futures
    BY <2>2
  <2>4. Found(r.at, r.future, cached', thrown[c],
              /\ r.future # cached'
              /\ \A d \in Getters \ {c} : caller[d].future # r.future)
    BY <1>1, <2>2 DEF Found
  <2>5. QED BY <1>1, <2>1, <2>2, <2>3, <2>4, OneCallerMoves
<1>4. QED BY <1>2, <1>3

LEMMA OpenInv ==
  ASSUME CachedInv, NEW c \in Getters, Open(c)
  PROVE  CachedInv'
<1>1. /\ caller[c].at = "open" /\ cached' = cached /\ thrown' = thrown
      /\ Moves(c, "wait", caller[c].future)
      /\ outcome \in [Futures -> {"pending", "done", "failed"}]
  BY DEF Open, CachedInv, CachedTypeOK
<1>2. PICK o \in {"done", "failed"} :
        outcome' = [outcome EXCEPT ![caller[c].future] = o]
  BY DEF Open
<1>3. outcome' \in [Futures -> {"pending", "done", "failed"}]
  BY <1>1, <1>2
<1>4. Found("open", caller[c].future, cached, thrown[c], Alone(c))
  BY <1>1, FoundIsInv
<1>5. Found("wait", caller[c].future, cached', thrown[c],
            /\ caller[c].future # cached'
            /\ \A d \in Getters \ {c} : caller[d].future # caller[c].future)
  BY <1>1, <1>4 DEF Found, Alone
<1>6. Calling(c)
  BY <1>1 DEF Calling
<1>7. QED BY <1>1, <1>3, <1>5, <1>6, KeepsTask

LEMMA GetEndsInv ==
  ASSUME CachedInv, NEW c \in Getters, GetEnds(c)
  PROVE  CachedInv'
<1>1. /\ caller' = [caller EXCEPT ![c] = Away]
      /\ thrown' = [thrown EXCEPT ![c] = {}]
      /\ UNCHANGED <<cached, outcome>>
  BY DEF GetEnds
<1>2. /\ Away \in [at : {"away", "check", "read", "open", "wait"},
                   future : Futures \cup {NoFuture}]
      /\ Away.at = "away" /\ Away.future = NoFuture
  BY DEF Away
<1>3. /\ cached \in Futures \cup {NoFuture}
      /\ outcome \in [Futures -> {"pending", "done", "failed"}]
  BY DEF CachedInv, CachedTypeOK
<1>4. Found(Away.at, Away.future, cached', thrown[c],
            /\ Away.future # cached'
            /\ \A d \in Getters \ {c} : caller[d].future # Away.future)
  BY <1>2 DEF Found
<1>5. QED BY <1>1, <1>2, <1>3, <1>4, OneCallerMoves

(* What clear() throws away stays good for the calls in progress.          *)
LEMMA ClearInv ==
  ASSUME CachedInv, Clear
  PROVE  CachedInv'
<1>1. /\ CachedTypeOK /\ HasTask
      /\ cached # NoFuture /\ cached' = NoFuture
      /\ thrown' = [c \in Getters |->
           IF Calling(c) THEN thrown[c] \cup {cached} ELSE thrown[c]]
      /\ UNCHANGED <<outcome, caller>>
  BY DEF CachedInv, Clear
<1>2. CachedTypeOK'
  BY <1>1 DEF CachedTypeOK
<1>3. HasTask'
  BY <1>1 DEF HasTask, Calling
<1>4. ASSUME NEW c \in Getters
      PROVE  Found(caller'[c].at, caller'[c].future, cached', thrown'[c],
                   Alone(c)')
  <2>1. Found(caller[c].at, caller[c].future, cached, thrown[c], Alone(c))
    BY FoundIsInv
  <2>2. CASE caller[c].at = "away"
    BY <1>1, <2>2 DEF Found
  <2>3. CASE caller[c].at # "away"
    <3>1. thrown'[c] = thrown[c] \cup {cached}
      BY <1>1, <2>3 DEF Calling
    <3>2. caller[c].future \in Futures
      BY <1>1, <2>3 DEF HasTask, Calling
    <3>3. Alone(c) => Alone(c)'
      BY <1>1, <3>2, FutureAssumption DEF Alone
    <3>4. QED BY <1>1, <2>1, <3>1, <3>3 DEF Found
  <2>4. QED BY <2>2, <2>3
<1>5. HasOwn' /\ HasFound' /\ WorksOnTheCached'
  BY <1>4 DEF HasOwn, HasFound, WorksOnTheCached, Working, Found
<1>6. QED BY <1>2, <1>3, <1>5 DEF CachedInv

(* get() and clear(): a call works on the task in the field, on one that   *)
(* has been thrown away since it began, or, clear() having fallen between  *)
(* the test and the read under the lock, on one that is its alone.         *)
THEOREM WorksOnTheCachedCorrect == CachedSpec => []WorksOnTheCached
<1>1. CachedInv /\ [CachedNext]_cachedVars => CachedInv'
  <2>1. SUFFICES ASSUME CachedInv, [CachedNext]_cachedVars PROVE CachedInv'
    OBVIOUS
  <2>2. ASSUME NEW c \in Getters,
               \/ Get(c) \/ Check(c) \/ Read(c) \/ Open(c)
               \/ Return(c) \/ Interrupt(c)
        PROVE  CachedInv'
    BY <2>1, <2>2, GetInv, CheckInv, ReadInv, OpenInv, GetEndsInv
       DEF Return, Interrupt
  <2>3. CASE Clear
    BY <2>1, <2>3, ClearInv
  <2>4. CASE UNCHANGED cachedVars
    BY <2>1, <2>4 DEF CachedInv, CachedTypeOK, HasTask, HasOwn, HasFound,
                      WorksOnTheCached, Calling, Working, Alone, cachedVars
  <2>5. QED BY <2>1, <2>2, <2>3, <2>4 DEF CachedNext
<1>2. CachedInv => WorksOnTheCached
  BY DEF CachedInv
<1>3. QED BY <1>1, <1>2, CachedInitInv, PTL DEF CachedSpec

-----------------------------------------------------------------------------
(***************************************************************************)
(* ConnectionManager and ConnectionWrapper, for any owners, statements and *)
(* pool: whatever the driver refuses, a statement that cannot be closed    *)
(* keeps neither the connection nor the statements behind it.              *)
(***************************************************************************)

(* The connection of an owner and what is left of it.                      *)
ConnectionTypeOK ==
  /\ kind \in [Owners -> {"manager", "wrapper"}]
  /\ at \in [Owners -> {"gone", "use", "statements", "connection"}]
  /\ final \in [Owners -> BOOLEAN]
  /\ connection \in [Owners -> {"none", "open", "closed"}]
  /\ listed \in [Owners -> SUBSET Statements]
  /\ remaining \in [Owners -> SUBSET Statements]
  /\ opened \in [Owners -> SUBSET Statements]
  /\ asked \in [Owners -> BOOLEAN]
  /\ refused \in [Owners -> BOOLEAN]

(* A connection that is not open has no statement that is.                 *)
ClosedWithStatements ==
  \A o \in Owners : connection[o] # "open" => opened[o] = {}

ConnectionsInv == ConnectionTypeOK /\ ClosedWithStatements /\ NothingLeaks

LEMMA ConnectionInitInv == ConnectionInit => ConnectionsInv
<1>1. SUFFICES ASSUME ConnectionInit PROVE ConnectionsInv OBVIOUS
<1>2. ConnectionTypeOK
  BY <1>1 DEF ConnectionInit, ConnectionTypeOK
<1>3. ClosedWithStatements /\ NothingLeaks
  BY <1>1 DEF ConnectionInit, ClosedWithStatements, NothingLeaks
<1>4. QED BY <1>2, <1>3 DEF ConnectionsInv

(* Whoever has the owner in his hands: it begins, with a connection or     *)
(* without, and makes statements while it has one.                         *)
LEMMA OwnerUsedInv ==
  ASSUME ConnectionsInv, NEW o \in Owners,
         \/ \E k \in {"manager", "wrapper"} : Connected(o, k)
         \/ \E s \in Statements : CreateStatement(o, s)
         \/ ConnectionLost(o) \/ Drop(o)
  PROVE  ConnectionsInv'
<1>1. ConnectionTypeOK /\ ClosedWithStatements /\ NothingLeaks
  BY DEF ConnectionsInv
<1>2. ASSUME NEW k \in {"manager", "wrapper"}, Connected(o, k)
      PROVE  ConnectionsInv'
  <2>1. ConnectionTypeOK'
    BY <1>1, <1>2 DEF ConnectionTypeOK, Connected
  <2>2. /\ at'[o] = "use" /\ ~asked'[o]
        /\ opened'[o] = {}
    BY <1>1, <1>2 DEF ConnectionTypeOK, ClosedWithStatements, Connected
  <2>3. ClosedWithStatements' /\ NothingLeaks'
    BY <1>1, <1>2, <2>2
       DEF ConnectionTypeOK, ClosedWithStatements, NothingLeaks, Connected
  <2>4. QED BY <2>1, <2>3 DEF ConnectionsInv
<1>3. ASSUME NEW s \in Statements, CreateStatement(o, s)
      PROVE  ConnectionsInv'
  <2>1. ConnectionTypeOK'
    BY <1>1, <1>3 DEF ConnectionTypeOK, CreateStatement
  <2>2. connection[o] = "open"
    BY <1>3 DEF CreateStatement
  <2>3. ClosedWithStatements' /\ NothingLeaks'
    BY <1>1, <1>3, <2>2
       DEF ConnectionTypeOK, ClosedWithStatements, NothingLeaks, CreateStatement
  <2>4. QED BY <2>1, <2>3 DEF ConnectionsInv
<1>4. CASE ConnectionLost(o)
  <2>1. ConnectionTypeOK'
    BY <1>1, <1>4 DEF ConnectionTypeOK, ConnectionLost
  <2>2. ClosedWithStatements' /\ NothingLeaks'
    BY <1>1, <1>4
       DEF ConnectionTypeOK, ClosedWithStatements, NothingLeaks, ConnectionLost
  <2>3. QED BY <2>1, <2>2 DEF ConnectionsInv
<1>5. CASE Drop(o)
  <2>1. ConnectionTypeOK'
    BY <1>1, <1>5 DEF ConnectionTypeOK, Drop
  <2>2. ClosedWithStatements' /\ NothingLeaks'
    BY <1>1, <1>5
       DEF ConnectionTypeOK, ClosedWithStatements, NothingLeaks, Drop
  <2>3. QED BY <2>1, <2>2 DEF ConnectionsInv
<1>6. QED BY <1>2, <1>3, <1>4, <1>5

(* dispose() is called: it finds nothing to do, or begins.                 *)
LEMMA DisposeInv ==
  ASSUME ConnectionsInv, NEW o \in Owners, NotConnected(o) \/ Dispose(o)
  PROVE  ConnectionsInv'
<1>1. ConnectionTypeOK /\ ClosedWithStatements /\ NothingLeaks
  BY DEF ConnectionsInv
<1>2. CASE NotConnected(o)
  <2>1. ConnectionTypeOK'
    BY <1>1, <1>2 DEF ConnectionTypeOK, NotConnected, DisposeEnds
  <2>2. refused'[o] \/ connection[o] # "open"
    BY <1>1, <1>2 DEF ConnectionTypeOK, NotConnected
  <2>3. /\ UNCHANGED <<kind, connection, opened>>
        /\ \A x \in Owners \ {o} :
             /\ at'[x] = at[x] /\ asked'[x] = asked[x]
             /\ refused'[x] = refused[x]
    BY <1>1, <1>2 DEF ConnectionTypeOK, NotConnected, DisposeEnds
  <2>4. ClosedWithStatements' /\ NothingLeaks'
    BY <1>1, <2>2, <2>3 DEF ClosedWithStatements, NothingLeaks
  <2>5. QED BY <2>1, <2>4 DEF ConnectionsInv
<1>3. CASE Dispose(o)
  <2>1. ConnectionTypeOK'
    BY <1>1, <1>3 DEF ConnectionTypeOK, Dispose
  <2>2. ClosedWithStatements' /\ NothingLeaks'
    BY <1>1, <1>3
       DEF ConnectionTypeOK, ClosedWithStatements, NothingLeaks, Dispose
  <2>3. QED BY <2>1, <2>2 DEF ConnectionsInv
<1>4. QED BY <1>2, <1>3

(* The loop over the statements, which one that cannot be closed ends.     *)
LEMMA StatementsInv ==
  ASSUME ConnectionsInv, NEW o \in Owners,
         \/ \E s \in Statements : DisposeStatement(o, s)
         \/ StatementFails(o) \/ StatementsClosed(o)
  PROVE  ConnectionsInv'
<1>1. ConnectionTypeOK /\ ClosedWithStatements /\ NothingLeaks
  BY DEF ConnectionsInv
<1>2. /\ UNCHANGED <<kind, final, connection, asked, refused>>
      /\ at[o] = "statements" /\ at' \in {at, [at EXCEPT ![o] = "connection"]}
      /\ \A x \in Owners : opened'[x] \subseteq opened[x]
  BY <1>1 DEF ConnectionTypeOK, DisposeStatement, StatementFails,
              StatementsClosed
<1>3. ConnectionTypeOK'
  BY <1>1 DEF ConnectionTypeOK, DisposeStatement, StatementFails,
              StatementsClosed
<1>4. ClosedWithStatements' /\ NothingLeaks'
  BY <1>1, <1>2 DEF ConnectionTypeOK, ClosedWithStatements, NothingLeaks
<1>5. QED BY <1>3, <1>4 DEF ConnectionsInv

(* The connection is closed, and its statements with it, or refuses.       *)
LEMMA CloseInv ==
  ASSUME ConnectionsInv, NEW o \in Owners, CloseConnection(o) \/ CloseFails(o)
  PROVE  ConnectionsInv'
<1>1. ConnectionTypeOK /\ ClosedWithStatements /\ NothingLeaks
  BY DEF ConnectionsInv
<1>2. /\ refused'[o] \/ (connection'[o] = "closed" /\ opened'[o] = {})
      /\ connection'[o] # "open" => opened'[o] = {}
  BY <1>1 DEF ConnectionTypeOK, ClosedWithStatements, CloseConnection,
              CloseFails
<1>3. \A x \in Owners \ {o} :
        /\ kind'[x] = kind[x] /\ at'[x] = at[x] /\ asked'[x] = asked[x]
        /\ refused'[x] = refused[x] /\ connection'[x] = connection[x]
        /\ opened'[x] = opened[x]
  BY <1>1 DEF ConnectionTypeOK, CloseConnection, CloseFails, DisposeEnds
<1>4. ConnectionTypeOK'
  BY <1>1 DEF ConnectionTypeOK, CloseConnection, CloseFails, DisposeEnds
<1>5. ClosedWithStatements' /\ NothingLeaks'
  BY <1>1, <1>2, <1>3 DEF ClosedWithStatements, NothingLeaks
<1>6. QED BY <1>4, <1>5 DEF ConnectionsInv

LEMMA ConnectionNextInv ==
  ConnectionsInv /\ [ConnectionNext]_connectionVars => ConnectionsInv'
<1>1. SUFFICES ASSUME ConnectionsInv, [ConnectionNext]_connectionVars
               PROVE  ConnectionsInv'
  OBVIOUS
<1>2. CASE ConnectionNext
  BY <1>1, <1>2, OwnerUsedInv, DisposeInv, StatementsInv, CloseInv
     DEF ConnectionNext
<1>3. CASE UNCHANGED connectionVars
  BY <1>1, <1>3 DEF ConnectionsInv, ConnectionTypeOK, ClosedWithStatements,
                    NothingLeaks, connectionVars
<1>4. QED BY <1>1, <1>2, <1>3

(* dispose() of ConnectionManager and of ConnectionWrapper, and finalize():*)
(* whoever has been disposed has given back the connection and left no     *)
(* statement open, unless the driver refused the connection itself.        *)
THEOREM NothingLeaksCorrect == ConnectionSpec => []NothingLeaks
<1>1. ConnectionsInv => NothingLeaks BY DEF ConnectionsInv
<1>2. QED BY <1>1, ConnectionInitInv, ConnectionNextInv, PTL DEF ConnectionSpec

-----------------------------------------------------------------------------
(***************************************************************************)
(* RepeatDaemonGroup, for any tasks, workers, queue objects and interval: a*)
(* task that is not astray is in one place, with the time it was last begun*)
(* or a later one.                                                         *)
(***************************************************************************)

RepeatTypeOK ==
  /\ now \in Times
  /\ noted \in [Names -> Times] /\ started \in [Names -> Times]
  /\ queue \in Objects
  /\ inQueue \in [Objects -> SUBSET RepeatTasks]
  /\ hand \in [RepeatWorkers ->
       [at : Hands \cup {"read", "take"},
        task : RepeatTasks \cup {NoRepeatTask}, ref : Objects \cup {NoObject}]]
  /\ making \in {"idle", "remove", "swap"}
  /\ newQueue \in SUBSET RepeatTasks
  /\ touched \in SUBSET Names /\ astray \in SUBSET Names

(* What a worker has in its hands.                                         *)
HandsInv ==
  \A w \in RepeatWorkers :
    /\ hand[w].at \in Hands => hand[w].task \in RepeatTasks
    /\ hand[w].at \in {"take", "add"} => hand[w].ref \in Objects

Entries(n) == {t \in inQueue[queue] : t.name = n}

(* A task is in one worker's hands or once in the queue.                   *)
OneCopy ==
  \A n \in Names \ astray :
    /\ \A v, w \in HoldersOf(n) : v = w
    /\ HoldersOf(n) # {} => Entries(n) = {}
    /\ \A t, u \in Entries(n) : t = u

(* Wherever it is, its time is that of its last run or later.              *)
NotOlder ==
  \A n \in Names \ astray :
    /\ \A w \in HoldersOf(n) : hand[w].task.last >= started[n]
    /\ \A t \in Entries(n) : t.last >= started[n]

(* The application knows of the last run, or will be told by the worker.   *)
WillNote ==
  \A n \in Names :
    \/ noted[n] >= started[n]
    \/ \E w \in HoldersOf(n) :
         hand[w].at \in {"due", "run"} /\ hand[w].task.last >= started[n]

(* While the queue is replaced, a task nobody has touched is in running as *)
(* the application knows it, or in nobody's hands; and once running has    *)
(* been removed, it is in the new queue in the second case only.           *)
Replacing ==
  making # "idle" =>
    \A n \in Names \ touched :
      /\ \A w \in HoldersOf(n) : Visible(w)
      /\ noted[n] >= started[n]
      /\ \A t \in newQueue : t.name = n => t.last = noted[n]
      /\ making = "swap" /\ HoldersOf(n) # {} =>
           \A t \in newQueue : t.name # n

RepeatInv ==
  RepeatTypeOK /\ HandsInv /\ OneCopy /\ NotOlder /\ WillNote /\ Replacing

(* There is always a queue object for the next queue.                      *)
LEMMA UnreferencedQueue ==
  ASSUME RepeatTypeOK
  PROVE  LET q == Unreferenced({queue} \cup {hand[w].ref : w \in RepeatWorkers})
         IN  /\ q \in Objects /\ q # queue
             /\ \A w \in RepeatWorkers : hand[w].ref # q
<1> DEFINE refs == {hand[w].ref : w \in RepeatWorkers}
           used == {queue} \cup refs
           ref == [w \in RepeatWorkers |-> hand[w].ref]
<1>1. ref \in Surjection(RepeatWorkers, refs)
  BY DEF Surjection
<1>2. IsFiniteSet(refs) /\ Cardinality(refs) <= Cardinality(RepeatWorkers)
  BY <1>1, FS_Surjection, RepeatAssumption
<1>3. /\ Cardinality(refs) \in Nat /\ Cardinality(RepeatWorkers) \in Nat
      /\ Cardinality(Objects) \in Nat
  BY <1>2, FS_CardinalityType, RepeatAssumption
<1>4. IsFiniteSet(used) /\ Cardinality(used) <= Cardinality(RepeatWorkers) + 1
  <2>1. used = refs \cup {queue}
    OBVIOUS
  <2> HIDE DEF refs, used
  <2>2. /\ IsFiniteSet(used)
        /\ Cardinality(used) = IF queue \in refs THEN Cardinality(refs)
                               ELSE Cardinality(refs) + 1
    BY <1>2, <2>1, FS_AddElement
  <2>3. QED BY <1>2, <1>3, <2>2
<1>5. ~(Objects \subseteq used)
  <2>1. SUFFICES ASSUME Objects \subseteq used PROVE FALSE
    OBVIOUS
  <2>2. Cardinality(Objects) <= Cardinality(used)
    BY <1>4, <2>1, FS_Subset
  <2>3. Cardinality(used) \in Nat
    BY <1>4, FS_CardinalityType
  <2>4. QED BY <1>3, <1>4, <2>2, <2>3, RepeatAssumption
<1>6. \E q \in Objects : q \notin used
  BY <1>5
<1>7. Unreferenced(used) \in Objects /\ Unreferenced(used) \notin used
  BY <1>6 DEF Unreferenced
<1>8. QED BY <1>7

LEMMA RepeatInitInv == RepeatInit => RepeatInv
<1>1. SUFFICES ASSUME RepeatInit PROVE RepeatInv OBVIOUS
<1>2. 0 \in Times
  BY RepeatAssumption DEF Times
<1>3. Unreferenced({}) \in Objects
  <2>1. Objects # {}
    <3>1. Cardinality(RepeatWorkers) \in Nat
      BY FS_CardinalityType, RepeatAssumption
    <3>2. QED BY <3>1, FS_EmptySet, RepeatAssumption
  <2>2. QED BY <2>1 DEF Unreferenced
<1>4. RepeatTypeOK
  BY <1>1, <1>2, <1>3 DEF RepeatInit, RepeatTypeOK, Hands
<1>5. \A w \in RepeatWorkers : hand[w].at = "read"
  BY <1>1 DEF RepeatInit
<1>6. \A n \in Names : HoldersOf(n) = {} /\ Entries(n) = {}
  BY <1>1, <1>3, <1>5 DEF RepeatInit, HoldersOf, Entries, Hands
<1>7. HandsInv /\ OneCopy /\ NotOlder /\ Replacing
  BY <1>1, <1>5, <1>6
     DEF RepeatInit, HandsInv, OneCopy, NotOlder, Replacing, Hands
<1>8. WillNote
  BY <1>1 DEF RepeatInit, WillNote
<1>9. QED BY <1>4, <1>7, <1>8 DEF RepeatInv

(* What a step of a worker does to the hands of all.                       *)
LEMMA HandMoves ==
  ASSUME RepeatTypeOK, NEW w \in RepeatWorkers, NEW a, NEW t, NEW r,
         Goes(w, a, t, r)
  PROVE  /\ hand'[w] = [at |-> a, task |-> t, ref |-> r]
         /\ \A v \in RepeatWorkers \ {w} : hand'[v] = hand[v]
         /\ \A n : HoldersOf(n)' =
              IF a \in Hands /\ t.name = n THEN HoldersOf(n) \cup {w}
              ELSE HoldersOf(n) \ {w}
<1>1. /\ hand'[w] = [at |-> a, task |-> t, ref |-> r]
      /\ \A v \in RepeatWorkers \ {w} : hand'[v] = hand[v]
  BY DEF RepeatTypeOK, Goes
<1>2. ASSUME NEW n
      PROVE  HoldersOf(n)' = IF a \in Hands /\ t.name = n
                             THEN HoldersOf(n) \cup {w}
                             ELSE HoldersOf(n) \ {w}
  BY <1>1 DEF HoldersOf
<1>3. QED BY <1>1, <1>2

LEMMA HandTypes ==
  ASSUME RepeatTypeOK, HandsInv, NEW w \in RepeatWorkers,
         NEW a \in Hands \cup {"read", "take"},
         NEW t \in RepeatTasks \cup {NoRepeatTask},
         NEW r \in Objects \cup {NoObject},
         Goes(w, a, t, r),
         a \in Hands => t \in RepeatTasks,
         a \in {"take", "add"} => r \in Objects
  PROVE  /\ hand' \in [RepeatWorkers ->
              [at : Hands \cup {"read", "take"},
               task : RepeatTasks \cup {NoRepeatTask},
               ref : Objects \cup {NoObject}]]
         /\ HandsInv'
<1>1. hand' \in [RepeatWorkers ->
        [at : Hands \cup {"read", "take"},
         task : RepeatTasks \cup {NoRepeatTask}, ref : Objects \cup {NoObject}]]
  BY DEF RepeatTypeOK, Goes
<1>2. HandsInv'
  <2>1. /\ hand'[w] = [at |-> a, task |-> t, ref |-> r]
        /\ \A v \in RepeatWorkers \ {w} : hand'[v] = hand[v]
    BY HandMoves
  <2>2. QED BY <2>1 DEF HandsInv
<1>3. QED BY <1>1, <1>2

(* A worker goes on with the task it has, or without one as before.        *)
LEMMA HolderStays ==
  ASSUME RepeatInv, NEW w \in RepeatWorkers,
         NEW a \in Hands \cup {"read", "take"},
         NEW r \in Objects \cup {NoObject},
         NEW t \in RepeatTasks \cup {NoRepeatTask},
         Goes(w, a, t, r),
         hand[w].at \in Hands <=> a \in Hands,
         a \in Hands => t = hand[w].task,
         a \in {"take", "add"} => r \in Objects,
         hand[w].at \in {"due", "run"} => a \in {"due", "run"},
         \/ hand[w].at \in {"run", "work"} => a \in {"run", "work"}
         \/ making # "idle" => hand[w].task.name \in touched',
         UNCHANGED <<now, noted, queue, inQueue, making, newQueue, started,
                     astray>>,
         touched \subseteq touched', touched' \subseteq Names
  PROVE  RepeatInv'
<1>1. RepeatTypeOK /\ HandsInv /\ OneCopy /\ NotOlder /\ WillNote /\ Replacing
  BY DEF RepeatInv
<1>2. /\ hand'[w] = [at |-> a, task |-> t, ref |-> r]
      /\ \A v \in RepeatWorkers \ {w} : hand'[v] = hand[v]
      /\ \A n : HoldersOf(n)' = HoldersOf(n)
      /\ a \in Hands => hand'[w].task = hand[w].task
  <2>1. /\ hand'[w] = [at |-> a, task |-> t, ref |-> r]
        /\ \A v \in RepeatWorkers \ {w} : hand'[v] = hand[v]
        /\ \A n : HoldersOf(n)' =
             IF a \in Hands /\ t.name = n THEN HoldersOf(n) \cup {w}
             ELSE HoldersOf(n) \ {w}
    BY <1>1, HandMoves
  <2>2. \A n : w \in HoldersOf(n) <=> a \in Hands /\ t.name = n
    BY DEF HoldersOf
  <2>3. QED BY <2>1, <2>2
<1>3. \A n : \A v \in HoldersOf(n) : hand'[v].task = hand[v].task
  BY <1>2 DEF HoldersOf
<1>4. \A n : Entries(n)' = Entries(n)
  BY DEF Entries
<1>5. RepeatTypeOK' /\ HandsInv'
  <2>1. a \in Hands => t \in RepeatTasks
    BY <1>1 DEF HandsInv
  <2>2. QED BY <1>1, <2>1, HandTypes DEF RepeatTypeOK, Times
<1>6. OneCopy' /\ NotOlder'
  BY <1>1, <1>2, <1>3, <1>4 DEF OneCopy, NotOlder
<1>7. WillNote'
  BY <1>1, <1>2, <1>3 DEF WillNote, HoldersOf
<1>8. Replacing'
  <2>1. SUFFICES ASSUME making # "idle", NEW n \in Names \ touched',
                        NEW v \in HoldersOf(n)
                 PROVE  Visible(v)'
    BY <1>1, <1>2 DEF Replacing
  <2>2. Visible(v)
    BY <1>1, <2>1 DEF Replacing
  <2>3. v = w => hand'[w].at \in {"run", "work"}
    BY <1>2, <2>1, <2>2 DEF Visible, HoldersOf
  <2>4. QED BY <1>2, <1>3, <2>1, <2>2, <2>3 DEF Visible, HoldersOf
<1>9. QED BY <1>5, <1>6, <1>7, <1>8 DEF RepeatInv

LEMMA QuietInv ==
  ASSUME RepeatInv, NEW w \in RepeatWorkers,
         \/ ReadField(w) \/ TakeNothing(w) \/ NotDue(w) \/ AddRunning(w)
         \/ RemoveFromRunning(w) \/ AddRead(w)
  PROVE  RepeatInv'
<1>1. /\ hand[w].at \in Hands => hand[w].task \in RepeatTasks
      /\ queue \in Objects /\ touched \subseteq Names
      /\ NoRepeatTask \in RepeatTasks \cup {NoRepeatTask}
      /\ NoObject \in Objects \cup {NoObject}
  BY DEF RepeatInv, RepeatTypeOK, HandsInv
<1>2. CASE ReadField(w)
  <2>1. /\ Goes(w, "take", NoRepeatTask, queue)
        /\ hand[w].at = "read"
        /\ UNCHANGED <<now, noted, queue, inQueue, making, newQueue, started,
                       touched, astray>>
    BY <1>2 DEF ReadField
  <2>2. QED BY <1>1, <2>1, HolderStays DEF Hands
<1>3. CASE TakeNothing(w)
  <2>1. /\ Goes(w, "read", NoRepeatTask, NoObject)
        /\ hand[w].at = "take"
        /\ UNCHANGED <<now, noted, queue, inQueue, making, newQueue, started,
                       touched, astray>>
    BY <1>3 DEF TakeNothing
  <2>2. QED BY <1>1, <2>1, HolderStays DEF Hands
<1>4. CASE NotDue(w)
  <2>1. /\ Goes(w, "back", hand[w].task, NoObject)
        /\ hand[w].at = "took"
        /\ UNCHANGED <<now, noted, queue, inQueue, making, newQueue, started,
                       touched, astray>>
    BY <1>4 DEF NotDue
  <2>2. QED BY <1>1, <2>1, HolderStays DEF Hands
<1>5. CASE AddRunning(w)
  <2>1. /\ Goes(w, "run", hand[w].task, NoObject)
        /\ hand[w].at = "due"
        /\ UNCHANGED <<now, noted, queue, inQueue, making, newQueue, started,
                       touched, astray>>
    BY <1>5 DEF AddRunning
  <2>2. QED BY <1>1, <2>1, HolderStays DEF Hands
<1>6. CASE RemoveFromRunning(w)
  <2>1. /\ Goes(w, "back", hand[w].task, NoObject)
        /\ hand[w].at = "work"
        /\ touched' = IF making # "idle" THEN touched \cup {hand[w].task.name}
                      ELSE touched
        /\ UNCHANGED <<now, noted, queue, inQueue, making, newQueue, started,
                       astray>>
    BY <1>6 DEF RemoveFromRunning
  <2>2. hand[w].task.name \in Names
    BY <1>1, <2>1 DEF Hands, RepeatTasks
  <2>3. QED BY <1>1, <2>1, <2>2, HolderStays DEF Hands
<1>7. CASE AddRead(w)
  <2>1. /\ Goes(w, "add", hand[w].task, queue)
        /\ hand[w].at = "back"
        /\ UNCHANGED <<now, noted, queue, inQueue, making, newQueue, started,
                       touched, astray>>
    BY <1>7 DEF AddRead
  <2>2. QED BY <1>1, <2>1, HolderStays DEF Hands
<1>8. QED BY <1>2, <1>3, <1>4, <1>5, <1>6, <1>7

(* A task is stamped: it is nobody else's, and the application will hear.  *)
LEMMA StartInv ==
  ASSUME RepeatInv, NEW w \in RepeatWorkers, Start(w)
  PROVE  RepeatInv'
<1>1. RepeatTypeOK /\ HandsInv /\ OneCopy /\ NotOlder /\ WillNote /\ Replacing
  BY DEF RepeatInv
<1> DEFINE t == hand[w].task
           stamped == [name |-> t.name, last |-> now]
<1>2. /\ hand[w].at = "took"
      /\ Goes(w, "due", stamped, NoObject)
      /\ started' = [started EXCEPT ![t.name] = now]
      /\ UNCHANGED <<now, noted, queue, inQueue, making, newQueue, touched,
                     astray>>
  BY DEF Start
<1>3. /\ t \in RepeatTasks /\ stamped \in RepeatTasks /\ t.name \in Names
      /\ now \in Nat
  BY <1>1, <1>2 DEF HandsInv, Hands, RepeatTypeOK, RepeatTasks, Times
<1>4. /\ hand'[w] = [at |-> "due", task |-> stamped, ref |-> NoObject]
      /\ \A v \in RepeatWorkers \ {w} : hand'[v] = hand[v]
      /\ \A n : HoldersOf(n)' = HoldersOf(n)
      /\ \A n : w \in HoldersOf(n) <=> n = t.name
  <2>1. /\ hand'[w] = [at |-> "due", task |-> stamped, ref |-> NoObject]
        /\ \A v \in RepeatWorkers \ {w} : hand'[v] = hand[v]
        /\ \A n : HoldersOf(n)' =
             IF "due" \in Hands /\ stamped.name = n THEN HoldersOf(n) \cup {w}
             ELSE HoldersOf(n) \ {w}
    BY <1>1, <1>2, HandMoves
  <2>2. \A n : w \in HoldersOf(n) <=> n = t.name
    BY <1>2 DEF HoldersOf, Hands
  <2>3. QED BY <2>1, <2>2 DEF Hands
<1>5. \A n : Entries(n)' = Entries(n)
  BY <1>2 DEF Entries
<1>6. /\ started'[t.name] = now
      /\ \A n \in Names : n # t.name => started'[n] = started[n]
  BY <1>1, <1>2, <1>3 DEF RepeatTypeOK
<1>7. RepeatTypeOK' /\ HandsInv'
  <2>1. /\ "due" \in Hands
        /\ NoObject \in Objects \cup {NoObject}
    BY DEF Hands
  <2>2. /\ hand' \in [RepeatWorkers ->
              [at : Hands \cup {"read", "take"},
               task : RepeatTasks \cup {NoRepeatTask},
               ref : Objects \cup {NoObject}]]
        /\ HandsInv'
    BY <1>1, <1>2, <1>3, <2>1, HandTypes
  <2>3. started' \in [Names -> Times]
    BY <1>1, <1>2, <1>3 DEF RepeatTypeOK
  <2>4. QED BY <1>1, <1>2, <2>2, <2>3 DEF RepeatTypeOK, Times
<1>8. OneCopy'
  BY <1>1, <1>2, <1>4, <1>5 DEF OneCopy
<1>9. NotOlder'
  <2>1. SUFFICES ASSUME NEW n \in Names \ astray
                 PROVE  /\ \A v \in HoldersOf(n) :
                             hand'[v].task.last >= started'[n]
                        /\ \A u \in Entries(n) : u.last >= started'[n]
    BY <1>2, <1>4, <1>5 DEF NotOlder
  <2>2. CASE n = t.name
    <3>1. HoldersOf(n) = {w} /\ Entries(n) = {}
      BY <1>1, <1>4, <2>2 DEF OneCopy
    <3>2. QED BY <1>3, <1>4, <1>6, <2>2, <3>1
  <2>3. CASE n # t.name
    <3>1. \A v \in HoldersOf(n) : v # w /\ v \in RepeatWorkers
      BY <1>4, <2>3 DEF HoldersOf
    <3>2. QED BY <1>1, <1>4, <1>6, <2>3, <3>1 DEF NotOlder
  <2>4. QED BY <2>2, <2>3
<1>10. WillNote'
  <2>1. SUFFICES ASSUME NEW n \in Names
                 PROVE  \/ noted[n] >= started'[n]
                        \/ \E v \in HoldersOf(n) :
                             /\ hand'[v].at \in {"due", "run"}
                             /\ hand'[v].task.last >= started'[n]
    BY <1>2, <1>4 DEF WillNote
  <2>2. CASE n = t.name
    BY <1>3, <1>4, <1>6, <2>2
  <2>3. CASE n # t.name
    <3>1. \A v \in HoldersOf(n) : v # w /\ v \in RepeatWorkers
      BY <1>4, <2>3 DEF HoldersOf
    <3>2. QED BY <1>1, <1>4, <1>6, <2>3, <3>1 DEF WillNote
  <2>4. QED BY <2>2, <2>3
<1>11. Replacing'
  <2>1. SUFFICES ASSUME making # "idle", NEW n \in Names \ touched
                 PROVE  n # t.name
    <3>1. \A n \in Names \ {t.name} : \A v \in HoldersOf(n) :
            v # w /\ v \in RepeatWorkers
      BY <1>4 DEF HoldersOf
    <3>2. QED
      BY <1>1, <1>2, <1>4, <1>6, <2>1, <3>1 DEF Replacing, Visible
  <2>2. ~Visible(w)
    BY <1>2 DEF Visible
  <2>3. QED BY <1>1, <1>4, <2>1, <2>2 DEF Replacing
<1>12. QED BY <1>7, <1>8, <1>9, <1>10, <1>11 DEF RepeatInv

(* The application notes a run; where the queue is being replaced and the  *)
(* task untouched, it had noted it before.                                 *)
LEMMA NoteInv ==
  ASSUME RepeatInv, NEW w \in RepeatWorkers, Note(w)
  PROVE  RepeatInv'
<1>1. RepeatTypeOK /\ HandsInv /\ OneCopy /\ NotOlder /\ WillNote /\ Replacing
  BY DEF RepeatInv
<1> DEFINE t == hand[w].task
<1>2. /\ hand[w].at = "run"
      /\ Goes(w, "work", t, NoObject)
      /\ noted' = [noted EXCEPT ![t.name] = IF t.last > @ THEN t.last ELSE @]
      /\ UNCHANGED <<now, queue, inQueue, making, newQueue, started, touched,
                     astray>>
  BY DEF Note
<1>3. t \in RepeatTasks /\ t.name \in Names /\ t.last \in Times
  BY <1>1, <1>2 DEF HandsInv, Hands, RepeatTasks
<1>4. /\ hand'[w] = [at |-> "work", task |-> t, ref |-> NoObject]
      /\ \A v \in RepeatWorkers \ {w} : hand'[v] = hand[v]
      /\ \A n : HoldersOf(n)' = HoldersOf(n)
      /\ w \in HoldersOf(t.name)
      /\ \A n : \A v \in HoldersOf(n) :
           v \in RepeatWorkers /\ hand'[v].task = hand[v].task
  <2>1. /\ hand'[w] = [at |-> "work", task |-> t, ref |-> NoObject]
        /\ \A v \in RepeatWorkers \ {w} : hand'[v] = hand[v]
        /\ \A n : HoldersOf(n)' =
             IF "work" \in Hands /\ t.name = n THEN HoldersOf(n) \cup {w}
             ELSE HoldersOf(n) \ {w}
    BY <1>1, <1>2, HandMoves
  <2>2. \A n : w \in HoldersOf(n) <=> n = t.name
    BY <1>2 DEF HoldersOf, Hands
  <2>3. \A n : \A v \in HoldersOf(n) : v \in RepeatWorkers
    BY DEF HoldersOf
  <2>4. QED BY <2>1, <2>2, <2>3 DEF Hands
<1>5. \A n : Entries(n)' = Entries(n)
  BY <1>2 DEF Entries
<1>6. /\ \A n \in Names : noted'[n] >= noted[n] /\ noted[n] \in Nat
      /\ noted'[t.name] >= t.last
      /\ \A n \in Names : n # t.name => noted'[n] = noted[n]
      /\ noted[t.name] = t.last => noted'[t.name] = noted[t.name]
      /\ noted' \in [Names -> Times]
  BY <1>1, <1>2, <1>3 DEF RepeatTypeOK, Times
<1>7. RepeatTypeOK' /\ HandsInv'
  <2>1. /\ hand' \in [RepeatWorkers ->
              [at : Hands \cup {"read", "take"},
               task : RepeatTasks \cup {NoRepeatTask},
               ref : Objects \cup {NoObject}]]
        /\ HandsInv'
    <3>1. "work" \in Hands /\ NoObject \in Objects \cup {NoObject}
      BY DEF Hands
    <3>2. QED BY <1>1, <1>2, <1>3, <3>1, HandTypes
  <2>2. QED BY <1>1, <1>2, <1>6, <2>1 DEF RepeatTypeOK, Times
<1>8. OneCopy' /\ NotOlder'
  BY <1>1, <1>2, <1>4, <1>5 DEF OneCopy, NotOlder
<1>9. WillNote'
  <2>1. SUFFICES ASSUME NEW n \in Names
                 PROVE  \/ noted'[n] >= started[n]
                        \/ \E v \in HoldersOf(n) :
                             /\ hand'[v].at \in {"due", "run"}
                             /\ hand'[v].task.last >= started[n]
    BY <1>2, <1>4 DEF WillNote
  <2>2. started[n] \in Nat /\ noted'[n] \in Nat
    BY <1>1, <1>6 DEF RepeatTypeOK, Times
  <2>3. CASE noted[n] >= started[n]
    BY <1>6, <2>2, <2>3
  <2>4. ASSUME NEW v \in HoldersOf(n), hand[v].at \in {"due", "run"},
               hand[v].task.last >= started[n]
        PROVE  \/ noted'[n] >= started[n]
               \/ /\ hand'[v].at \in {"due", "run"}
                  /\ hand'[v].task.last >= started[n]
    <3>1. CASE v = w
      <4>1. n = t.name
        BY <2>4, <3>1 DEF HoldersOf
      <4>2. t.last \in Nat
        BY <1>3 DEF Times
      <4>3. QED BY <1>6, <2>2, <2>4, <3>1, <4>1, <4>2
    <3>2. CASE v # w
      BY <1>4, <2>4, <3>2
    <3>3. QED BY <3>1, <3>2
  <2>5. QED BY <1>1, <2>3, <2>4 DEF WillNote
<1>10. Replacing'
  <2>1. SUFFICES ASSUME making # "idle", NEW n \in Names \ touched
                 PROVE  /\ \A v \in HoldersOf(n) : Visible(v)'
                        /\ noted'[n] = noted[n]
    BY <1>1, <1>2, <1>4 DEF Replacing
  <2>2. \A v \in HoldersOf(n) : Visible(v)
    BY <1>1, <2>1 DEF Replacing
  <2>3. noted'[n] = noted[n]
    BY <1>4, <1>6, <2>2 DEF Visible
  <2>4. \A v \in HoldersOf(n) : hand'[v].at \in {"run", "work"}
    BY <1>4, <2>2 DEF Visible
  <2>5. \A v \in HoldersOf(n) : hand[v].task.name = n
    BY DEF HoldersOf
  <2>6. QED BY <1>4, <2>2, <2>3, <2>4, <2>5 DEF Visible
<1>11. QED BY <1>7, <1>8, <1>9, <1>10 DEF RepeatInv

(* Letting go of a queue object matters to that object alone.              *)
LEMMA LeaveOne ==
  ASSUME RepeatTypeOK, NEW w \in RepeatWorkers, hand[w].ref \in Objects,
         NEW tasks \in SUBSET RepeatTasks, Leave(w, tasks), UNCHANGED queue
  PROVE  /\ inQueue' \in [Objects -> SUBSET RepeatTasks]
         /\ inQueue'[queue] = IF hand[w].ref = queue THEN tasks
                              ELSE inQueue[queue]
  BY DEF RepeatTypeOK, Leave

(* The first task of the queue is taken.                                   *)
LEMMA TakeFirstInv ==
  ASSUME RepeatInv, NEW w \in RepeatWorkers, TakeFirst(w)
  PROVE  RepeatInv'
<1>1. RepeatTypeOK /\ HandsInv /\ OneCopy /\ NotOlder /\ WillNote /\ Replacing
  BY DEF RepeatInv
<1> DEFINE q == hand[w].ref
<1>2. PICK t \in inQueue[q] :
        /\ Leave(w, inQueue[q] \ {t})
        /\ Goes(w, "took", t, NoObject)
        /\ touched' = IF making # "idle" THEN touched \cup {t.name} ELSE touched
        /\ astray' = IF q # queue THEN astray \cup {t.name} ELSE astray
  BY DEF TakeFirst
<1>3. /\ hand[w].at = "take"
      /\ UNCHANGED <<now, noted, queue, making, newQueue, started>>
  BY DEF TakeFirst
<1>4. /\ q \in Objects /\ t \in RepeatTasks /\ t.name \in Names
      /\ inQueue[q] \subseteq RepeatTasks
  BY <1>1, <1>3 DEF HandsInv, RepeatTypeOK, RepeatTasks
<1>5. /\ hand'[w] = [at |-> "took", task |-> t, ref |-> NoObject]
      /\ \A v \in RepeatWorkers \ {w} : hand'[v] = hand[v]
      /\ HoldersOf(t.name)' = HoldersOf(t.name) \cup {w}
      /\ \A n : n # t.name => HoldersOf(n)' = HoldersOf(n)
      /\ \A n : \A v \in HoldersOf(n) : v \in RepeatWorkers \ {w}
  <2>1. /\ hand'[w] = [at |-> "took", task |-> t, ref |-> NoObject]
        /\ \A v \in RepeatWorkers \ {w} : hand'[v] = hand[v]
        /\ \A n : HoldersOf(n)' =
             IF "took" \in Hands /\ t.name = n THEN HoldersOf(n) \cup {w}
             ELSE HoldersOf(n) \ {w}
    BY <1>1, <1>2, HandMoves
  <2>2. \A n : \A v \in HoldersOf(n) : v \in RepeatWorkers \ {w}
    BY <1>3 DEF HoldersOf, Hands
  <2>3. QED BY <2>1, <2>2 DEF Hands
<1>6. /\ inQueue' \in [Objects -> SUBSET RepeatTasks]
      /\ inQueue'[queue] = IF q = queue THEN inQueue[queue] \ {t}
                           ELSE inQueue[queue]
  BY <1>1, <1>2, <1>3, <1>4, LeaveOne
<1>7. \A n : /\ Entries(n)' \subseteq Entries(n)
             /\ q = queue => Entries(n)' = Entries(n) \ {t}
  BY <1>3, <1>6 DEF Entries
<1>8. RepeatTypeOK' /\ HandsInv'
  <2>1. /\ hand' \in [RepeatWorkers ->
              [at : Hands \cup {"read", "take"},
               task : RepeatTasks \cup {NoRepeatTask},
               ref : Objects \cup {NoObject}]]
        /\ HandsInv'
    <3>1. "took" \in Hands /\ NoObject \in Objects \cup {NoObject}
      BY DEF Hands
    <3>2. QED BY <1>1, <1>2, <1>4, <3>1, HandTypes
  <2>2. touched' \in SUBSET Names /\ astray' \in SUBSET Names
    BY <1>1, <1>2, <1>4 DEF RepeatTypeOK
  <2>3. QED BY <1>1, <1>3, <1>6, <2>1, <2>2 DEF RepeatTypeOK, Times
<1>9. OneCopy' /\ NotOlder'
  <2>1. SUFFICES ASSUME NEW n \in Names \ astray'
                 PROVE  /\ \A v, u \in HoldersOf(n)' : v = u
                        /\ HoldersOf(n)' # {} => Entries(n)' = {}
                        /\ \A r, u \in Entries(n)' : r = u
                        /\ \A v \in HoldersOf(n)' :
                             hand'[v].task.last >= started[n]
                        /\ \A u \in Entries(n)' : u.last >= started[n]
    BY <1>3 DEF OneCopy, NotOlder
  <2>2. /\ n \in Names \ astray
        /\ n = t.name => q = queue
    BY <1>2, <2>1
  <2>3. CASE n = t.name
    <3>1. t \in Entries(n)
      BY <2>2, <2>3 DEF Entries
    <3>2. HoldersOf(n) = {} /\ Entries(n) = {t} /\ t.last >= started[n]
      BY <1>1, <2>2, <3>1 DEF OneCopy, NotOlder
    <3>3. HoldersOf(n)' = {w} /\ Entries(n)' = {}
      BY <1>5, <1>7, <2>2, <2>3, <3>2
    <3>4. QED BY <1>5, <3>2, <3>3
  <2>4. CASE n # t.name
    <3>1. HoldersOf(n)' = HoldersOf(n) /\ Entries(n)' \subseteq Entries(n)
      BY <1>5, <1>7, <2>4
    <3>2. \A v \in HoldersOf(n) : hand'[v] = hand[v]
      BY <1>5
    <3>3. QED BY <1>1, <2>2, <3>1, <3>2 DEF OneCopy, NotOlder
  <2>5. QED BY <2>3, <2>4
<1>10. WillNote'
  <2>1. \A n : \A v \in HoldersOf(n) : v \in HoldersOf(n)' /\ hand'[v] = hand[v]
    BY <1>5
  <2>2. QED BY <1>1, <1>3, <2>1 DEF WillNote
<1>11. Replacing'
  <2>1. SUFFICES ASSUME making # "idle", NEW n \in Names \ touched'
                 PROVE  /\ HoldersOf(n)' = HoldersOf(n)
                        /\ \A v \in HoldersOf(n) : hand'[v] = hand[v]
                        /\ n \in Names \ touched
    BY <1>1, <1>3 DEF Replacing, Visible
  <2>2. n # t.name
    BY <1>2, <2>1
  <2>3. QED BY <1>2, <1>5, <2>1, <2>2
<1>12. QED BY <1>8, <1>9, <1>10, <1>11 DEF RepeatInv

(* A task goes back, into the queue or into one that is gone.              *)
LEMMA AddBackInv ==
  ASSUME RepeatInv, NEW w \in RepeatWorkers, AddBack(w)
  PROVE  RepeatInv'
<1>1. RepeatTypeOK /\ HandsInv /\ OneCopy /\ NotOlder /\ WillNote /\ Replacing
  BY DEF RepeatInv
<1> DEFINE q == hand[w].ref
           t == hand[w].task
<1>2. /\ hand[w].at = "add"
      /\ Leave(w, inQueue[q] \cup {t})
      /\ Goes(w, "read", NoRepeatTask, NoObject)
      /\ UNCHANGED <<now, noted, queue, making, newQueue, started, touched,
                     astray>>
  BY DEF AddBack
<1>3. /\ q \in Objects /\ t \in RepeatTasks
      /\ inQueue[q] \cup {t} \in SUBSET RepeatTasks
      /\ w \in HoldersOf(t.name)
  BY <1>1, <1>2 DEF HandsInv, RepeatTypeOK, HoldersOf, Hands
<1>4. /\ \A v \in RepeatWorkers \ {w} : hand'[v] = hand[v]
      /\ \A n : HoldersOf(n)' = HoldersOf(n) \ {w}
      /\ \A n : \A v \in HoldersOf(n) : v \in RepeatWorkers
      /\ \A n : w \in HoldersOf(n) => n = t.name
  <2>1. /\ hand'[w] = [at |-> "read", task |-> NoRepeatTask, ref |-> NoObject]
        /\ \A v \in RepeatWorkers \ {w} : hand'[v] = hand[v]
        /\ \A n : HoldersOf(n)' =
             IF "read" \in Hands /\ NoRepeatTask.name = n
             THEN HoldersOf(n) \cup {w} ELSE HoldersOf(n) \ {w}
    BY <1>1, <1>2, HandMoves
  <2>2. QED BY <2>1 DEF Hands, HoldersOf
<1>5. /\ inQueue' \in [Objects -> SUBSET RepeatTasks]
      /\ inQueue'[queue] = IF q = queue THEN inQueue[queue] \cup {t}
                           ELSE inQueue[queue]
  BY <1>1, <1>2, <1>3, LeaveOne
<1>6. \A n : \/ Entries(n)' = Entries(n)
             \/ n = t.name /\ Entries(n)' = Entries(n) \cup {t}
  BY <1>2, <1>5 DEF Entries
<1>7. RepeatTypeOK' /\ HandsInv'
  <2>1. /\ hand' \in [RepeatWorkers ->
              [at : Hands \cup {"read", "take"},
               task : RepeatTasks \cup {NoRepeatTask},
               ref : Objects \cup {NoObject}]]
        /\ HandsInv'
    <3>1. "read" \notin Hands /\ NoObject \in Objects \cup {NoObject}
      BY DEF Hands
    <3>2. QED BY <1>1, <1>2, <3>1, HandTypes
  <2>2. QED BY <1>1, <1>2, <1>5, <2>1 DEF RepeatTypeOK, Times
<1>8. OneCopy' /\ NotOlder'
  <2>1. SUFFICES ASSUME NEW n \in Names \ astray
                 PROVE  /\ \A v, u \in HoldersOf(n)' : v = u
                        /\ HoldersOf(n)' # {} => Entries(n)' = {}
                        /\ \A r, u \in Entries(n)' : r = u
                        /\ \A v \in HoldersOf(n)' :
                             hand'[v].task.last >= started[n]
                        /\ \A u \in Entries(n)' : u.last >= started[n]
    BY <1>2 DEF OneCopy, NotOlder
  <2>2. CASE n = t.name
    <3>1. HoldersOf(n) = {w} /\ Entries(n) = {} /\ t.last >= started[n]
      BY <1>1, <1>3, <2>2 DEF OneCopy, NotOlder
    <3>2. HoldersOf(n)' = {} /\ Entries(n)' \subseteq {t}
      BY <1>4, <1>6, <3>1
    <3>3. QED BY <3>1, <3>2
  <2>3. CASE n # t.name
    <3>1. HoldersOf(n)' = HoldersOf(n) /\ Entries(n)' = Entries(n)
      BY <1>4, <1>6, <2>3
    <3>2. \A v \in HoldersOf(n) : hand'[v] = hand[v]
      BY <1>4, <2>3
    <3>3. QED BY <1>1, <3>1, <3>2 DEF OneCopy, NotOlder
  <2>4. QED BY <2>2, <2>3
<1>9. WillNote'
  <2>1. \A n : \A v \in HoldersOf(n) :
          hand[v].at \in {"due", "run"} =>
            v \in HoldersOf(n)' /\ hand'[v] = hand[v]
    BY <1>2, <1>4
  <2>2. QED BY <1>1, <1>2, <2>1 DEF WillNote
<1>10. Replacing'
  <2>1. SUFFICES ASSUME making # "idle", NEW n \in Names \ touched
                 PROVE  /\ HoldersOf(n)' = HoldersOf(n)
                        /\ \A v \in HoldersOf(n) : hand'[v] = hand[v]
    BY <1>1, <1>2 DEF Replacing, Visible
  <2>2. w \notin HoldersOf(n)
    BY <1>1, <1>2, <2>1 DEF Replacing, Visible
  <2>3. QED BY <1>4, <2>2
<1>11. QED BY <1>7, <1>8, <1>9, <1>10 DEF RepeatInv

LEMMA TickInv ==
  ASSUME RepeatInv, Tick
  PROVE  RepeatInv'
<1>1. /\ now' \in Times
      /\ UNCHANGED <<noted, queue, inQueue, making, newQueue, started, touched,
                     astray, hand>>
  BY RepeatAssumption DEF Tick, RepeatInv, RepeatTypeOK, Times
<1>2. \A n : HoldersOf(n)' = HoldersOf(n) /\ Entries(n)' = Entries(n)
  BY <1>1 DEF HoldersOf, Entries
<1>3. QED
  BY <1>1, <1>2 DEF RepeatInv, RepeatTypeOK, HandsInv, OneCopy, NotOlder,
     WillNote, Replacing, Visible, Times

(* The new queue: what is in running is in it for now.                     *)
LEMMA MakeTasksInv ==
  ASSUME RepeatInv, MakeTasks
  PROVE  RepeatInv'
<1>1. RepeatTypeOK /\ HandsInv /\ OneCopy /\ NotOlder /\ WillNote /\ Replacing
  BY DEF RepeatInv
<1>2. /\ making' = "remove"
      /\ newQueue' = {[name |-> n, last |-> noted[n]] : n \in Names}
      /\ touched' = {n \in Names : \E w \in HoldersOf(n) : ~Visible(w)}
      /\ UNCHANGED <<now, noted, queue, inQueue, hand, started, astray>>
  BY DEF MakeTasks
<1>3. \A n : HoldersOf(n)' = HoldersOf(n) /\ Entries(n)' = Entries(n)
  BY <1>2 DEF HoldersOf, Entries
<1>4. RepeatTypeOK' /\ HandsInv'
  <2>1. newQueue' \in SUBSET RepeatTasks
    BY <1>1, <1>2 DEF RepeatTypeOK, RepeatTasks
  <2>2. QED BY <1>1, <1>2, <2>1 DEF RepeatTypeOK, HandsInv, Times
<1>5. OneCopy' /\ NotOlder' /\ WillNote'
  BY <1>1, <1>2, <1>3 DEF OneCopy, NotOlder, WillNote
<1>6. Replacing'
  <2>1. SUFFICES ASSUME NEW n \in Names \ touched'
                 PROVE  /\ \A w \in HoldersOf(n) : Visible(w)
                        /\ noted[n] >= started[n]
                        /\ \A t \in newQueue' : t.name = n => t.last = noted[n]
    BY <1>2, <1>3 DEF Replacing, Visible
  <2>2. \A w \in HoldersOf(n) : Visible(w)
    BY <1>2, <2>1
  <2>3. noted[n] >= started[n]
    BY <1>1, <2>1, <2>2 DEF WillNote, Visible, HoldersOf
  <2>4. \A t \in newQueue' : t.name = n => t.last = noted[n]
    BY <1>2
  <2>5. QED BY <2>2, <2>3, <2>4
<1>7. QED BY <1>4, <1>5, <1>6 DEF RepeatInv

(* What is in running as the application knows it goes from the new queue. *)
LEMMA RemoveRunningInv ==
  ASSUME RepeatInv, RemoveRunningTasks
  PROVE  RepeatInv'
<1>1. RepeatTypeOK /\ HandsInv /\ OneCopy /\ NotOlder /\ WillNote /\ Replacing
  BY DEF RepeatInv
<1>2. /\ making = "remove" /\ making' = "swap"
      /\ newQueue' = newQueue \ RepeatRunning
      /\ UNCHANGED <<now, noted, queue, inQueue, hand, started, touched, astray>>
  BY DEF RemoveRunningTasks
<1>3. \A n : HoldersOf(n)' = HoldersOf(n) /\ Entries(n)' = Entries(n)
  BY <1>2 DEF HoldersOf, Entries
<1>4. RepeatTypeOK' /\ HandsInv' /\ OneCopy' /\ NotOlder' /\ WillNote'
  BY <1>1, <1>2, <1>3
     DEF RepeatTypeOK, HandsInv, OneCopy, NotOlder, WillNote, Times
<1>5. Replacing'
  <2>1. SUFFICES ASSUME NEW n \in Names \ touched, NEW w \in HoldersOf(n),
                        NEW t \in newQueue, t.name = n
                 PROVE  t \in RepeatRunning
    BY <1>1, <1>2, <1>3 DEF Replacing, Visible
  <2>2. Visible(w) /\ t.last = noted[n]
    BY <1>1, <1>2, <2>1 DEF Replacing
  <2>3. /\ w \in RepeatWorkers /\ hand[w].at \in {"run", "work"}
        /\ hand[w].task.name = n /\ hand[w].task.last = noted[n]
    BY <2>1, <2>2 DEF Visible, HoldersOf
  <2>4. hand[w].task \in RepeatTasks /\ t \in RepeatTasks
    BY <1>1, <2>1, <2>3 DEF RepeatTypeOK, HandsInv, Hands
  <2>5. t = hand[w].task
    BY <2>1, <2>2, <2>3, <2>4 DEF RepeatTasks
  <2>6. QED BY <2>3, <2>5 DEF RepeatRunning
<1>6. QED BY <1>4, <1>5 DEF RepeatInv

(* The new queue takes the place of the old.                               *)
LEMMA SwapQueueInv ==
  ASSUME RepeatInv, SwapQueue
  PROVE  RepeatInv'
<1>1. RepeatTypeOK /\ HandsInv /\ OneCopy /\ NotOlder /\ WillNote /\ Replacing
  BY DEF RepeatInv
<1>2. /\ making = "swap" /\ making' = "idle" /\ newQueue' = {}
      /\ astray' = touched \cup {n \in Names : Cardinality(HoldersOf(n)) > 1}
      /\ touched' = {}
      /\ UNCHANGED <<now, noted, hand, started>>
  BY DEF SwapQueue
<1>3. /\ queue' \in Objects
      /\ inQueue' \in [Objects -> SUBSET RepeatTasks]
      /\ inQueue'[queue'] = newQueue
  <2> DEFINE q == Unreferenced({queue} \cup
                               {hand[w].ref : w \in RepeatWorkers})
  <2>1. q \in Objects /\ q # queue
    BY <1>1, UnreferencedQueue
  <2>2. /\ queue' = q
        /\ inQueue' = [inQueue EXCEPT ![q] = newQueue, ![queue] =
             IF \E w \in RepeatWorkers : hand[w].ref = queue THEN @ ELSE {}]
    BY DEF SwapQueue
  <2> HIDE DEF q
  <2>3. QED BY <1>1, <2>1, <2>2 DEF RepeatTypeOK
<1>4. \A n : /\ HoldersOf(n)' = HoldersOf(n)
             /\ Entries(n)' = {t \in newQueue : t.name = n}
  BY <1>2, <1>3 DEF HoldersOf, Entries
<1>5. \A n \in Names \ astray' : \A v, w \in HoldersOf(n) : v = w
  <2>1. SUFFICES ASSUME NEW n \in Names \ astray',
                        NEW v \in HoldersOf(n), NEW w \in HoldersOf(n), v # w
                 PROVE  FALSE
    OBVIOUS
  <2>2. IsFiniteSet(HoldersOf(n)) /\ Cardinality(HoldersOf(n)) \in Nat
    BY FS_Subset, FS_CardinalityType, RepeatAssumption DEF HoldersOf
  <2>3. IsFiniteSet({v}) /\ Cardinality({v}) = 1
    BY FS_Singleton
  <2>4. Cardinality({v} \cup {w}) = 2
    BY <2>1, <2>3, FS_AddElement
  <2>5. Cardinality({v} \cup {w}) <= Cardinality(HoldersOf(n))
    BY <2>1, <2>2, FS_Subset
  <2>6. Cardinality(HoldersOf(n)) > 1
    BY <2>2, <2>4, <2>5
  <2>7. QED BY <1>2, <2>1, <2>6
<1>6. ASSUME NEW n \in Names \ astray'
      PROVE  /\ n \in Names \ touched
             /\ \A w \in HoldersOf(n) : hand[w].task.last = noted[n]
             /\ noted[n] >= started[n]
             /\ \A t \in newQueue : t.name = n => t.last = noted[n]
             /\ HoldersOf(n) # {} => \A t \in newQueue : t.name # n
  BY <1>1, <1>2, <1>6 DEF Replacing, Visible, HoldersOf
<1>7. RepeatTypeOK' /\ HandsInv'
  <2>1. astray' \in SUBSET Names
    BY <1>1, <1>2 DEF RepeatTypeOK
  <2>2. QED BY <1>1, <1>2, <1>3, <2>1 DEF RepeatTypeOK, HandsInv, Times
<1>8. OneCopy'
  <2>1. \A n \in Names \ astray' : \A t, u \in Entries(n)' : t = u
    <3>1. \A t, u \in newQueue : t.name = u.name /\ t.last = u.last => t = u
      BY <1>1 DEF RepeatTypeOK, RepeatTasks
    <3>2. QED BY <1>4, <1>6, <3>1
  <2>2. QED BY <1>4, <1>5, <1>6, <2>1 DEF OneCopy
<1>9. NotOlder' /\ WillNote' /\ Replacing'
  BY <1>1, <1>2, <1>4, <1>6 DEF NotOlder, WillNote, Replacing
<1>10. QED BY <1>7, <1>8, <1>9 DEF RepeatInv

LEMMA RepeatNextInv == RepeatInv /\ [RepeatNext]_repeatVars => RepeatInv'
<1>1. SUFFICES ASSUME RepeatInv, [RepeatNext]_repeatVars PROVE RepeatInv'
  OBVIOUS
<1>2. CASE Tick \/ MakeTasks \/ RemoveRunningTasks \/ SwapQueue
  BY <1>1, <1>2, TickInv, MakeTasksInv, RemoveRunningInv, SwapQueueInv
<1>3. ASSUME NEW w \in RepeatWorkers,
             \/ ReadField(w) \/ TakeNothing(w) \/ TakeFirst(w)
             \/ Start(w) \/ NotDue(w) \/ AddRunning(w) \/ Note(w)
             \/ RemoveFromRunning(w) \/ AddRead(w) \/ AddBack(w)
      PROVE  RepeatInv'
  BY <1>1, <1>3, QuietInv, TakeFirstInv, StartInv, NoteInv, AddBackInv
<1>4. CASE UNCHANGED repeatVars
  <2>1. UNCHANGED <<now, noted, queue, inQueue, hand, making, newQueue, started,
                    touched, astray>>
    BY <1>4 DEF repeatVars
  <2>2. \A n : HoldersOf(n)' = HoldersOf(n) /\ Entries(n)' = Entries(n)
    BY <2>1 DEF HoldersOf, Entries
  <2>3. QED
    BY <1>1, <2>1, <2>2 DEF RepeatInv, RepeatTypeOK, HandsInv, OneCopy,
       NotOlder, WillNote, Replacing, Visible, Times
<1>5. QED BY <1>1, <1>2, <1>3, <1>4 DEF RepeatNext

(* Only the worker itself stamps its task.                                 *)
LEMMA StampedByStart ==
  ASSUME RepeatTypeOK, [RepeatNext]_repeatVars, NEW w \in RepeatWorkers,
         hand[w].at = "took", hand'[w].at = "due"
  PROVE  Start(w)
<1>1. hand' # hand
  OBVIOUS
<1>2. ~(Tick \/ MakeTasks \/ RemoveRunningTasks \/ SwapQueue)
  BY <1>1 DEF Tick, MakeTasks, RemoveRunningTasks, SwapQueue
<1>3. PICK v \in RepeatWorkers :
        \/ ReadField(v) \/ TakeNothing(v) \/ TakeFirst(v)
        \/ Start(v) \/ NotDue(v) \/ AddRunning(v) \/ Note(v)
        \/ RemoveFromRunning(v) \/ AddRead(v) \/ AddBack(v)
  BY <1>1, <1>2 DEF RepeatNext, repeatVars
<1>4. \E a, t, r : Goes(v, a, t, r)
  BY <1>3 DEF ReadField, TakeNothing, TakeFirst, Start, NotDue, AddRunning,
     Note, RemoveFromRunning, AddRead, AddBack
<1>5. v = w
  BY <1>4 DEF RepeatTypeOK, Goes
<1>6. NotDue(w) => hand'[w].at = "back"
  BY DEF NotDue, Goes, RepeatTypeOK
<1>7. QED
  BY <1>3, <1>5, <1>6 DEF ReadField, TakeNothing, TakeFirst, AddRunning, Note,
     RemoveFromRunning, AddRead, AddBack

LEMMA StartsApart ==
  ASSUME RepeatInv, NEW w \in RepeatWorkers, Start(w),
         hand[w].task.name \notin astray
  PROVE  /\ HoldersOf(hand[w].task.name) = {w}
         /\ now > started[hand[w].task.name] + Interval
<1> DEFINE t == hand[w].task
<1>1. /\ hand[w].at = "took" /\ now > t.last + Interval
  BY DEF Start, Due
<1>2. t \in RepeatTasks /\ w \in HoldersOf(t.name)
  BY <1>1 DEF RepeatInv, HandsInv, HoldersOf, Hands
<1>3. /\ t.name \in Names /\ t.last \in Nat
      /\ now \in Nat /\ started[t.name] \in Nat
  BY <1>2 DEF RepeatInv, RepeatTypeOK, RepeatTasks, Times
<1>4. HoldersOf(t.name) = {w} /\ t.last >= started[t.name]
  BY <1>2, <1>3 DEF RepeatInv, OneCopy, NotOlder
<1>5. QED BY <1>1, <1>3, <1>4, RepeatAssumption

(* poll(), commit() and rollback() of a RepeatDaemonGroup against the      *)
(* producer: a task that is not astray is begun by one worker, and no      *)
(* sooner than taskInterval after it was last begun.                       *)
THEOREM RunsApartCorrect == RepeatSpec => RunsApart
<1>1. RepeatInv /\ [RepeatNext]_repeatVars =>
        [\A w \in RepeatWorkers :
           LET n == hand[w].task.name IN
           hand[w].at = "took" /\ hand'[w].at = "due" /\ n \notin astray =>
             /\ HoldersOf(n) = {w}
             /\ now > started[n] + Interval]_repeatVars
  <2>1. SUFFICES ASSUME RepeatInv, [RepeatNext]_repeatVars,
                        NEW w \in RepeatWorkers,
                        hand[w].at = "took", hand'[w].at = "due",
                        hand[w].task.name \notin astray
                 PROVE  /\ HoldersOf(hand[w].task.name) = {w}
                        /\ now > started[hand[w].task.name] + Interval
    OBVIOUS
  <2>2. Start(w)
    BY <2>1, StampedByStart DEF RepeatInv
  <2>3. QED BY <2>1, <2>2, StartsApart
<1>2. QED BY <1>1, RepeatInitInv, RepeatNextInv, PTL DEF RepeatSpec, RunsApart
-----------------------------------------------------------------------------
(***************************************************************************)
(* DaemonGroup: for any callers and any daemons, and for both families of  *)
(* groups.                                                                 *)
(***************************************************************************)


(* The steps of shutdown(): while a caller is in it, setCount(0) has been  *)
(* done; the producer is asked to stop when nothing is left to join.       *)
ShutdownInv ==
  /\ joining # NoDaemon <=> \E c \in Callers : call[c] = "joining"
  /\ owner # Free => running /\ daemons = {}
  /\ \A c \in Callers : call[c] = "cleanup" => removed = {} /\ ~unique
  /\ ~running => daemons = {} /\ removed = {}

(* A daemon is in one place, and its life is the one the place calls for.  *)
PlaceInv ==
  /\ daemons \cap removed = {}
  /\ joining \notin daemons \cup removed
  /\ \A d \in removed \cup leaked \cup {joining} :
       d # NoDaemon => life[d] \in {"stopping", "dead"}

(* The life of the producer.                                               *)
ProducerInv ==
  /\ ~running => life[Producer] = "off"
  /\ unique => life[Producer] = "off"
  /\ running /\ ~unique /\ ~aborted /\ (\A c \in Callers : call[c] # "cleanup")
       => life[Producer] \in {"on", "dead"}

Inv ==
  /\ TypeOK
  /\ ShutdownInv
  /\ PlaceInv
  /\ NoOrphan
  /\ StoppedMeansOff
  /\ ListedNotStopped
  /\ ProducerInv

-----------------------------------------------------------------------------
(* Types, and the owner of the monitor.                                    *)
LEMMA TypeStep ==
  ASSUME TypeOK, ShutdownInv, [Next]_vars
  PROVE  TypeOK'
<1> USE CallerAssumption, ProducerAssumption
    DEF TypeOK, ShutdownInv, Resize, All, calls, history
<1>1. ASSUME NEW d \in Daemons, AddUniqueDaemon(d) PROVE TypeOK'
  BY <1>1 DEF AddUniqueDaemon
<1>2. ASSUME NEW c \in Callers, NEW new \in SUBSET Daemons, SetCount(c, new)
      PROVE  TypeOK'
  BY <1>2 DEF SetCount, Synchronized, Resize, Requested, Fresh
<1>3. ASSUME NEW c \in Callers, NEW d \in Daemons, ShutdownNext(c, d)
      PROVE  TypeOK'
  BY <1>3 DEF ShutdownNext
<1>4. ASSUME NEW c \in Callers, Startup(c) PROVE TypeOK'
  BY <1>4 DEF Startup, Synchronized, Started
<1>5. ASSUME NEW c \in Callers, Shutdown(c) PROVE TypeOK'
  BY <1>5 DEF Shutdown, Synchronized, Resize, Requested
<1>6. ASSUME NEW c \in Callers, ShutdownJoined(c) PROVE TypeOK'
  BY <1>6 DEF ShutdownJoined
<1>7. ASSUME NEW c \in Callers, Cleanup(c) PROVE TypeOK'
  <2>1. CASE unique
    BY <1>7, <2>1 DEF Cleanup
  <2>2. CASE ~unique
    <3>1. life' \in [All -> {"off", "on", "stopping", "dead"}]
      BY <1>7, <2>2 DEF Cleanup, Requested
    <3>2. QED BY <1>7, <2>2, <3>1 DEF Cleanup
  <2>3. QED BY <2>1, <2>2
<1>8. ASSUME NEW c \in Callers, CleanupJoined(c) PROVE TypeOK'
  BY <1>8 DEF CleanupJoined
<1>9. ASSUME NEW c \in Callers, ShutdownInterrupted(c) PROVE TypeOK'
  BY <1>9 DEF ShutdownInterrupted
<1>10. ASSUME NEW c \in Callers, CleanupInterrupted(c) PROVE TypeOK'
  BY <1>10 DEF CleanupInterrupted
<1>11. ASSUME NEW d \in All, Stop(d) \/ Crash(d) PROVE TypeOK'
  BY <1>11 DEF Stop, Crash
<1>12. ASSUME NEW d \in All, Ask(d) \/ Answer(d) PROVE TypeOK'
  BY <1>12 DEF Ask, Answer
<1>13. CASE UNCHANGED vars
  BY <1>13 DEF vars
<1> QED
  BY <1>1, <1>2, <1>3, <1>4, <1>5, <1>6, <1>7, <1>8,
     <1>9, <1>10, <1>11, <1>12, <1>13
     DEF Next, ShutdownStep

(* The steps of shutdown().                                                *)
LEMMA ShutdownInvStep ==
  ASSUME TypeOK, ShutdownInv, [Next]_vars
  PROVE  ShutdownInv'
<1> USE CallerAssumption, ProducerAssumption
    DEF TypeOK, ShutdownInv, All, calls, history
<1>1. ASSUME NEW d \in Daemons, AddUniqueDaemon(d) PROVE ShutdownInv'
  BY <1>1 DEF AddUniqueDaemon
<1>2. ASSUME NEW c \in Callers, NEW new \in SUBSET Daemons, SetCount(c, new)
      PROVE  ShutdownInv'
  BY <1>2 DEF SetCount, Synchronized, Resize, Requested, Fresh
<1>3. ASSUME NEW c \in Callers, NEW d \in Daemons, ShutdownNext(c, d)
      PROVE  ShutdownInv'
  BY <1>3 DEF ShutdownNext
<1>4. ASSUME NEW c \in Callers, Startup(c) PROVE ShutdownInv'
  BY <1>4 DEF Startup, Synchronized, Started
<1>5. ASSUME NEW c \in Callers, Shutdown(c) PROVE ShutdownInv'
  BY <1>5 DEF Shutdown, Synchronized, Resize, Requested
<1>6. ASSUME NEW c \in Callers, ShutdownJoined(c) PROVE ShutdownInv'
  BY <1>6 DEF ShutdownJoined
<1>7. ASSUME NEW c \in Callers, Cleanup(c) PROVE ShutdownInv'
  BY <1>7 DEF Cleanup, Requested
<1>8. ASSUME NEW c \in Callers, CleanupJoined(c) PROVE ShutdownInv'
  BY <1>8 DEF CleanupJoined
<1>9. ASSUME NEW c \in Callers, ShutdownInterrupted(c) PROVE ShutdownInv'
  BY <1>9 DEF ShutdownInterrupted
<1>10. ASSUME NEW c \in Callers, CleanupInterrupted(c) PROVE ShutdownInv'
  BY <1>10 DEF CleanupInterrupted
<1>11. ASSUME NEW d \in All, Stop(d) \/ Crash(d) PROVE ShutdownInv'
  BY <1>11 DEF Stop, Crash
<1>12. ASSUME NEW d \in All, Ask(d) \/ Answer(d) PROVE ShutdownInv'
  BY <1>12 DEF Ask, Answer
<1>13. CASE UNCHANGED vars
  BY <1>13 DEF vars
<1> QED
  BY <1>1, <1>2, <1>3, <1>4, <1>5, <1>6, <1>7, <1>8,
     <1>9, <1>10, <1>11, <1>12, <1>13
     DEF Next, ShutdownStep

(* Where daemons are, and what they are doing.                             *)
LEMMA PlaceStep ==
  ASSUME TypeOK, ShutdownInv, PlaceInv, StoppedMeansOff, ListedNotStopped, [Next]_vars
  PROVE  (PlaceInv /\ ListedNotStopped)'
<1> USE CallerAssumption, ProducerAssumption
    DEF TypeOK, ShutdownInv, PlaceInv, StoppedMeansOff, ListedNotStopped, All, calls, history
<1>1. ASSUME NEW d \in Daemons, AddUniqueDaemon(d) PROVE (PlaceInv /\ ListedNotStopped)'
  BY <1>1 DEF AddUniqueDaemon
<1>2. ASSUME NEW c \in Callers, NEW new \in SUBSET Daemons, SetCount(c, new)
      PROVE  (PlaceInv /\ ListedNotStopped)'
  BY <1>2 DEF SetCount, Synchronized, Resize, Requested, Fresh
<1>3. ASSUME NEW c \in Callers, NEW d \in Daemons, ShutdownNext(c, d)
      PROVE  (PlaceInv /\ ListedNotStopped)'
  BY <1>3 DEF ShutdownNext
<1>4. ASSUME NEW c \in Callers, Startup(c) PROVE (PlaceInv /\ ListedNotStopped)'
  BY <1>4 DEF Startup, Synchronized, Started
<1>5. ASSUME NEW c \in Callers, Shutdown(c) PROVE (PlaceInv /\ ListedNotStopped)'
  BY <1>5 DEF Shutdown, Synchronized, Resize, Requested
<1>6. ASSUME NEW c \in Callers, ShutdownJoined(c) PROVE (PlaceInv /\ ListedNotStopped)'
  BY <1>6 DEF ShutdownJoined
<1>7. ASSUME NEW c \in Callers, Cleanup(c) PROVE (PlaceInv /\ ListedNotStopped)'
  BY <1>7 DEF Cleanup, Requested
<1>8. ASSUME NEW c \in Callers, CleanupJoined(c) PROVE (PlaceInv /\ ListedNotStopped)'
  BY <1>8 DEF CleanupJoined
<1>9. ASSUME NEW c \in Callers, ShutdownInterrupted(c) PROVE (PlaceInv /\ ListedNotStopped)'
  BY <1>9 DEF ShutdownInterrupted
<1>10. ASSUME NEW c \in Callers, CleanupInterrupted(c) PROVE (PlaceInv /\ ListedNotStopped)'
  BY <1>10 DEF CleanupInterrupted
<1>11. ASSUME NEW d \in All, Stop(d) \/ Crash(d) PROVE (PlaceInv /\ ListedNotStopped)'
  BY <1>11 DEF Stop, Crash
<1>12. ASSUME NEW d \in All, Ask(d) \/ Answer(d) PROVE (PlaceInv /\ ListedNotStopped)'
  BY <1>12 DEF Ask, Answer
<1>13. CASE UNCHANGED vars
  BY <1>13 DEF vars
<1> QED
  BY <1>1, <1>2, <1>3, <1>4, <1>5, <1>6, <1>7, <1>8,
     <1>9, <1>10, <1>11, <1>12, <1>13
     DEF Next, ShutdownStep

(* No thread is lost.                                                      *)
LEMMA OrphanStep ==
  ASSUME TypeOK, ShutdownInv, PlaceInv, NoOrphan, [Next]_vars
  PROVE  NoOrphan'
<1> USE CallerAssumption, ProducerAssumption
    DEF TypeOK, ShutdownInv, PlaceInv, NoOrphan, All, calls, history
<1>1. ASSUME NEW d \in Daemons, AddUniqueDaemon(d) PROVE NoOrphan'
  BY <1>1 DEF AddUniqueDaemon
<1>2. ASSUME NEW c \in Callers, NEW new \in SUBSET Daemons, SetCount(c, new)
      PROVE  NoOrphan'
  BY <1>2 DEF SetCount, Synchronized, Resize, Requested, Fresh
<1>3. ASSUME NEW c \in Callers, NEW d \in Daemons, ShutdownNext(c, d)
      PROVE  NoOrphan'
  BY <1>3 DEF ShutdownNext
<1>4. ASSUME NEW c \in Callers, Startup(c) PROVE NoOrphan'
  BY <1>4 DEF Startup, Synchronized, Started
<1>5. ASSUME NEW c \in Callers, Shutdown(c) PROVE NoOrphan'
  BY <1>5 DEF Shutdown, Synchronized, Resize, Requested
<1>6. ASSUME NEW c \in Callers, ShutdownJoined(c) PROVE NoOrphan'
  BY <1>6 DEF ShutdownJoined
<1>7. ASSUME NEW c \in Callers, Cleanup(c) PROVE NoOrphan'
  BY <1>7 DEF Cleanup, Requested
<1>8. ASSUME NEW c \in Callers, CleanupJoined(c) PROVE NoOrphan'
  BY <1>8 DEF CleanupJoined
<1>9. ASSUME NEW c \in Callers, ShutdownInterrupted(c) PROVE NoOrphan'
  BY <1>9 DEF ShutdownInterrupted
<1>10. ASSUME NEW c \in Callers, CleanupInterrupted(c) PROVE NoOrphan'
  BY <1>10 DEF CleanupInterrupted
<1>11. ASSUME NEW d \in All, Stop(d) \/ Crash(d) PROVE NoOrphan'
  BY <1>11 DEF Stop, Crash
<1>12. ASSUME NEW d \in All, Ask(d) \/ Answer(d) PROVE NoOrphan'
  BY <1>12 DEF Ask, Answer
<1>13. CASE UNCHANGED vars
  BY <1>13 DEF vars
<1> QED
  BY <1>1, <1>2, <1>3, <1>4, <1>5, <1>6, <1>7, <1>8,
     <1>9, <1>10, <1>11, <1>12, <1>13
     DEF Next, ShutdownStep

(* The producer.                                                           *)
LEMMA ProducerStep ==
  ASSUME TypeOK, ShutdownInv, PlaceInv, ProducerInv, [Next]_vars
  PROVE  ProducerInv'
<1> USE CallerAssumption, ProducerAssumption
    DEF TypeOK, ShutdownInv, PlaceInv, ProducerInv, All, calls, history
<1>1. ASSUME NEW d \in Daemons, AddUniqueDaemon(d) PROVE ProducerInv'
  BY <1>1 DEF AddUniqueDaemon
<1>2. ASSUME NEW c \in Callers, NEW new \in SUBSET Daemons, SetCount(c, new)
      PROVE  ProducerInv'
  BY <1>2 DEF SetCount, Synchronized, Resize, Requested, Fresh
<1>3. ASSUME NEW c \in Callers, NEW d \in Daemons, ShutdownNext(c, d)
      PROVE  ProducerInv'
  BY <1>3 DEF ShutdownNext
<1>4. ASSUME NEW c \in Callers, Startup(c) PROVE ProducerInv'
  BY <1>4 DEF Startup, Synchronized, Started
<1>5. ASSUME NEW c \in Callers, Shutdown(c) PROVE ProducerInv'
  BY <1>5 DEF Shutdown, Synchronized, Resize, Requested
<1>6. ASSUME NEW c \in Callers, ShutdownJoined(c) PROVE ProducerInv'
  BY <1>6 DEF ShutdownJoined
<1>7. ASSUME NEW c \in Callers, Cleanup(c) PROVE ProducerInv'
  BY <1>7 DEF Cleanup, Requested
<1>8. ASSUME NEW c \in Callers, CleanupJoined(c) PROVE ProducerInv'
  BY <1>8 DEF CleanupJoined
<1>9. ASSUME NEW c \in Callers, ShutdownInterrupted(c) PROVE ProducerInv'
  BY <1>9 DEF ShutdownInterrupted
<1>10. ASSUME NEW c \in Callers, CleanupInterrupted(c) PROVE ProducerInv'
  BY <1>10 DEF CleanupInterrupted
<1>11. ASSUME NEW d \in All, Stop(d) \/ Crash(d) PROVE ProducerInv'
  BY <1>11 DEF Stop, Crash
<1>12. ASSUME NEW d \in All, Ask(d) \/ Answer(d) PROVE ProducerInv'
  BY <1>12 DEF Ask, Answer
<1>13. CASE UNCHANGED vars
  BY <1>13 DEF vars
<1> QED
  BY <1>1, <1>2, <1>3, <1>4, <1>5, <1>6, <1>7, <1>8,
     <1>9, <1>10, <1>11, <1>12, <1>13
     DEF Next, ShutdownStep

(* Every step uses each daemon as its lifecycle allows.                    *)
LEMMA LifecycleStep ==
  ASSUME TypeOK, ShutdownInv, PlaceInv, [Next]_vars
  PROVE  [LifeStep]_life
<1> USE CallerAssumption, ProducerAssumption
    DEF TypeOK, ShutdownInv, PlaceInv, Life!LifeNext, Life!LifeStart,
        Life!LifeRequest, Life!LifeDie, Life!LifeJoin, LifeStep, All, calls, history
<1>1. ASSUME NEW d \in Daemons, AddUniqueDaemon(d) PROVE [LifeStep]_life
  BY <1>1 DEF AddUniqueDaemon
<1>2. ASSUME NEW c \in Callers, NEW new \in SUBSET Daemons, SetCount(c, new)
      PROVE  [LifeStep]_life
  BY <1>2 DEF SetCount, Synchronized, Resize, Requested, Fresh
<1>3. ASSUME NEW c \in Callers, NEW d \in Daemons, ShutdownNext(c, d)
      PROVE  [LifeStep]_life
  BY <1>3 DEF ShutdownNext
<1>4. ASSUME NEW c \in Callers, Startup(c) PROVE [LifeStep]_life
  BY <1>4 DEF Startup, Synchronized, Started
<1>5. ASSUME NEW c \in Callers, Shutdown(c) PROVE [LifeStep]_life
  BY <1>5 DEF Shutdown, Synchronized, Resize, Requested
<1>6. ASSUME NEW c \in Callers, ShutdownJoined(c) PROVE [LifeStep]_life
  BY <1>6 DEF ShutdownJoined
<1>7. ASSUME NEW c \in Callers, Cleanup(c) PROVE [LifeStep]_life
  BY <1>7 DEF Cleanup, Requested
<1>8. ASSUME NEW c \in Callers, CleanupJoined(c) PROVE [LifeStep]_life
  BY <1>8 DEF CleanupJoined
<1>9. ASSUME NEW c \in Callers, ShutdownInterrupted(c) PROVE [LifeStep]_life
  BY <1>9 DEF ShutdownInterrupted
<1>10. ASSUME NEW c \in Callers, CleanupInterrupted(c) PROVE [LifeStep]_life
  BY <1>10 DEF CleanupInterrupted
<1>11. ASSUME NEW d \in All, Stop(d) \/ Crash(d) PROVE [LifeStep]_life
  BY <1>11 DEF Stop, Crash
<1>12. ASSUME NEW d \in All, Ask(d) \/ Answer(d) PROVE [LifeStep]_life
  BY <1>12 DEF Ask, Answer
<1>13. CASE UNCHANGED vars
  BY <1>13 DEF vars
<1> QED
  BY <1>1, <1>2, <1>3, <1>4, <1>5, <1>6, <1>7, <1>8,
     <1>9, <1>10, <1>11, <1>12, <1>13
     DEF Next, ShutdownStep

-----------------------------------------------------------------------------
(* A stopped group: all the places are empty, and so is the producer's.    *)
LEMMA StoppedLemma ==
  TypeOK /\ ShutdownInv /\ NoOrphan /\ ProducerInv => StoppedMeansOff
<1> SUFFICES ASSUME TypeOK, ShutdownInv, NoOrphan, ProducerInv, ~running,
                    NEW d \in All
             PROVE  life[d] = "off" \/ d \in leaked
  BY DEF StoppedMeansOff
<1>1. owner = Free /\ daemons = {} /\ removed = {}
  BY DEF ShutdownInv
<1>2. joining = NoDaemon
  BY <1>1, CallerAssumption DEF ShutdownInv, TypeOK
<1>3. CASE d = Producer
  BY <1>3 DEF ProducerInv
<1>4. CASE d \in Daemons
  BY <1>1, <1>2, <1>4, ProducerAssumption DEF NoOrphan
<1> QED
  BY <1>3, <1>4 DEF All

LEMMA InitInv == Init => Inv
  BY CallerAssumption, ProducerAssumption
     DEF Init, Inv, TypeOK, ShutdownInv, PlaceInv, NoOrphan, StoppedMeansOff,
         ListedNotStopped, ProducerInv, All

LEMMA StepInv == Inv /\ [Next]_vars => Inv'
<1> SUFFICES ASSUME Inv, [Next]_vars PROVE Inv'
  OBVIOUS
<1>1. TypeOK'
  BY TypeStep DEF Inv
<1>2. ShutdownInv'
  BY ShutdownInvStep DEF Inv
<1>3. PlaceInv' /\ ListedNotStopped'
  BY PlaceStep DEF Inv
<1>4. NoOrphan'
  BY OrphanStep DEF Inv
<1>5. ProducerInv'
  BY ProducerStep DEF Inv
<1>6. StoppedMeansOff'
  <2>1. (TypeOK /\ ShutdownInv /\ NoOrphan /\ ProducerInv => StoppedMeansOff)'
    BY StoppedLemma, PTL
  <2> QED
    BY <1>1, <1>2, <1>4, <1>5, <2>1
<1> QED
  BY <1>1, <1>2, <1>3, <1>4, <1>5, <1>6 DEF Inv

LEMMA InvHolds == Spec => []Inv
  BY InitInv, StepInv, PTL DEF Spec

-----------------------------------------------------------------------------
(* The state of a group is well typed, and its monitor has one owner.      *)
THEOREM TypeCorrect == Spec => []TypeOK
<1>1. Inv => TypeOK
  BY DEF Inv
<1> QED
  BY <1>1, InvHolds, PTL

(* No worker thread is lost by the group, but through an interrupted join. *)
THEOREM NoThreadLost == Spec => []NoOrphan
<1>1. Inv => NoOrphan
  BY DEF Inv
<1> QED
  BY <1>1, InvHolds, PTL

(* A group that has stopped has no thread left.                            *)
THEOREM StopIsComplete == Spec => []StoppedMeansOff
<1>1. Inv => StoppedMeansOff
  BY DEF Inv
<1> QED
  BY <1>1, InvHolds, PTL

(* A listed daemon has not been asked to stop.                             *)
THEOREM ListedRuns == Spec => []ListedNotStopped
<1>1. Inv => ListedNotStopped
  BY DEF Inv
<1> QED
  BY <1>1, InvHolds, PTL

(* The producer is the last to be asked to stop.                           *)
THEOREM ProducerLast == Spec => []ProducerOutlivesWorkers
<1>1. Inv => ProducerOutlivesWorkers
  <2> SUFFICES ASSUME Inv, ~unique,
                      daemons \cup removed # {} \/ joining # NoDaemon
               PROVE  life[Producer] \in {"on", "dead"} \/ aborted
    BY DEF ProducerOutlivesWorkers
  <2>1. \A c \in Callers : call[c] # "cleanup"
    BY CallerAssumption DEF Inv, TypeOK, ShutdownInv
  <2>2. running
    BY CallerAssumption DEF Inv, TypeOK, ShutdownInv
  <2> QED
    BY <2>1, <2>2 DEF Inv, ProducerInv
<1> QED
  BY <1>1, InvHolds, PTL

(* The group starts, stops and joins daemons only as their lifecycle       *)
(* allows: nothing is joined alive, nothing is started twice.              *)
THEOREM LifecycleRespected == Spec => UsesLifecycle
<1>1. Inv /\ [Next]_vars
        => [LifeStep]_life
  BY LifecycleStep DEF Inv
<1> QED
  BY <1>1, InvHolds, PTL DEF Spec, UsesLifecycle
=============================================================================
