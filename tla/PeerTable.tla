----------------------------- MODULE PeerTable -----------------------------
(***************************************************************************)
(* What a node keeps about the peers it is connected to: the routing table  *)
(* (dht/kbucket), asked by the discovery protocol, and the services told of *)
(* every peer that comes or goes (MsgHandler.HandleSystemMessage): the      *)
(* addresses to reconnect to, the recent peers and bootstrap's count.       *)
(*                                                                          *)
(* The table's operations are atomic under its lock.  The notices of one    *)
(* peer are taken in the order in which its connections are made and end.   *)
(***************************************************************************)
EXTENDS Integers, SequencesExt, Bitwise

CONSTANTS
    IdBits,        \* length of a peer id
    LocalId,       \* this node's
    RemoteIds,     \* the peers'
    AddrOf,        \* id -> listen address: the peers' addresses differ
    BucketSize, AlphaValue,
    MaskSet,       \* addresses whose peers are hidden from the others
    MaxRetryCount,
    MaxNotices     \* bound: notices and ticks of a behaviour

VARIABLES
    Buckets,      \* RouteTable: lists of pairs [ID, Address], most active first
    RetryAddrs,   \* ReconnectService: address -> [count, id]
    recentPeers,  \* PersistRecentPeerService: addresses
    bootConnected, \* BootstrapService's count
    up,           \* the peers connected
    rejected,     \* of these, the ones the table had no room for
    notices

tableVars == <<Buckets, RetryAddrs, recentPeers, bootConnected, up, rejected, notices>>

TableInit ==
    /\ Buckets = << <<>> >>
    /\ RetryAddrs = [a \in {} |-> 0] /\ recentPeers = {} /\ bootConnected = 0
    /\ up = {} /\ rejected = {} /\ notices = 0

-----------------------------------------------------------------------------
(* Identifiers and buckets                                                   *)

Distance(a, b) == a ^^ b
CommonPrefixLen(a, b) == CHOOSE n \in 0..IdBits : Distance(a, b) < 2^(IdBits - n) /\ (n < IdBits => Distance(a, b) >= 2^(IdBits - n - 1))

hasPeer(bucket, id) == \E i \in DOMAIN bucket : bucket[i].ID = id
removeFrom(bucket, id) == SelectSeq(bucket, LAMBDA p : p.ID # id)
moveToFront(bucket, id) == SelectSeq(bucket, LAMBDA p : p.ID = id) \o removeFrom(bucket, id)

\* The bucket of a peer: the last one takes all that have none of their own.
bucketID(buckets, id) ==
    LET cpl == CommonPrefixLen(id, LocalId) IN IF cpl >= Len(buckets) THEN Len(buckets) ELSE cpl + 1

\* The last bucket keeps the peers of its own prefix length, a new one takes the rest.
Split(bucket, cpl) ==
    << SelectSeq(bucket, LAMBDA p : CommonPrefixLen(p.ID, LocalId) <= cpl),
       SelectSeq(bucket, LAMBDA p : CommonPrefixLen(p.ID, LocalId) > cpl) >>

\* Mutant: the last bucket keeps peers of the new one.
RECURSIVE nextBucketOffByOne(_)
nextBucketOffByOne(buckets) ==
    LET unfolded == Front(buckets) \o Split(Last(buckets), Len(buckets))
    IN  IF Len(Last(unfolded)) >= BucketSize THEN nextBucketOffByOne(unfolded) ELSE unfolded

RECURSIVE nextBucket(_)
nextBucket(buckets) ==
    LET unfolded == Front(buckets) \o Split(Last(buckets), Len(buckets) - 1)
    IN  IF Len(Last(unfolded)) >= BucketSize THEN nextBucket(unfolded) ELSE unfolded

\* The table after Update, and whether the peer found room.
Update(buckets, pair) ==
    LET b    == bucketID(buckets, pair.ID)
        wide == nextBucket(buckets)
        w    == bucketID(wide, pair.ID)
        room(bs, i) == [buckets |-> [bs EXCEPT ![i] = <<pair>> \o @], ok |-> TRUE]
    IN  CASE hasPeer(buckets[b], pair.ID) ->
               [buckets |-> [buckets EXCEPT ![b] = moveToFront(@, pair.ID)], ok |-> TRUE]
          [] ~hasPeer(buckets[b], pair.ID) /\ Len(buckets[b]) < BucketSize -> room(buckets, b)
          [] ~hasPeer(buckets[b], pair.ID) /\ Len(buckets[b]) >= BucketSize /\ b = Len(buckets) ->
               IF Len(wide[w]) >= BucketSize THEN [buckets |-> wide, ok |-> FALSE] ELSE room(wide, w)
          [] OTHER -> [buckets |-> buckets, ok |-> FALSE]

RemoveId(buckets, id) == [buckets EXCEPT ![bucketID(buckets, id)] = removeFrom(@, id)]

\* The peers of the target's bucket, then of the buckets to its right, then to its left,
\* until there are enough; the nearest of them.
NearestPeers(buckets, id, count) ==
    LET b     == bucketID(buckets, id)
        order == [i \in 1..Len(buckets) |-> IF i <= Len(buckets) - b + 1 THEN b + i - 1 ELSE Len(buckets) + 1 - i]
        taken == FoldLeft(LAMBDA got, i : IF i = b \/ Len(got) < count THEN got \o buckets[i] ELSE got, <<>>, order)
        near  == SortSeq(taken, LAMBDA p, q : Distance(id, p.ID) < Distance(id, q.ID))
    IN  SubSeq(near, 1, IF count < Len(near) THEN count ELSE Len(near))

Find(buckets, id) ==
    LET srch == NearestPeers(buckets, id, 1) IN srch # <<>> /\ srch[1].ID = id

ListPeers(buckets) == FlattenSeq(buckets)
BetterPeers(id, count) == SelectSeq(NearestPeers(Buckets, id, count), LAMBDA p : p.ID \notin {LocalId, id})

-----------------------------------------------------------------------------
(* Discovery's answers                                                       *)

\* A peer that is not masked itself does not get to see the masked ones.
unmasked(from, pairs) ==
    IF MaskSet # {} /\ AddrOf[from] \notin MaskSet THEN SelectSeq(pairs, LAMBDA p : p.Address \notin MaskSet) ELSE pairs

FindNodeHandle(from, target) == IF target = LocalId THEN <<>> ELSE unmasked(from, BetterPeers(target, AlphaValue))

\* An address message made here names no peer: its ids are left zero.
NoId == 0
neighborAddresses == [i \in DOMAIN ListPeers(Buckets) |-> [ID |-> NoId, Address |-> ListPeers(Buckets)[i].Address]]
AddrReqHandle(from) == unmasked(from, neighborAddresses)

\* Whom an answer makes this node connect to.
FindNodeResponseHandle(pairs) == {p.Address : p \in {q \in Range(pairs) : q.ID \notin up \cup {LocalId}}}
AddrHandle(pairs) == {p.Address : p \in {q \in Range(pairs) : q.ID # LocalId /\ ~Find(Buckets, q.ID)}}

-----------------------------------------------------------------------------
(* Notices and ticks                                                         *)

pairOf(id) == [ID |-> id, Address |-> AddrOf[id]]
noticed == notices < MaxNotices /\ notices' = notices + 1

\* HandleSystemMessage(PeerConnected): also where the new connection replaces another.
PeerConnected(id) ==
    /\ noticed
    /\ LET updated == Update(Buckets, pairOf(id))
       IN  /\ Buckets' = updated.buckets
           /\ rejected' = IF updated.ok THEN rejected \ {id} ELSE rejected \cup {id}
    /\ RetryAddrs' = Restrict(RetryAddrs, DOMAIN RetryAddrs \ {AddrOf[id]})
    /\ bootConnected' = bootConnected + 1
    /\ recentPeers' = recentPeers \cup {AddrOf[id]}
    /\ up' = up \cup {id}

\* HandleSystemMessage(PeerDisConnected)
PeerDisConnected(id) ==
    /\ id \in up /\ noticed
    /\ Buckets' = RemoveId(Buckets, id)
    /\ RetryAddrs' = [a \in DOMAIN RetryAddrs \cup {AddrOf[id]} |->
                         IF a = AddrOf[id] THEN [count |-> 0, id |-> id] ELSE RetryAddrs[a]]
    /\ bootConnected' = bootConnected - 1
    /\ recentPeers' = recentPeers \ {AddrOf[id]}
    /\ up' = up \ {id} /\ rejected' = rejected \ {id}

\* The addresses that are kept, and connected to, at this tick.
retried == {a \in DOMAIN RetryAddrs : RetryAddrs[a].count + 1 <= MaxRetryCount /\ RetryAddrs[a].id \notin up}

retryInactivePeer ==
    /\ noticed /\ RetryAddrs # <<>>
    /\ RetryAddrs' = [a \in retried |-> [RetryAddrs[a] EXCEPT !.count = @ + 1]]
    /\ UNCHANGED <<Buckets, recentPeers, bootConnected, up, rejected>>

TableNext ==
    \/ \E id \in RemoteIds : PeerConnected(id) \/ PeerDisConnected(id)
    \/ retryInactivePeer

-----------------------------------------------------------------------------
listed == {p.ID : p \in Range(ListPeers(Buckets))}

TableTypeOK ==
    /\ \A i \in DOMAIN Buckets : Range(Buckets[i]) \subseteq {pairOf(id) : id \in RemoteIds}
    /\ bootConnected \in 0..MaxNotices /\ up \subseteq RemoteIds /\ recentPeers \subseteq Range(AddrOf)

\* However the buckets were unfolded: each holds at most its size, every peer is in the
\* one bucket in which Update, Remove and NearestPeers look for it, so that a peer is
\* found exactly when it is connected and was not refused for lack of room, a search
\* returns as many peers as it can, the nearest where they share the target's bucket, and
\* no peer that has left is handed on, to be connected to, by FindNodeHandle or
\* AddrReqHandle, nor a masked one to a peer that is not.  The services agree on who is
\* there: no peer that is connected is also tried again.
TableFinds == notices > 0 =>   \* at first the table is empty
    /\ \A i \in DOMAIN Buckets :
          /\ Len(Buckets[i]) <= BucketSize
          /\ \A p \in Range(Buckets[i]) : bucketID(Buckets, p.ID) = i
    /\ listed = up \ rejected /\ Len(ListPeers(Buckets)) = Cardinality(listed)
    /\ \A id \in RemoteIds : Find(Buckets, id) <=> id \in listed
    /\ \A id \in RemoteIds, n \in 1..(BucketSize + 1) :
          LET near == NearestPeers(Buckets, id, n)
          IN  /\ Len(near) = (IF Cardinality(listed) < n THEN Cardinality(listed) ELSE n)
              /\ \A p \in Range(near), q \in listed \ {r.ID : r \in Range(near)} :
                    hasPeer(Buckets[bucketID(Buckets, id)], q) => Distance(id, p.ID) < Distance(id, q)
    /\ \A from \in up, target \in RemoteIds :
          /\ \A p \in Range(FindNodeHandle(from, target)) \cup Range(AddrReqHandle(from)) :
                /\ p.Address \in {AddrOf[id] : id \in up}
                /\ AddrOf[from] \in MaskSet \/ p.Address \notin MaskSet
          /\ FindNodeResponseHandle(FindNodeHandle(from, target)) = {}
          /\ AddrHandle(NearestPeers(Buckets, target, AlphaValue)) = {}
    /\ \A a \in DOMAIN RetryAddrs : RetryAddrs[a].id \notin up /\ RetryAddrs[a].count <= MaxRetryCount
    /\ \A id \in up : AddrOf[id] \in recentPeers
    /\ bootConnected >= Cardinality(up)
=============================================================================
