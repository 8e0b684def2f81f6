---------------------------- MODULE StateLayers ----------------------------
(* The layers through which a transaction reads and writes the state: the    *)
(* CacheDB of the transaction over the OverlayDB of the block over the       *)
(* persistent store (core/store/overlaydb, smartcontract/storage).           *)
(*                                                                           *)
(* A key is a positive integer and its order is the order of the bytes; 0 is *)
(* the nil key.  A value is a positive integer and 0 is the empty value, by  *)
(* which a layer says that a key is deleted.  A MemDB is a function from the *)
(* keys it knows; the persistent store is a function from all keys.          *)
EXTENDS Integers, Sequences, FiniteSets, FiniteSetsExt, Functions

NoVal == 0
EmptyMem == [k \in {} |-> NoVal]

memPut(m, k, v) == [x \in DOMAIN m \cup {k} |-> IF x = k THEN v ELSE m[x]]
memDelete(m, k) == memPut(m, k, NoVal)

OverlayGet(db, ov, k)      == IF k \in DOMAIN ov THEN ov[k] ELSE db[k]
CacheGet(db, ov, cache, k) == IF k \in DOMAIN cache THEN cache[k] ELSE OverlayGet(db, ov, k)

(* CacheDB.Commit and OverlayDB.CommitTo go over the layer in key order; a   *)
(* layer has each key once, so that the order does not show.                 *)
CacheCommit(ov, cache) ==
    [k \in DOMAIN ov \cup DOMAIN cache |-> IF k \in DOMAIN cache THEN cache[k] ELSE ov[k]]
CommitTo(db, ov) == [k \in DOMAIN db |-> OverlayGet(db, ov, k)]

----------------------------------------------------------------------------
(* JoinIter merges the iterator of a MemDB with that of the layer below.     *)
(* The iterator of a MemDB stands on a node, hence on a key, and keeps the   *)
(* value it has read there; Next goes to the node that follows by then.  The *)
(* layer below does not change meanwhile: its iterator is a position in the  *)
(* sequence of its entries, and past the last one its key and value are nil. *)
LeastKey(S) == IF S = {} THEN NoVal ELSE Min(S)
Entry(back, i) == IF i \in DOMAIN back THEN back[i] ELSE <<NoVal, NoVal>>

memStand(it, m, k) == [it EXCEPT !.mk = k, !.mv = IF k = NoVal THEN NoVal ELSE m[k]]
memFirst(it, m, range) == memStand(it, m, LeastKey(DOMAIN m \cap range))
memNext(it, m, range) ==
    memStand(it, m, IF it.mk = NoVal THEN NoVal ELSE LeastKey({k \in DOMAIN m \cap range : k > it.mk}))

takeMem(it, origin)  == [it EXCEPT !.key = it.mk, !.val = it.mv, !.origin = origin]
takeBack(it, back) ==
    [it EXCEPT !.key = Entry(back, it.bi)[1], !.val = Entry(back, it.bi)[2], !.origin = "back"]
compare(it, back) ==
    LET bk == Entry(back, it.bi)[1]
    IN  IF it.mk < bk THEN takeMem(it, "mem")
        ELSE IF it.mk = bk THEN takeMem(it, "both") ELSE takeBack(it, back)

NewJoinIter == [mk |-> NoVal, mv |-> NoVal, bi |-> 1, key |-> NoVal, val |-> NoVal, origin |-> "mem",
                memEnd |-> FALSE, backEnd |-> FALSE, more |-> FALSE]

(* The unexported first and next; more is what they return.                  *)
first(m, range, back) ==
    LET it == memFirst(NewJoinIter, m, range)
    IN  IF back # << >>
        THEN [(IF it.mk = NoVal THEN takeBack(it, back) ELSE compare(it, back)) EXCEPT !.more = TRUE]
        ELSE IF it.mk # NoVal THEN [takeMem(it, "mem") EXCEPT !.more = TRUE] ELSE it

next(it, m, range, back) ==
    LET mem   == IF it.origin \in {"mem", "both"} /\ ~it.memEnd
                 THEN LET n == memNext(it, m, range) IN [n EXCEPT !.memEnd = n.mk = NoVal]
                 ELSE it
        moved == IF it.origin \in {"back", "both"} /\ ~it.backEnd
                 THEN [mem EXCEPT !.bi = it.bi + 1, !.backEnd = it.bi + 1 \notin DOMAIN back]
                 ELSE mem
    IN  IF moved.backEnd /\ moved.memEnd
        THEN [moved EXCEPT !.key = NoVal, !.val = NoVal, !.more = FALSE]
        ELSE [(IF moved.backEnd THEN takeMem(moved, "mem")
               ELSE IF moved.memEnd THEN takeBack(moved, back) ELSE compare(moved, back))
                 EXCEPT !.more = TRUE]

(* First and Next skip the entries with an empty value: the deleted keys,    *)
(* and the nil entry of a side that was empty from the start and has not     *)
(* been found at its end yet.                                                *)
RECURSIVE SkipDeleted(_, _, _, _)
SkipDeleted(it, m, range, back) ==
    IF ~it.more \/ it.val # NoVal THEN it ELSE SkipDeleted(next(it, m, range, back), m, range, back)

JoinFirst(m, range, back)    == SkipDeleted(first(m, range, back), m, range, back)
JoinNext(it, m, range, back) == SkipDeleted(next(it, m, range, back), m, range, back)

RECURSIVE JoinRest(_, _, _, _)
JoinRest(it, m, range, back) ==
    IF ~it.more THEN << >> ELSE <<<<it.key, it.val>>>> \o JoinRest(JoinNext(it, m, range, back), m, range, back)

(* The entries an iterator of the store yields, and one of the overlay.      *)
RECURSIVE EntriesIn(_, _)
EntriesIn(f, keys) ==
    IF keys = {} THEN << >> ELSE <<<<Min(keys), f[Min(keys)]>>>> \o EntriesIn(f, keys \ {Min(keys)})
StoreEntries(db, range) == EntriesIn(db, {k \in range : db[k] # NoVal})
OverlayEntries(db, ov, range) ==
    LET back == StoreEntries(db, range) IN JoinRest(JoinFirst(ov, range, back), ov, range, back)

(* What an iterator over the cache is to yield.                              *)
LiveEntries(db, ov, cache, range) ==
    LET view == [k \in range |-> CacheGet(db, ov, cache, k)]
    IN  EntriesIn(view, {k \in range : view[k] # NoVal})
CacheEntries(db, ov, cache, range) ==
    LET back == OverlayEntries(db, ov, range) IN JoinRest(JoinFirst(cache, range, back), cache, range, back)
=============================================================================
