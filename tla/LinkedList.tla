------------------------------ MODULE LinkedList ------------------------------
(***************************************************************************)
(* The doubly linked list that native contracts keep in the contract       *)
(* storage (native/utils/linked_list.go).  A list is one storage key that  *)
(* holds the head item and one storage key per item that holds its node;   *)
(* the attributes of an ONT ID are kept in such a list.  An absent item,   *)
(* the code's empty byte slice, is Nil.                                    *)
(***************************************************************************)
EXTENDS NativeStorage, Sequences, FiniteSets

Nil == ""

EmptyList == [head |-> Nil, node |-> Empty]

LinkedlistNode(next, prev, payload) ==
    [next |-> next, prev |-> prev, payload |-> payload]

getListHead(list) == list.head

\* A storage write of one node.
PutNodeAt(list, item, node) == [list EXCEPT !.node = PutBytes(@, item, node)]

\* An item that is already listed only gets its new payload; a new one goes
\* in front of the head.
LinkedlistInsert(list, item, payload) ==
    IF GetStorageItem(list.node, item)
    THEN PutNodeAt(list, item, [list.node[item] EXCEPT !.payload = payload])
    ELSE LET head == getListHead(list)
             front == [PutNodeAt(list, item, LinkedlistNode(head, Nil, payload))
                           EXCEPT !.head = item]
         IN IF head = Nil THEN front
            ELSE [front EXCEPT !.node[head].prev = item]

\* The neighbours of the item are joined, or the head moves on, and the
\* item's node is deleted.
LinkedlistDelete(list, item) ==
    LET q == list.node[item]
        forward ==
            IF q.prev = Nil THEN [list EXCEPT !.head = q.next]
            ELSE [list EXCEPT !.node[q.prev].next = q.next]
        joined ==
            IF q.next = Nil THEN forward
            ELSE [forward EXCEPT !.node[q.next].prev = q.prev]
    IN [joined EXCEPT !.node = Delete(@, item)]

LinkedlistGetItem(list, item) == GetStorageItem(list.node, item)

RECURSIVE ItemsFrom(_, _)
ItemsFrom(list, q) ==
    IF q = Nil THEN <<>> ELSE <<q>> \o ItemsFrom(list, list.node[q].next)

\* The walk from the head, along next, that counting, reading and deleting
\* all items do.
Items(list) == ItemsFrom(list, getListHead(list))

LinkedlistGetNumOfItems(list) == Len(Items(list))

\* Only the nodes that the walk meets are deleted.
LinkedlistDeleteAll(list) ==
    LET met == {Items(list)[i] : i \in DOMAIN Items(list)}
    IN [head |-> Nil, node |-> DeleteAll(list.node, met)]

\* The walk from the head meets every stored node once, and each node points
\* back at the one before it.
WellLinked(list) ==
    /\ \A x \in DOMAIN list.node :
           /\ list.node[x].prev = Nil <=> list.head = x
           /\ list.node[x].next # Nil =>
                  /\ list.node[x].next \in DOMAIN list.node
                  /\ list.node[list.node[x].next].prev = x
    /\ list.head # Nil => list.head \in DOMAIN list.node
    /\ Cardinality(DOMAIN list.node) = LinkedlistGetNumOfItems(list)
===============================================================================
