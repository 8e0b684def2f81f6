---------------------------- MODULE Connections ----------------------------
(***************************************************************************)
(* How connections to other nodes are made, replaced and closed: the        *)
(* ConnectController's records, the neighbour list NbrPeers and the         *)
(* connection wrappers of both, whose Close cleans them up.                 *)
(*                                                                          *)
(* Every attempt is a goroutine of its own (startNetAccept starts one per   *)
(* inbound connection, Connect is called by several protocols).  A step is  *)
(* what it does under one lock: the controller's mutex or the list's lock.  *)
(* The list's lock is held over the whole of netserver's Conn.Close, which  *)
(* takes the controller's mutex in its second half.                         *)
(***************************************************************************)
EXTENDS Integers, FiniteSets, Functions

CONSTANTS
    SelfId,               \* this node's peer id
    Meetings,           \* sets of attempts: what happens in a behaviour
    Reserved,             \* IPs of the reserved peers; none: everybody is let in
    MaxConnInBound, MaxConnOutBound, MaxConnInBoundPerIP

\* An attempt is a record: id (a number), dir ("in" or "out"), addr and ip of the other
\* side's end of the connection, listen (the address it listens at) and kid (its peer id).
\* An outbound connection is made to a listen address.
ASSUME MeetingsAssumption == \A m \in Meetings : \A c \in m : c.id # 0 /\ c.dir \in {"in", "out"}

VARIABLES
    attempts,      \* the attempts of this behaviour
    at,            \* per attempt: where its goroutine is
    inoutbounds, inboundListenAddress, connecting, peers, ownAddr,   \* ConnectController
    List,          \* NbrPeers: peer id -> attempt whose connection is the neighbour's
    npLock,        \* the attempt whose connection is being closed under NbrPeers' lock
    closed,        \* connections whose netserver Conn is closed
    replaced       \* per attempt: the connection it has replaced and must close

connVars == <<attempts, at, inoutbounds, inboundListenAddress, connecting, peers, ownAddr, List, npLock, closed, replaced>>

NoConn == [id |-> 0]
without(f, k) == Restrict(f, DOMAIN f \ {k})
with(f, k, v) == [x \in DOMAIN f \cup {k} |-> IF x = k THEN v ELSE f[x]]

ConnInit ==
    /\ attempts \in Meetings
    /\ at = [c \in attempts |-> "start"]
    /\ inoutbounds = [in |-> {}, out |-> {}] /\ inboundListenAddress = {} /\ connecting = {}
    /\ peers = [k \in {} |-> NoConn] /\ ownAddr = <<>>
    /\ List = [k \in {} |-> NoConn] /\ npLock = NoConn
    /\ closed = {} /\ replaced = [c \in attempts |-> NoConn]

\* The goroutine of c goes from one place to the next.
goes(c, from, to) == at[c] = from /\ at' = [at EXCEPT ![c] = to]

controller == <<inoutbounds, inboundListenAddress, connecting, peers, ownAddr>>
neighbours == <<List, npLock, closed, replaced>>

-----------------------------------------------------------------------------
(* Before the handshake: each check takes the controller's mutex by itself.  *)

checkReservedPeers(c) == Reserved = {} \/ c.ip \in Reserved
hasBoundAddr(a) == a \in inoutbounds["in"] \cup inoutbounds["out"] \cup inboundListenAddress
isBoundFull(dir) ==
    Cardinality(inoutbounds[dir]) >= (IF dir = "in" THEN MaxConnInBound ELSE MaxConnOutBound)
getInboundCountWithIp(ip) == Cardinality({a \in inoutbounds["in"] : \E c \in attempts : c.addr = a /\ c.ip = ip})

CheckAddress(c) ==
    /\ goes(c, "start", IF checkReservedPeers(c) /\ ~hasBoundAddr(c.addr) /\ ownAddr # c.addr
                        THEN "addressOk" ELSE "refused")
    /\ UNCHANGED <<attempts, controller, neighbours>>

CheckFull(c) ==
    /\ goes(c, "addressOk", IF isBoundFull(c.dir) THEN "refused"
                            ELSE IF c.dir = "in" THEN "notFull" ELSE "checked")
    /\ UNCHANGED <<attempts, controller, neighbours>>

CheckIp(c) ==
    /\ goes(c, "notFull", IF getInboundCountWithIp(c.ip) >= MaxConnInBoundPerIP THEN "refused" ELSE "shaking")
    /\ UNCHANGED <<attempts, controller, neighbours>>

\* Only an outbound attempt is kept in the connecting list.
tryAddConnecting(c) ==
    /\ goes(c, "checked", IF c.addr \in connecting THEN "refused" ELSE "shaking")
    /\ connecting' = connecting \cup {c.addr}
    /\ UNCHANGED <<attempts, inoutbounds, inboundListenAddress, peers, ownAddr, neighbours>>

removeConnecting(c) ==
    /\ \/ goes(c, "failed", "refused")
       \/ goes(c, "savedOut", "saved")
    /\ connecting' = connecting \ {c.addr}
    /\ UNCHANGED <<attempts, inoutbounds, inboundListenAddress, peers, ownAddr, neighbours>>

-----------------------------------------------------------------------------
(* The handshake and after it                                                *)

\* Refused attempts of this node's own have their connecting entry removed on the way out.
gaveUp(c) == IF c.dir = "out" THEN "failed" ELSE "refused"

\* The dial or the handshake fails.
HandshakeFails(c) ==
    /\ goes(c, "shaking", gaveUp(c))
    /\ UNCHANGED <<attempts, controller, neighbours>>

checkPeerIdAndIP(c) == c.kid \in DOMAIN peers => peers[c.kid].ip = c.ip

\* The handshake tells the peer's id; afterHandshakeCheck.
Handshake(c) ==
    /\ \/ /\ c.kid = SelfId                                    \* isHandWithSelf
          /\ goes(c, "shaking", gaveUp(c))
          /\ ownAddr' = c.listen
       \/ /\ c.kid # SelfId
          /\ goes(c, "shaking", IF checkPeerIdAndIP(c) THEN "passed" ELSE gaveUp(c))
          /\ UNCHANGED ownAddr
    /\ UNCHANGED <<attempts, inoutbounds, inboundListenAddress, connecting, peers, neighbours>>

savePeer(c) ==
    /\ goes(c, "passed", IF c.dir = "out" THEN "savedOut" ELSE "saved")
    /\ inoutbounds' = [inoutbounds EXCEPT ![c.dir] = @ \cup {c.addr}]
    /\ inboundListenAddress' = inboundListenAddress \cup (IF c.dir = "in" THEN {c.listen} ELSE {})
    /\ peers' = with(peers, c.kid, c)
    /\ UNCHANGED <<attempts, connecting, ownAddr, neighbours>>

\* The neighbour list's entry becomes this connection; the one that was there is closed
\* next.
ReplacePeer(c) ==
    /\ npLock = NoConn
    /\ goes(c, "saved", "listed")
    /\ replaced' = [replaced EXCEPT ![c] = IF c.kid \in DOMAIN List THEN List[c.kid] ELSE NoConn]
    /\ List' = with(List, c.kid, c)
    /\ UNCHANGED <<attempts, controller, npLock, closed>>

\* go remotePeer.Link.Rx()
StartRx(c) ==
    /\ replaced[c] = NoConn
    /\ goes(c, "listed", "up")
    /\ UNCHANGED <<attempts, controller, neighbours>>

-----------------------------------------------------------------------------
(* Closing                                                                   *)

\* Mutant: the entry goes, whosever connection it is.
unlistAny(c) == without(List, c.kid)

\* The entry goes unless another connection of the same peer has replaced this one.
unlist(c) == IF c.kid \in DOMAIN List /\ List[c.kid] = c THEN without(List, c.kid) ELSE List

\* netserver's Conn.Close, up to the call of the controller's, with the lock taken.
closeNbr(c) ==
    /\ npLock = NoConn /\ npLock' = c
    /\ c \notin closed /\ closed' = closed \cup {c}
    /\ List' = unlist(c)

\* Somebody finds the connection broken: its Rx, or a send to the neighbour, which may
\* come before Rx has started; or the server stops.
Breaks(c) ==
    /\ at[c] \in {"listed", "up"}
    /\ closeNbr(c)
    /\ UNCHANGED <<attempts, at, controller, replaced>>

\* The one that replaced a connection closes it, where nobody else has.
CloseReplaced(c) ==
    /\ replaced[c] # NoConn
    /\ replaced' = [replaced EXCEPT ![c] = NoConn]
    /\ IF replaced[c] \in closed THEN npLock = NoConn /\ UNCHANGED <<List, npLock, closed>> ELSE closeNbr(replaced[c])
    /\ UNCHANGED <<attempts, at, controller>>

\* The controller's Conn.Close, then the list is unlocked.
removePeer ==
    LET c == npLock
    IN  /\ c # NoConn
        /\ inoutbounds' = [inoutbounds EXCEPT ![c.dir] = @ \ {c.addr}]
        /\ inboundListenAddress' = inboundListenAddress \ (IF c.dir = "in" THEN {c.listen} ELSE {})
        /\ peers' = IF c.kid \in DOMAIN peers /\ peers[c.kid] = c THEN without(peers, c.kid) ELSE peers
        /\ npLock' = NoConn
        /\ UNCHANGED <<attempts, at, connecting, ownAddr, List, closed, replaced>>

ConnNext ==
    \/ removePeer
    \/ \E c \in attempts :
          \/ CheckAddress(c) \/ CheckFull(c) \/ CheckIp(c) \/ tryAddConnecting(c) \/ removeConnecting(c)
          \/ HandshakeFails(c) \/ Handshake(c) \/ savePeer(c) \/ ReplacePeer(c) \/ CloseReplaced(c) \/ StartRx(c)
          \/ Breaks(c)

ConnSpec == ConnInit /\ [][ConnNext]_connVars

-----------------------------------------------------------------------------
\* Saved by the controller and not yet taken out again.
recorded(c) == at[c] \in {"savedOut", "saved", "listed", "up"} /\ (c \notin closed \/ npLock = c)

ConnTypeOK ==
    /\ at \in [attempts -> {"start", "addressOk", "notFull", "checked", "shaking", "failed", "passed", "savedOut",
                            "saved", "listed", "up", "refused"}]
    /\ closed \subseteq attempts
    /\ \A k \in DOMAIN peers : peers[k] \in attempts /\ peers[k].kid = k
    /\ \A k \in DOMAIN List : List[k] \in attempts /\ List[k].kid = k

\* Whatever the order in which connections of the same peer are made, replaced and closed:
\* no record outlives its connection (an address that stayed would keep the peer away for
\* good and use up the limits, savePeer/removePeer); the neighbour list never holds a
\* closed connection; and no open connection is lost sight of: it is the neighbour's, or
\* the one that replaced it is about to close it.
RecordsFollowConnections ==
    /\ \A d \in {"in", "out"} : \A a \in inoutbounds[d] : \E c \in attempts : recorded(c) /\ c.dir = d /\ c.addr = a
    /\ \A l \in inboundListenAddress : \E c \in attempts : recorded(c) /\ c.dir = "in" /\ c.listen = l
    /\ \A a \in connecting : \E c \in attempts : at[c] \in {"shaking", "passed", "savedOut", "failed"} /\ c.addr = a
    /\ \A k \in DOMAIN peers : recorded(peers[k])
    /\ \A k \in DOMAIN List : List[k] \notin closed
    /\ \A c \in attempts \ closed :
          at[c] \in {"listed", "up"} =>
             \/ c.kid \in DOMAIN List /\ List[c.kid] = c
             \/ \E d \in attempts : replaced[d] = c
=============================================================================
