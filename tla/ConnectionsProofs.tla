------------------------- MODULE ConnectionsProofs -------------------------
(***************************************************************************)
(* RecordsFollowConnections holds for every set of attempts, every limit    *)
(* and every set of reserved peers: proof by an inductive invariant.        *)
(***************************************************************************)
EXTENDS Connections, TLAPS

Places == {"start", "addressOk", "notFull", "checked", "shaking", "failed", "passed", "savedOut",
           "saved", "listed", "up", "refused"}
Listed == {"listed", "up"}

\* What the variables hold.
ShapeInv ==
    /\ attempts \in Meetings
    /\ at \in [attempts -> Places]
    /\ inoutbounds = [d \in {"in", "out"} |-> inoutbounds[d]]
    /\ closed \subseteq attempts
    /\ npLock \in attempts \cup {NoConn}
    /\ replaced \in [attempts -> attempts \cup {NoConn}]
    /\ \A k \in DOMAIN peers : peers[k] \in attempts /\ peers[k].kid = k
    /\ \A k \in DOMAIN List : List[k] \in attempts /\ List[k].kid = k

\* Only an outbound attempt has a place between tryAddConnecting and removeConnecting
\* that ends in "failed" or "savedOut".
PathInv ==
    /\ \A c \in attempts : at[c] \in {"checked", "failed", "savedOut"} => c.dir = "out"
    /\ \A a \in connecting : \E c \in attempts :
          at[c] \in {"shaking", "passed", "savedOut", "failed"} /\ c.addr = a /\ c.dir = "out"

\* Only connections that have been listed are closed or replaced, and whoever replaced
\* one has not started its own Rx.
CloseInv ==
    /\ \A c \in closed : at[c] \in Listed
    /\ npLock # NoConn => npLock \in closed
    /\ \A k \in DOMAIN List : at[List[k]] \in Listed /\ List[k] \notin closed
    /\ \A c \in attempts : replaced[c] # NoConn => at[c] = "listed" /\ at[replaced[c]] \in Listed

\* The controller's records have a connection that is recorded.
RecordInv ==
    /\ \A d \in {"in", "out"} : \A a \in inoutbounds[d] : \E c \in attempts : recorded(c) /\ c.dir = d /\ c.addr = a
    /\ \A l \in inboundListenAddress : \E c \in attempts : recorded(c) /\ c.dir = "in" /\ c.listen = l
    /\ \A k \in DOMAIN peers : recorded(peers[k])

\* No open connection is lost sight of.
SeenInv ==
    \A c \in attempts \ closed : at[c] \in Listed =>
       \/ c.kid \in DOMAIN List /\ List[c.kid] = c
       \/ \E d \in attempts : replaced[d] = c

ConnInv == ShapeInv /\ PathInv /\ CloseInv /\ RecordInv /\ SeenInv

-----------------------------------------------------------------------------
(* Proofs *)

\* The marker for no connection is none of the attempts.
LEMMA NoConnIsNone == ASSUME ShapeInv PROVE NoConn \notin attempts /\ \A c \in attempts : c.dir \in {"in", "out"}
<1>1. NoConn.id = 0
  BY DEF NoConn
<1>2. QED
  BY <1>1, MeetingsAssumption DEF ShapeInv

\* No attempt has begun.
LEMMA InitInv == ConnInit => ConnInv
<1> SUFFICES ASSUME ConnInit PROVE ConnInv
  OBVIOUS
<1>1. ShapeInv
  BY DEF ConnInit, ShapeInv, Places
<1>2. NoConn \notin attempts
  BY <1>1, NoConnIsNone
<1>3. PathInv /\ CloseInv /\ RecordInv /\ SeenInv
  BY <1>1, <1>2 DEF ConnInit, PathInv, CloseInv, RecordInv, SeenInv, Listed, ShapeInv
<1>4. QED
  BY <1>1, <1>3 DEF ConnInv

\* The own address and the reserved peers are checked.
LEMMA CheckAddressKeeps ==
    ASSUME ConnInv, NEW c \in attempts, CheckAddress(c) PROVE ConnInv'
<1> USE DEF goes, connVars, controller, neighbours
<1>0. NoConn \notin attempts /\ \A e \in attempts : e.dir \in {"in", "out"}
  BY NoConnIsNone DEF ConnInv
<1>1. ShapeInv'
  BY <1>0 DEF CheckAddress, checkReservedPeers, ConnInv, ShapeInv, Places
<1>2. PathInv'
  BY <1>0 DEF CheckAddress, checkReservedPeers, ConnInv, ShapeInv, PathInv, Places
<1>3. CloseInv'
  BY <1>0 DEF CheckAddress, checkReservedPeers, ConnInv, ShapeInv, CloseInv, Listed, Places
<1>4. RecordInv'
  BY <1>0 DEF CheckAddress, checkReservedPeers, ConnInv, ShapeInv, CloseInv, RecordInv, Listed, recorded, Places
<1>5. SeenInv'
  BY <1>0 DEF CheckAddress, checkReservedPeers, ConnInv, ShapeInv, CloseInv, SeenInv, Listed, Places
<1>6. QED
  BY <1>1, <1>2, <1>3, <1>4, <1>5 DEF ConnInv

\* The limit of the direction is checked.
LEMMA CheckFullKeeps ==
    ASSUME ConnInv, NEW c \in attempts, CheckFull(c) PROVE ConnInv'
<1> USE DEF goes, connVars, controller, neighbours
<1>0. NoConn \notin attempts /\ \A e \in attempts : e.dir \in {"in", "out"}
  BY NoConnIsNone DEF ConnInv
<1>1. ShapeInv'
  BY <1>0 DEF CheckFull, ConnInv, ShapeInv, Places
<1>2. PathInv'
  BY <1>0 DEF CheckFull, ConnInv, ShapeInv, PathInv, Places
<1>3. CloseInv'
  BY <1>0 DEF CheckFull, ConnInv, ShapeInv, CloseInv, Listed, Places
<1>4. RecordInv'
  BY <1>0 DEF CheckFull, ConnInv, ShapeInv, CloseInv, RecordInv, Listed, recorded, Places
<1>5. SeenInv'
  BY <1>0 DEF CheckFull, ConnInv, ShapeInv, CloseInv, SeenInv, Listed, Places
<1>6. QED
  BY <1>1, <1>2, <1>3, <1>4, <1>5 DEF ConnInv

\* The limit per address is checked.
LEMMA CheckIpKeeps ==
    ASSUME ConnInv, NEW c \in attempts, CheckIp(c) PROVE ConnInv'
<1> USE DEF goes, connVars, controller, neighbours
<1>0. NoConn \notin attempts /\ \A e \in attempts : e.dir \in {"in", "out"}
  BY NoConnIsNone DEF ConnInv
<1>1. ShapeInv'
  BY <1>0 DEF CheckIp, ConnInv, ShapeInv, Places
<1>2. PathInv'
  BY <1>0 DEF CheckIp, ConnInv, ShapeInv, PathInv, Places
<1>3. CloseInv'
  BY <1>0 DEF CheckIp, ConnInv, ShapeInv, CloseInv, Listed, Places
<1>4. RecordInv'
  BY <1>0 DEF CheckIp, ConnInv, ShapeInv, CloseInv, RecordInv, Listed, recorded, Places
<1>5. SeenInv'
  BY <1>0 DEF CheckIp, ConnInv, ShapeInv, CloseInv, SeenInv, Listed, Places
<1>6. QED
  BY <1>1, <1>2, <1>3, <1>4, <1>5 DEF ConnInv

\* tryAddConnecting takes the address of an outbound attempt.
LEMMA TryAddConnectingKeeps ==
    ASSUME ConnInv, NEW c \in attempts, tryAddConnecting(c) PROVE ConnInv'
<1> USE DEF goes, connVars, controller, neighbours
<1>0. NoConn \notin attempts /\ \A e \in attempts : e.dir \in {"in", "out"}
  BY NoConnIsNone DEF ConnInv
<1>1. ShapeInv'
  BY <1>0 DEF tryAddConnecting, ConnInv, ShapeInv, Places
<1>2. PathInv'
  BY <1>0 DEF tryAddConnecting, ConnInv, ShapeInv, PathInv, Places
<1>3. CloseInv'
  BY <1>0 DEF tryAddConnecting, ConnInv, ShapeInv, CloseInv, Listed, Places
<1>4. RecordInv'
  BY <1>0 DEF tryAddConnecting, ConnInv, ShapeInv, CloseInv, RecordInv, Listed, recorded, Places
<1>5. SeenInv'
  BY <1>0 DEF tryAddConnecting, ConnInv, ShapeInv, CloseInv, SeenInv, Listed, Places
<1>6. QED
  BY <1>1, <1>2, <1>3, <1>4, <1>5 DEF ConnInv

\* removeConnecting gives it back.
LEMMA RemoveConnectingKeeps ==
    ASSUME ConnInv, NEW c \in attempts, removeConnecting(c) PROVE ConnInv'
<1> USE DEF goes, connVars, controller, neighbours
<1>0. NoConn \notin attempts /\ \A e \in attempts : e.dir \in {"in", "out"}
  BY NoConnIsNone DEF ConnInv
<1>1. ShapeInv'
  BY <1>0 DEF removeConnecting, ConnInv, ShapeInv, Places
<1>2. PathInv'
  BY <1>0 DEF removeConnecting, ConnInv, ShapeInv, PathInv, Places
<1>3. CloseInv'
  BY <1>0 DEF removeConnecting, ConnInv, ShapeInv, CloseInv, Listed, Places
<1>4. RecordInv'
  BY <1>0 DEF removeConnecting, ConnInv, ShapeInv, CloseInv, RecordInv, Listed, recorded, Places
<1>5. SeenInv'
  BY <1>0 DEF removeConnecting, ConnInv, ShapeInv, CloseInv, SeenInv, Listed, Places
<1>6. QED
  BY <1>1, <1>2, <1>3, <1>4, <1>5 DEF ConnInv

\* The handshake fails.
LEMMA HandshakeFailsKeeps ==
    ASSUME ConnInv, NEW c \in attempts, HandshakeFails(c) PROVE ConnInv'
<1> USE DEF goes, connVars, controller, neighbours
<1>0. NoConn \notin attempts /\ \A e \in attempts : e.dir \in {"in", "out"}
  BY NoConnIsNone DEF ConnInv
<1>1. ShapeInv'
  BY <1>0 DEF HandshakeFails, gaveUp, ConnInv, ShapeInv, Places
<1>2. PathInv'
  BY <1>0 DEF HandshakeFails, gaveUp, ConnInv, ShapeInv, PathInv, Places
<1>3. CloseInv'
  BY <1>0 DEF HandshakeFails, gaveUp, ConnInv, ShapeInv, CloseInv, Listed, Places
<1>4. RecordInv'
  BY <1>0 DEF HandshakeFails, gaveUp, ConnInv, ShapeInv, CloseInv, RecordInv, Listed, recorded, Places
<1>5. SeenInv'
  BY <1>0 DEF HandshakeFails, gaveUp, ConnInv, ShapeInv, CloseInv, SeenInv, Listed, Places
<1>6. QED
  BY <1>1, <1>2, <1>3, <1>4, <1>5 DEF ConnInv

\* The handshake succeeds.
LEMMA HandshakeKeeps ==
    ASSUME ConnInv, NEW c \in attempts, Handshake(c) PROVE ConnInv'
<1> USE DEF goes, connVars, controller, neighbours
<1>0. NoConn \notin attempts /\ \A e \in attempts : e.dir \in {"in", "out"}
  BY NoConnIsNone DEF ConnInv
<1>1. ShapeInv'
  BY <1>0 DEF Handshake, gaveUp, ConnInv, ShapeInv, Places
<1>2. PathInv'
  BY <1>0 DEF Handshake, gaveUp, ConnInv, ShapeInv, PathInv, Places
<1>3. CloseInv'
  BY <1>0 DEF Handshake, gaveUp, ConnInv, ShapeInv, CloseInv, Listed, Places
<1>4. RecordInv'
  BY <1>0 DEF Handshake, gaveUp, ConnInv, ShapeInv, CloseInv, RecordInv, Listed, recorded, Places
<1>5. SeenInv'
  BY <1>0 DEF Handshake, gaveUp, ConnInv, ShapeInv, CloseInv, SeenInv, Listed, Places
<1>6. QED
  BY <1>1, <1>2, <1>3, <1>4, <1>5 DEF ConnInv

\* savePeer records the connection.
LEMMA SavePeerKeeps ==
    ASSUME ConnInv, NEW c \in attempts, savePeer(c) PROVE ConnInv'
<1> USE DEF goes, connVars, controller, neighbours
<1>0. NoConn \notin attempts /\ \A e \in attempts : e.dir \in {"in", "out"}
  BY NoConnIsNone DEF ConnInv
<1>1. ShapeInv'
  BY <1>0 DEF savePeer, with, ConnInv, ShapeInv, Places
<1>2. PathInv'
  BY <1>0 DEF savePeer, with, ConnInv, ShapeInv, PathInv, Places
<1>3. CloseInv'
  BY <1>0 DEF savePeer, with, ConnInv, ShapeInv, CloseInv, Listed, Places
<1>4. RecordInv'
  BY <1>0 DEF savePeer, with, ConnInv, ShapeInv, CloseInv, RecordInv, Listed, recorded, Places
<1>5. SeenInv'
  BY <1>0 DEF savePeer, with, ConnInv, ShapeInv, CloseInv, SeenInv, Listed, Places
<1>6. QED
  BY <1>1, <1>2, <1>3, <1>4, <1>5 DEF ConnInv

\* ReplacePeer lists the connection and takes the place of an older one.
LEMMA ReplacePeerKeeps ==
    ASSUME ConnInv, NEW c \in attempts, ReplacePeer(c) PROVE ConnInv'
<1> USE DEF goes, connVars, controller, neighbours
<1>0. NoConn \notin attempts /\ \A e \in attempts : e.dir \in {"in", "out"}
  BY NoConnIsNone DEF ConnInv
<1>1. ShapeInv'
  BY <1>0 DEF ReplacePeer, with, ConnInv, ShapeInv, Places
<1>2. PathInv'
  BY <1>0 DEF ReplacePeer, with, ConnInv, ShapeInv, PathInv, Places
<1>3. CloseInv'
  BY <1>0 DEF ReplacePeer, with, ConnInv, ShapeInv, CloseInv, Listed, Places
<1>4. RecordInv'
  BY <1>0 DEF ReplacePeer, with, ConnInv, ShapeInv, CloseInv, RecordInv, Listed, recorded, Places
<1>5. SeenInv'
  BY <1>0 DEF ReplacePeer, with, ConnInv, ShapeInv, CloseInv, SeenInv, Listed, Places
<1>6. QED
  BY <1>1, <1>2, <1>3, <1>4, <1>5 DEF ConnInv

\* The receiving goroutine starts.
LEMMA StartRxKeeps ==
    ASSUME ConnInv, NEW c \in attempts, StartRx(c) PROVE ConnInv'
<1> USE DEF goes, connVars, controller, neighbours
<1>0. NoConn \notin attempts /\ \A e \in attempts : e.dir \in {"in", "out"}
  BY NoConnIsNone DEF ConnInv
<1>1. ShapeInv'
  BY <1>0 DEF StartRx, ConnInv, ShapeInv, Places
<1>2. PathInv'
  BY <1>0 DEF StartRx, ConnInv, ShapeInv, PathInv, Places
<1>3. CloseInv'
  BY <1>0 DEF StartRx, ConnInv, ShapeInv, CloseInv, Listed, Places
<1>4. RecordInv'
  BY <1>0 DEF StartRx, ConnInv, ShapeInv, CloseInv, RecordInv, Listed, recorded, Places
<1>5. SeenInv'
  BY <1>0 DEF StartRx, ConnInv, ShapeInv, CloseInv, SeenInv, Listed, Places
<1>6. QED
  BY <1>1, <1>2, <1>3, <1>4, <1>5 DEF ConnInv

\* A connection breaks and is closed.
LEMMA BreaksKeeps ==
    ASSUME ConnInv, NEW c \in attempts, Breaks(c) PROVE ConnInv'
<1> USE DEF connVars, controller, neighbours
<1>0. NoConn \notin attempts /\ \A e \in attempts : e.dir \in {"in", "out"}
  BY NoConnIsNone DEF ConnInv
<1>1. ShapeInv'
  BY <1>0 DEF Breaks, closeNbr, unlist, without, Restrict, ConnInv, ShapeInv, Places
<1>2. PathInv'
  BY <1>0 DEF Breaks, closeNbr, unlist, without, Restrict, ConnInv, ShapeInv, PathInv, Places
<1>3. CloseInv'
  BY <1>0 DEF Breaks, closeNbr, unlist, without, Restrict, ConnInv, ShapeInv, CloseInv, Listed, Places
<1>4. RecordInv'
  BY <1>0 DEF Breaks, closeNbr, unlist, without, Restrict, ConnInv, ShapeInv, CloseInv, RecordInv, Listed, recorded, Places
<1>5. SeenInv'
  BY <1>0 DEF Breaks, closeNbr, unlist, without, Restrict, ConnInv, ShapeInv, CloseInv, SeenInv, Listed, Places
<1>6. QED
  BY <1>1, <1>2, <1>3, <1>4, <1>5 DEF ConnInv

\* The connection that was replaced is closed.
LEMMA CloseReplacedKeeps ==
    ASSUME ConnInv, NEW c \in attempts, CloseReplaced(c) PROVE ConnInv'
<1> USE DEF connVars, controller, neighbours
<1>0. NoConn \notin attempts /\ \A e \in attempts : e.dir \in {"in", "out"}
  BY NoConnIsNone DEF ConnInv
<1>1. ShapeInv'
  BY <1>0 DEF CloseReplaced, closeNbr, unlist, without, Restrict, ConnInv, ShapeInv, Places
<1>2. PathInv'
  BY <1>0 DEF CloseReplaced, closeNbr, unlist, without, Restrict, ConnInv, ShapeInv, PathInv, Places
<1>3. CloseInv'
  BY <1>0 DEF CloseReplaced, closeNbr, unlist, without, Restrict, ConnInv, ShapeInv, CloseInv, Listed, Places
<1>4. RecordInv'
  BY <1>0 DEF CloseReplaced, closeNbr, unlist, without, Restrict, ConnInv, ShapeInv, CloseInv, RecordInv, Listed, recorded, Places
<1>5. SeenInv'
  BY <1>0 DEF CloseReplaced, closeNbr, unlist, without, Restrict, ConnInv, ShapeInv, CloseInv, SeenInv, Listed, Places
<1>6. QED
  BY <1>1, <1>2, <1>3, <1>4, <1>5 DEF ConnInv

\* removePeer takes the records of a closed connection back.
LEMMA RemovePeerKeeps ==
    ASSUME ConnInv, removePeer PROVE ConnInv'
<1> USE DEF connVars, controller, neighbours
<1>0. NoConn \notin attempts /\ \A e \in attempts : e.dir \in {"in", "out"}
  BY NoConnIsNone DEF ConnInv
<1>1. ShapeInv'
  BY <1>0 DEF removePeer, without, Restrict, ConnInv, ShapeInv, Places
<1>2. PathInv'
  BY <1>0 DEF removePeer, without, Restrict, ConnInv, ShapeInv, PathInv, Places
<1>3. CloseInv'
  BY <1>0 DEF removePeer, without, Restrict, ConnInv, ShapeInv, CloseInv, Listed, Places
<1>4. RecordInv'
  BY <1>0 DEF removePeer, without, Restrict, ConnInv, ShapeInv, CloseInv, RecordInv, Listed, recorded, Places
<1>5. SeenInv'
  BY <1>0 DEF removePeer, without, Restrict, ConnInv, ShapeInv, CloseInv, SeenInv, Listed, Places
<1>6. QED
  BY <1>1, <1>2, <1>3, <1>4, <1>5 DEF ConnInv

\* Every step keeps the invariant.
LEMMA StepInv == ConnInv /\ [ConnNext]_connVars => ConnInv'
<1> SUFFICES ASSUME ConnInv, [ConnNext]_connVars PROVE ConnInv'
  OBVIOUS
<1>1. CASE UNCHANGED connVars
  BY <1>1 DEF connVars, ConnInv, ShapeInv, PathInv, CloseInv, RecordInv, SeenInv, recorded
<1>2. CASE removePeer
  BY <1>2, RemovePeerKeeps
<1>3. ASSUME NEW c \in attempts,
             \/ CheckAddress(c)
             \/ CheckFull(c)
             \/ CheckIp(c)
             \/ tryAddConnecting(c)
             \/ removeConnecting(c)
             \/ HandshakeFails(c)
             \/ Handshake(c)
             \/ savePeer(c)
             \/ ReplacePeer(c)
             \/ StartRx(c)
             \/ Breaks(c)
             \/ CloseReplaced(c)
      PROVE ConnInv'
  BY <1>3, CheckAddressKeeps, CheckFullKeeps, CheckIpKeeps, TryAddConnectingKeeps, RemoveConnectingKeeps, HandshakeFailsKeeps, HandshakeKeeps, SavePeerKeeps, ReplacePeerKeeps, StartRxKeeps, BreaksKeeps, CloseReplacedKeeps
<1>4. QED
  BY <1>1, <1>2, <1>3 DEF ConnNext

\* In every reachable state the inductive invariant holds.
THEOREM ConnInvariance == ConnSpec => []ConnInv
<1>1. QED
  BY InitInv, StepInv, PTL DEF ConnSpec

\* Whatever attempts there are, and in whatever order they are made, replaced and closed
\* (savePeer, ReplacePeer, removePeer and both Close methods), no record outlives its
\* connection and no open connection is lost sight of.
THEOREM RecordsFollow == ConnSpec => []RecordsFollowConnections
<1>1. ConnInv => RecordsFollowConnections
  BY DEF ConnInv, ShapeInv, PathInv, CloseInv, RecordInv, SeenInv, RecordsFollowConnections, Listed
<1>2. QED
  BY <1>1, ConnInvariance, PTL
=============================================================================
