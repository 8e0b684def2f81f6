-------------------------------- MODULE OntId --------------------------------
(***************************************************************************)
(* The ONT ID contract (smartcontract/service/native/ontid): decentralised *)
(* identifiers, their public keys, recovery, controller, attributes,       *)
(* services and contexts.                                                  *)
(*                                                                         *)
(* The variable did holds what the contract stores per ID, one field per   *)
(* storage field of utils.go.  idUpgraded says that the block height has   *)
(* reached config.GetNewOntIdHeight().  A handler that returns an error    *)
(* changes nothing (the transaction's cache is dropped), so only the       *)
(* successful calls are steps.  The time stamps are abstracted to their    *)
(* presence; a key's controller and isPkList, which only the queries       *)
(* print, are left out.                                                    *)
(***************************************************************************)
EXTENDS Integers, Sequences, FiniteSets, LinkedList

CONSTANTS
    Ids,            \* the ONT IDs
    IdKeys,         \* public keys
    IdAddresses,    \* addresses that are no key of an ID (old recovery)
    IdSigners,      \* the keys and addresses whose holders sign transactions
    IdGroups,       \* the groups offered as recovery or controller
    IdAttributes,   \* lists of attribute keys given to the attribute calls
    IdAttributeKeys,
    IdServices,
    IdEndpoints,
    IdContexts,
    MaxIdKeys,      \* OWNER_TOTAL_SIZE, as a number of keys
    MAX_NUM,        \* attributes of one ID
    MaxIdCalls      \* bound on the calls

VARIABLES did, idUpgraded, idCalls

idVars == <<did, idUpgraded, idCalls>>

None == "none"

\* A stored key; its index is its place in the list.
publicKey == [key : IdKeys, revoked : BOOLEAN, auth : BOOLEAN]

Blank == [flag |-> "not_exist", pk |-> <<>>, attr |-> EmptyList,
          recovery |-> [kind |-> None], controller |-> [kind |-> None],
          service |-> Empty, context |-> {}, created |-> FALSE, updated |-> FALSE]

\* A first key of an ID that was registered before the model starts.
Registered(key) ==
    [Blank EXCEPT !.flag = "valid",
                  !.pk = <<[key |-> key, revoked |-> FALSE, auth |-> TRUE]>>]

-------------------------------------------------------------------------------
(* Reads and checks *)

checkIDState(id) == did[id].flag

isValid(id) == checkIDState(id) = "valid"

\* A transaction carries the signatures its sender can make.
checkWitness(key) == key \in IdSigners

getPk(id, i) == i \in DOMAIN did[id].pk

checkWitnessWithoutAuth(id, i) ==
    /\ getPk(id, i)
    /\ ~did[id].pk[i].revoked
    /\ checkWitness(did[id].pk[i].key)

checkWitnessByIndex(id, i) ==
    /\ checkWitnessWithoutAuth(id, i)
    /\ did[id].pk[i].auth

findPk(id, key) == {i \in DOMAIN did[id].pk : did[id].pk[i].key = key}

isOwner(id, key) ==
    \E i \in findPk(id, key) : did[id].pk[i].auth /\ ~did[id].pk[i].revoked

getOldRecovery(id, key) ==
    did[id].recovery.kind = "old" /\ did[id].recovery.address = key

getRecovery(id) == did[id].recovery.kind = "group"

\* A member of a group is an ID or a group.
findSigner(id, signers) == id \in signers

RECURSIVE verifyThreshold(_, _)
verifyThreshold(g, signers) ==
    LET signed == {i \in DOMAIN g.members :
                       LET m == g.members[i]
                       IN IF m.kind = "id" THEN findSigner(m.id, signers)
                          ELSE verifyThreshold(m.group, signers)}
    IN Cardinality(signed) >= g.threshold

\* Every named signer signs with a key that may authenticate.
verifyGroupSignature(g, signers) ==
    /\ verifyThreshold(g, signers)
    /\ \A s \in signers : \E i \in 1..MaxIdKeys : checkWitnessByIndex(s, i)

RECURSIVE validateMembers(_)
validateMembers(g) ==
    \A i \in DOMAIN g.members :
        LET m == g.members[i]
        IN IF m.kind = "id" THEN isValid(m.id) /\ getPk(m.id, 1)
           ELSE validateMembers(m.group)

verifySingleController(id) == \E i \in 1..MaxIdKeys : checkWitnessByIndex(id, i)

verifyGroupController(g) == \E signers \in SUBSET Ids : verifyGroupSignature(g, signers)

VerifyAs(controller) ==
    CASE controller.kind = "id" -> verifySingleController(controller.id)
      [] controller.kind = "group" -> verifyGroupController(controller.group)
      [] OTHER -> FALSE

getController(id) == did[id].controller

verifyControllerSignature(id) == VerifyAs(getController(id))

\* Who may act for an ID: the key named by the caller, a key index, the
\* deprecated recovery address, the recovery group.
ByOwner(id) == \E op \in IdKeys : checkWitness(op) /\ isOwner(id, op)

ByIndex(id) == \E i \in 1..MaxIdKeys : checkWitnessByIndex(id, i)

ByOldRecovery(id) ==
    \E op \in IdKeys \cup IdAddresses : checkWitness(op) /\ getOldRecovery(id, op)

ByRecovery(id) == getRecovery(id) /\ verifyGroupController(did[id].recovery.group)

verifySignature(id, i) == isValid(id) /\ checkWitnessWithoutAuth(id, i)

verifyController(id) == isValid(id) /\ verifyControllerSignature(id)

-------------------------------------------------------------------------------
(* Writes *)

CountCall == idCalls < MaxIdCalls /\ idCalls' = idCalls + 1 /\ UNCHANGED idUpgraded

\* The handlers that exist only from the new height on.
Upgraded == idUpgraded

\* updateTimeAndClearProof and createTimeAndClearProof write from the new
\* height on.
updateTime(record) == [record EXCEPT !.updated = @ \/ idUpgraded]

createTime(record) == [record EXCEPT !.created = @ \/ idUpgraded]

Store(id, record) == did' = [did EXCEPT ![id] = record]

Update(id, record) == Store(id, updateTime(record))

\* A call on a registered ID.
Call(id) == CountCall /\ isValid(id)

canInsertPk(id, key) == findPk(id, key) = {} /\ Len(did[id].pk) < MaxIdKeys

\* Before the new height no flag is stored, and a stored key reads as one
\* that may authenticate.
insertPk(record, key, auth) ==
    [record EXCEPT !.pk =
        Append(@, [key |-> key, revoked |-> FALSE, auth |-> auth \/ ~idUpgraded])]

InsertKey(id, key, auth) ==
    canInsertPk(id, key) /\ Update(id, insertPk(did[id], key, auth))

\* A mutated form: the key is taken out of the list.
revokePkByIndexDrops(id, i) ==
    /\ getPk(id, i)
    /\ ~did[id].pk[i].revoked
    /\ Update(id, [did[id] EXCEPT !.pk = SubSeq(@, 1, i - 1) \o SubSeq(@, i + 1, Len(@))])

revokePkByIndex(id, i) ==
    /\ getPk(id, i)
    /\ ~did[id].pk[i].revoked
    /\ Update(id, [did[id] EXCEPT !.pk[i].revoked = TRUE])

revokePk(id, key) == \E i \in findPk(id, key) : revokePkByIndex(id, i)

changePkAuthentication(id, i, auth) ==
    /\ getPk(id, i)
    /\ ~did[id].pk[i].revoked
    /\ Update(id, [did[id] EXCEPT !.pk[i].auth = auth])

RECURSIVE insertAll(_, _)
insertAll(list, attrs) ==
    IF attrs = <<>> THEN list
    ELSE insertAll(LinkedlistInsert(list, Head(attrs), TRUE), Tail(attrs))

\* The count is taken after the inserts; too many undo the call.
batchInsertAttr(record, attrs) == [record EXCEPT !.attr = insertAll(@, attrs)]

attrsFit(record) == LinkedlistGetNumOfItems(record.attr) <= MAX_NUM

InsertAttrs(id, attrs) ==
    LET record == batchInsertAttr(did[id], attrs)
    IN attrsFit(record) /\ Update(id, record)

deleteAttr(id, path) ==
    /\ LinkedlistGetItem(did[id].attr, path)
    /\ Update(id, [did[id] EXCEPT !.attr = LinkedlistDelete(@, path)])

deleteAllAttr(record) == [record EXCEPT !.attr = LinkedlistDeleteAll(@)]

\* A mutated form: the recovery of the ID is left behind.
deleteIDKeepsRecovery(id) ==
    Store(id, [deleteAllAttr(did[id]) EXCEPT
                   !.pk = <<>>, !.controller = [kind |-> None],
                   !.service = Empty, !.context = {}, !.created = FALSE,
                   !.updated = FALSE, !.flag = "revoke"])

\* Before the new height the fields that came with it are not touched.
deleteID(id) ==
    LET record == [deleteAllAttr(did[id]) EXCEPT
                       !.pk = <<>>, !.controller = [kind |-> None],
                       !.recovery = [kind |-> None], !.flag = "revoke"]
    IN Store(id, IF idUpgraded
                 THEN [record EXCEPT !.service = Empty, !.context = {},
                                     !.created = FALSE, !.updated = FALSE]
                 ELSE record)

putRecovery(id, g) ==
    /\ validateMembers(g)
    /\ Update(id, [did[id] EXCEPT !.recovery = [kind |-> "group", group |-> g]])

\* The deprecated calls leave the time of the update alone.
setOldRecovery(id, address) ==
    Store(id, [did[id] EXCEPT !.recovery = [kind |-> "old", address |-> address]])

storeServices(id, services) == Update(id, [did[id] EXCEPT !.service = services])

storeContexts(id, contexts) == Update(id, [did[id] EXCEPT !.context = contexts])

-------------------------------------------------------------------------------
(* Registration and revocation *)

regIdWithPublicKey(id, key) ==
    /\ CountCall
    /\ checkIDState(id) = "not_exist"
    /\ checkWitness(key)
    /\ Store(id, createTime(insertPk([did[id] EXCEPT !.flag = "valid"], key, TRUE)))

\* The first key of such an ID may not authenticate from the new height on.
regIdWithAttributes(id, key, attrs) ==
    /\ CountCall
    /\ checkIDState(id) = "not_exist"
    /\ checkWitness(key)
    /\ LET record == batchInsertAttr(insertPk(did[id], key, FALSE), attrs)
       IN /\ attrsFit(record)
          /\ Store(id, createTime([record EXCEPT !.flag = "valid"]))

regIdWithController(id, controller) ==
    /\ CountCall
    /\ checkIDState(id) = "not_exist"
    /\ VerifyAs(controller)
    /\ Store(id, createTime([did[id] EXCEPT !.flag = "valid",
                                            !.controller = controller]))

revokeID(id) == Call(id) /\ ByIndex(id) /\ deleteID(id)

revokeIDByController(id) ==
    Call(id) /\ verifyControllerSignature(id) /\ deleteID(id)

removeController(id) ==
    /\ Call(id) /\ ByIndex(id)
    /\ Update(id, [did[id] EXCEPT !.controller = [kind |-> None]])

-------------------------------------------------------------------------------
(* Keys *)

addKey(id, key) ==
    Call(id) /\ (ByOwner(id) \/ ByOldRecovery(id)) /\ InsertKey(id, key, FALSE)

addKeyByIndex(id, key) ==
    Upgraded /\ Call(id) /\ ByIndex(id) /\ InsertKey(id, key, FALSE)

addKeyByController(id, key) ==
    Call(id) /\ verifyControllerSignature(id) /\ InsertKey(id, key, FALSE)

addKeyByRecovery(id, key) ==
    Call(id) /\ ByRecovery(id) /\ InsertKey(id, key, FALSE)

removeKey(id, key) ==
    Call(id) /\ (ByOwner(id) \/ ByOldRecovery(id)) /\ revokePk(id, key)

removeKeyByIndex(id, key) ==
    Upgraded /\ Call(id) /\ ByIndex(id) /\ revokePk(id, key)

removeKeyByController(id, i) ==
    Call(id) /\ verifyControllerSignature(id) /\ revokePkByIndex(id, i)

removeKeyByRecovery(id, i) ==
    Call(id) /\ ByRecovery(id) /\ revokePkByIndex(id, i)

addNewAuthKey(id, key) ==
    Upgraded /\ Call(id) /\ ByIndex(id) /\ InsertKey(id, key, TRUE)

addNewAuthKeyByRecovery(id, key) ==
    Upgraded /\ Call(id) /\ ByRecovery(id) /\ InsertKey(id, key, TRUE)

addNewAuthKeyByController(id, key) ==
    Upgraded /\ Call(id) /\ verifyControllerSignature(id) /\ InsertKey(id, key, TRUE)

setAuthKey(id, i) ==
    Upgraded /\ Call(id) /\ ByIndex(id) /\ changePkAuthentication(id, i, TRUE)

setAuthKeyByRecovery(id, i) ==
    Upgraded /\ Call(id) /\ ByRecovery(id) /\ changePkAuthentication(id, i, TRUE)

setAuthKeyByController(id, i) ==
    /\ Upgraded /\ Call(id) /\ verifyControllerSignature(id)
    /\ changePkAuthentication(id, i, TRUE)

removeAuthKey(id, i) ==
    Upgraded /\ Call(id) /\ ByIndex(id) /\ changePkAuthentication(id, i, FALSE)

removeAuthKeyByRecovery(id, i) ==
    Upgraded /\ Call(id) /\ ByRecovery(id) /\ changePkAuthentication(id, i, FALSE)

removeAuthKeyByController(id, i) ==
    /\ Upgraded /\ Call(id) /\ verifyControllerSignature(id)
    /\ changePkAuthentication(id, i, FALSE)

-------------------------------------------------------------------------------
(* Recovery.  The deprecated address and the group share one storage field *)

\* Only a recovery of its own kind stops a call that sets one.
setRecovery(id, g) ==
    Call(id) /\ ByIndex(id) /\ ~getRecovery(id) /\ putRecovery(id, g)

updateRecovery(id, g) == Call(id) /\ ByRecovery(id) /\ putRecovery(id, g)

removeRecovery(id) ==
    /\ Upgraded /\ Call(id) /\ ByIndex(id)
    /\ Update(id, [did[id] EXCEPT !.recovery = [kind |-> None]])

addRecovery(id, address) ==
    /\ Call(id) /\ ByOwner(id)
    /\ did[id].recovery.kind # "old"
    /\ setOldRecovery(id, address)

changeRecovery(id, address) ==
    Call(id) /\ ByOldRecovery(id) /\ setOldRecovery(id, address)

-------------------------------------------------------------------------------
(* Attributes, services, contexts *)

addAttributes(id, attrs) == Call(id) /\ ByOwner(id) /\ InsertAttrs(id, attrs)

addAttributesByIndex(id, attrs) ==
    Upgraded /\ Call(id) /\ ByIndex(id) /\ InsertAttrs(id, attrs)

addAttributesByController(id, attrs) ==
    Call(id) /\ verifyControllerSignature(id) /\ InsertAttrs(id, attrs)

removeAttribute(id, path) == Call(id) /\ ByOwner(id) /\ deleteAttr(id, path)

removeAttributeByIndex(id, path) ==
    Upgraded /\ Call(id) /\ ByIndex(id) /\ deleteAttr(id, path)

removeAttributeByController(id, path) ==
    Call(id) /\ verifyControllerSignature(id) /\ deleteAttr(id, path)

checkServiceExist(id, s) == s \in DOMAIN did[id].service

addService(id, s, endpoint) ==
    /\ Upgraded /\ Call(id) /\ ByIndex(id)
    /\ ~checkServiceExist(id, s)
    /\ storeServices(id, PutBytes(did[id].service, s, endpoint))

updateService(id, s, endpoint) ==
    /\ Upgraded /\ Call(id) /\ ByIndex(id)
    /\ checkServiceExist(id, s)
    /\ storeServices(id, PutBytes(did[id].service, s, endpoint))

removeService(id, s) ==
    /\ Upgraded /\ Call(id) /\ ByIndex(id)
    /\ checkServiceExist(id, s)
    /\ storeServices(id, Delete(did[id].service, s))

addContext(id, contexts) ==
    /\ Upgraded /\ Call(id) /\ ByIndex(id)
    /\ storeContexts(id, did[id].context \cup contexts)

removeContext(id, contexts) ==
    /\ Upgraded /\ Call(id) /\ ByIndex(id)
    /\ storeContexts(id, did[id].context \ contexts)

\* The chain reaches the height of the new ONT ID contract.
ReachNewOntIdHeight ==
    ~idUpgraded /\ idUpgraded' = TRUE /\ UNCHANGED <<did, idCalls>>

-------------------------------------------------------------------------------
IdInit(start) == did = start /\ idUpgraded = FALSE /\ idCalls = 0

Controllers == {[kind |-> "id", id |-> x] : x \in Ids}
                   \cup {[kind |-> "group", group |-> g] : g \in IdGroups}

IdKeyCalls(id) ==
    \/ \E key \in IdKeys :
          \/ regIdWithPublicKey(id, key) \/ addKey(id, key) \/ addKeyByIndex(id, key)
          \/ addKeyByController(id, key) \/ addKeyByRecovery(id, key)
          \/ removeKey(id, key) \/ removeKeyByIndex(id, key)
          \/ addNewAuthKey(id, key) \/ addNewAuthKeyByRecovery(id, key)
          \/ addNewAuthKeyByController(id, key)
    \/ \E i \in 1..MaxIdKeys :
          \/ removeKeyByController(id, i) \/ removeKeyByRecovery(id, i)
          \/ setAuthKey(id, i) \/ setAuthKeyByRecovery(id, i)
          \/ setAuthKeyByController(id, i) \/ removeAuthKey(id, i)
          \/ removeAuthKeyByRecovery(id, i) \/ removeAuthKeyByController(id, i)

IdDocumentCalls(id) ==
    \/ \E attrs \in IdAttributes :
          \/ addAttributes(id, attrs) \/ addAttributesByIndex(id, attrs)
          \/ addAttributesByController(id, attrs)
          \/ \E key \in IdKeys : regIdWithAttributes(id, key, attrs)
    \/ \E path \in IdAttributeKeys :
          \/ removeAttribute(id, path) \/ removeAttributeByIndex(id, path)
          \/ removeAttributeByController(id, path)
    \/ \E s \in IdServices :
          \/ removeService(id, s)
          \/ \E e \in IdEndpoints : addService(id, s, e) \/ updateService(id, s, e)
    \/ \E contexts \in SUBSET IdContexts :
          addContext(id, contexts) \/ removeContext(id, contexts)

IdControlCalls(id) ==
    \/ \E c \in Controllers : regIdWithController(id, c)
    \/ revokeID(id) \/ revokeIDByController(id) \/ removeController(id)
    \/ \E g \in IdGroups : setRecovery(id, g) \/ updateRecovery(id, g)
    \/ removeRecovery(id)
    \/ \E address \in IdAddresses : addRecovery(id, address) \/ changeRecovery(id, address)

IdNext ==
    \/ \E id \in Ids : IdKeyCalls(id) \/ IdDocumentCalls(id) \/ IdControlCalls(id)
    \/ ReachNewOntIdHeight

-------------------------------------------------------------------------------
(* Properties *)

IdTypeOK ==
    /\ idUpgraded \in BOOLEAN /\ idCalls \in 0..MaxIdCalls
    /\ \A id \in Ids :
          /\ did[id].flag \in {"not_exist", "valid", "revoke"}
          /\ did[id].pk \in Seq(publicKey)
          /\ did[id].recovery.kind \in {None, "old", "group"}
          /\ did[id].controller \in Controllers \cup {[kind |-> None]}
          /\ DOMAIN did[id].attr.node \subseteq IdAttributeKeys
          /\ DOMAIN did[id].service \subseteq IdServices
          /\ did[id].context \subseteq IdContexts

\* Nothing of a revoked ID is left: no key, recovery, controller, attribute,
\* service, context or time stamp, whatever it had and whichever side of the
\* upgrade it was revoked on (deleteID).  For that the attribute list of every
\* ID has to stay a doubly linked list whose walk from the head meets every
\* stored node, whatever calls inserted, replaced and deleted attributes
\* (LinkedlistInsert, LinkedlistDelete): a node off the walk would survive.
RevokedIsEmpty ==
    \A id \in Ids :
        /\ WellLinked(did[id].attr)
        /\ did[id].flag = "revoke" => did[id] = [Blank EXCEPT !.flag = "revoke"]

\* Other contracts and the ID's own documents name keys by index: while an ID
\* lives an index keeps naming the same key, and a revoked key stays revoked
\* (insertPk, revokePk, revokePkByIndex, changePkAuthentication).
KeyIndexStable ==
    [][\A id \in Ids :
          did[id].flag = "valid" /\ did'[id].flag = "valid" =>
              \A i \in DOMAIN did[id].pk :
                  /\ i \in DOMAIN did'[id].pk
                  /\ did'[id].pk[i].key = did[id].pk[i].key
                  /\ did[id].pk[i].revoked => did'[id].pk[i].revoked]_idVars
===============================================================================
