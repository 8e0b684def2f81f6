--------------------------------- MODULE Auth ---------------------------------
(***************************************************************************)
(* The authorization contract (smartcontract/service/native/auth): a       *)
(* contract's admin gives roles functions and persons roles; a person who  *)
(* holds a role permanently may lend it to another for a time.  Signatures *)
(* are checked by the ONT ID contract, so the module composes with OntId:  *)
(* a revoked key or ID loses its say at once.                              *)
(*                                                                         *)
(* The variable auth holds the contract's storage for one client contract, *)
(* authNow the time of the current block.  A call that returns false only  *)
(* logs an event and is no step.                                           *)
(***************************************************************************)
EXTENDS OntId

CONSTANTS
    Roles,
    AuthFuncs,
    AuthPeriods,     \* periods asked for in a delegation
    AuthFuture,      \* the expiry of a permanent token
    AuthBlockTimes,  \* the block times
    MaxAuthCalls     \* bound on the calls

VARIABLES auth, authNow, authCalls

authVars == <<auth, authNow, authCalls>>

\* What is stored: the functions of a role, the permanent tokens of a person,
\* and who lent a person a role until when.
roleFuncs == SUBSET AuthFuncs
roleTokens == SUBSET Roles
DelegateStatus == [root : Ids \cup {None}, expire : Nat]

NoStatus == [root |-> None, expire |-> 0]

getContractAdmin == auth.admin

\* A permanent token has level 2, a lent one level 1.
Permanent(p, role) == role \in auth.tokens[p]

\* Lent, and read as the handlers that change storage read it.
Lent(p, role) ==
    auth.status[p][role].root # None /\ authNow < auth.status[p][role].expire

hasRole(p, role) == Permanent(p, role) \/ Lent(p, role)

getLevel(p, role) ==
    IF Permanent(p, role) THEN 2 ELSE IF Lent(p, role) THEN 1 ELSE 0

TokenExpiry(p, role) ==
    IF Permanent(p, role) THEN AuthFuture ELSE auth.status[p][role].expire

ContainsFunc(role, fn) == fn \in auth.funcs[role]

verifySig(p) == \E i \in 1..MaxIdKeys : verifySignature(p, i)

\* The check other contracts call; a lent role still counts in the block
\* whose time is its expiry.
verifyToken(p, fn) ==
    /\ verifySig(p)
    /\ \E role \in Roles :
          /\ ContainsFunc(role, fn)
          /\ \/ Permanent(p, role) /\ authNow <= AuthFuture
             \/ auth.status[p][role].root # None /\ authNow <= auth.status[p][role].expire

AuthCall == authCalls < MaxAuthCalls /\ authCalls' = authCalls + 1 /\ UNCHANGED authNow

AdminCall == AuthCall /\ getContractAdmin # None /\ verifySig(getContractAdmin)

-------------------------------------------------------------------------------
InitContractAdmin(p) ==
    AuthCall /\ getContractAdmin = None /\ auth' = [auth EXCEPT !.admin = p]

Transfer(p) == AdminCall /\ auth' = [auth EXCEPT !.admin = p]

AssignFuncsToRole(role, fns) ==
    AdminCall /\ auth' = [auth EXCEPT !.funcs[role] = @ \cup fns]

\* A person without any permanent token gets this one; a person with others
\* gets it unless hasRole, which also counts a role on loan.
assignToRole(p, role) ==
    IF auth.tokens[p] = {} \/ ~hasRole(p, role)
    THEN [auth EXCEPT !.tokens[p] = @ \cup {role}]
    ELSE auth

AssignOntIDsToRole(p, role) == AdminCall /\ auth' = assignToRole(p, role)

\* A mutated form: whoever has the role may lend it on.
mayDelegateOnLoan(from, to, role, expire) ==
    /\ hasRole(from, role) /\ ~hasRole(to, role)
    /\ expire <= TokenExpiry(from, role)

\* Level 1 is the only one that can be lent, and only by a holder of level 2.
mayDelegate(from, to, role, expire) ==
    /\ hasRole(from, role) /\ ~hasRole(to, role)
    /\ getLevel(from, role) = 2
    /\ expire < TokenExpiry(from, role)

Delegate(from, to, role, period) ==
    /\ AuthCall
    /\ verifySig(from)
    /\ mayDelegate(from, to, role, authNow + period)
    /\ auth' = [auth EXCEPT !.status[to][role] =
                   [root |-> from, expire |-> authNow + period]]

\* The lender takes the loan back, while the lender still has the role.
Withdraw(initiator, p, role) ==
    /\ AuthCall
    /\ verifySig(initiator)
    /\ hasRole(initiator, role)
    /\ auth.status[p][role].root = initiator
    /\ auth' = [auth EXCEPT !.status[p][role] = NoStatus]

AuthNextBlock(t) ==
    t > authNow /\ authNow' = t /\ UNCHANGED <<auth, authCalls>>

AuthInit ==
    /\ auth = [admin |-> None,
               funcs |-> [r \in Roles |-> {}],
               tokens |-> [p \in Ids |-> {}],
               status |-> [p \in Ids |-> [r \in Roles |-> NoStatus]]]
    /\ authNow = 0
    /\ authCalls = 0

AuthStep ==
    \/ \E p \in Ids : InitContractAdmin(p) \/ Transfer(p)
    \/ \E role \in Roles :
          \/ \E fn \in AuthFuncs : AssignFuncsToRole(role, {fn})
          \/ \E p \in Ids : AssignOntIDsToRole(p, role)
          \/ \E from, to \in Ids :
                \/ \E period \in AuthPeriods : Delegate(from, to, role, period)
                \/ Withdraw(from, to, role)
    \/ \E t \in AuthBlockTimes : AuthNextBlock(t)

-------------------------------------------------------------------------------
AuthTypeOK ==
    /\ auth \in [admin : Ids \cup {None}, funcs : [Roles -> roleFuncs], tokens : [Ids -> roleTokens],
                 status : [Ids -> [Roles -> DelegateStatus]]]
    /\ authNow \in AuthBlockTimes \cup {0} /\ authCalls \in 0..MaxAuthCalls

\* verifyToken lets a person call a function only if the contract's admin
\* gave some role the function, and that person, or the lender of that
\* person's unexpired loan, the role: no order of calls opens another way.
AccessIsAssigned ==
    \A p \in Ids, fn \in AuthFuncs :
        verifyToken(p, fn) =>
            \E role \in Roles, holder \in Ids :
                /\ fn \in auth.funcs[role]
                /\ role \in auth.tokens[holder]
                /\ holder = p \/ auth.status[p][role].root = holder
===============================================================================
