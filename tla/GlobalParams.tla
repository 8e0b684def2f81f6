----------------------------- MODULE GlobalParams -----------------------------
(***************************************************************************)
(* The global parameter contract (native/global_params): an admin, handed  *)
(* over in two steps, names an operator, who prepares parameter values and *)
(* makes them current by a snapshot.  Other contracts ask it who the       *)
(* operator is.  gp holds the contract's storage.                          *)
(***************************************************************************)
EXTENDS Integers, NativeStorage

CONSTANTS
    GpAddresses,
    GpSigners,      \* the addresses whose holders sign transactions
    GpNames,
    GpValues,
    GpGenesis,      \* the parameters the genesis block sets
    GpGenesisAdmin,
    MaxGpCalls      \* bound on the calls

VARIABLES gp, gpCalls

gpVars == <<gp, gpCalls>>

ADDRESS_EMPTY == "empty"

\* A parameter list, current or prepared.
IsParams(params) ==
    \A n \in DOMAIN params : n \in GpNames /\ params[n] \in GpValues \cup {GpGenesis[n]}

GetStorageRole(role) == gp[role]

\* The holder of a role, if there is one, signs the transaction.
RoleSigns(role) ==
    GetStorageRole(role) # ADDRESS_EMPTY /\ GetStorageRole(role) \in GpSigners

GpCall == gpCalls < MaxGpCalls /\ gpCalls' = gpCalls + 1

\* The genesis block calls it; a second call finds the admin and fails.
ParamInit ==
    /\ GpCall
    /\ GetStorageRole("admin") = ADDRESS_EMPTY
    /\ gp' = [gp EXCEPT !.current = GpGenesis, !.prepare = GpGenesis,
                        !.admin = GpGenesisAdmin, !.operator = GpGenesisAdmin]

TransferAdmin(a) ==
    GpCall /\ RoleSigns("admin") /\ gp' = [gp EXCEPT !.transfer = a]

AcceptAdmin(a) ==
    /\ GpCall
    /\ a \in GpSigners
    /\ GetStorageRole("transfer") = a
    /\ gp' = [gp EXCEPT !.transfer = ADDRESS_EMPTY, !.admin = a]

SetOperator(a) ==
    GpCall /\ RoleSigns("admin") /\ gp' = [gp EXCEPT !.operator = a]

SetGlobalParam(name, value) ==
    /\ GpCall /\ RoleSigns("operator")
    /\ gp' = [gp EXCEPT !.prepare = PutBytes(@, name, value)]

CreateSnapshot ==
    /\ GpCall /\ RoleSigns("operator")
    /\ gp.prepare # Empty
    /\ gp' = [gp EXCEPT !.current = gp.prepare]

GpInit ==
    /\ gp = [current |-> Empty, prepare |-> Empty, admin |-> ADDRESS_EMPTY,
             operator |-> ADDRESS_EMPTY, transfer |-> ADDRESS_EMPTY]
    /\ gpCalls = 0

GpNext ==
    \/ ParamInit
    \/ \E a \in GpAddresses : TransferAdmin(a) \/ AcceptAdmin(a) \/ SetOperator(a)
    \/ \E n \in GpNames, v \in GpValues : SetGlobalParam(n, v)
    \/ CreateSnapshot

GpTypeOK ==
    /\ IsParams(gp.current) /\ IsParams(gp.prepare)
    /\ {gp.admin, gp.operator, gp.transfer} \subseteq GpAddresses \cup {ADDRESS_EMPTY}
    /\ gpCalls \in 0..MaxGpCalls

===============================================================================
