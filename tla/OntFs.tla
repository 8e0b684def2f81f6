------------------------------- MODULE OntFs -------------------------------
(***************************************************************************)
(* The file storage contract, smartcontract/service/native/ontfs: storage  *)
(* nodes that pledge ONG, file owners that pay for files or for space,     *)
(* proofs, challenges, and readers that pledge for the blocks they read.   *)
(*                                                                         *)
(* fs is the contract's storage together with the ONG accounts it moves.   *)
(* A handler that returns an error leaves it unchanged, so its conditions  *)
(* are guards; the handlers that take a list log an error of an item and   *)
(* go on, and are modelled on lists of one item.  The ValidFlag the getters*)
(* clear is the comparison they clear it by: once a file or a space has    *)
(* expired nothing moves its expiry.                                       *)
(***************************************************************************)
EXTENDS Integers, FiniteSets, FiniteSetsExt, SequencesExt, NativeStorage

CONSTANTS FsOwners,        \* addresses of owners, payers and readers
          FsNodes,         \* addresses of storage nodes, numbers in the order of their keys
          FsContract,      \* the contract's own address
          FsHashes,        \* hashes of files
          Hour,            \* time units of an hour
          DefaultPerBlockSize,
          FsParams,        \* global parameters that may be set
          FsDefaultParam,  \* the defaults that hold until then
          FsVolumes,       \* volumes asked for
          FsCopies,        \* copy numbers asked for
          FsServiceTimes, FsExpiries,   \* service times and expiries asked for
          FsRegistered,    \* nodes that have registered, with FsRegisteredVolume, before the behaviour starts
          FsRegisteredVolume,
          FsStartOng,      \* ONG of each owner and node
          FsBlockTimes,    \* timestamps of blocks
          MaxFsCalls

\* A first and a last proof are paid for each copy, and the contract does not count the
\* nodes that prove a file: the owners of the model ask for as many copies as there are nodes.
ASSUME FsAssumption ==
    /\ FsNodes \subseteq Nat /\ Hour \in Nat \ {0} /\ DefaultPerBlockSize \in Nat \ {0}
    /\ \A c \in FsCopies : c >= Cardinality(FsNodes)
    /\ \A g \in FsParams \cup {FsDefaultParam} : g.FilePerServerPdpTimes >= 2

VARIABLES fs, fsParam, fsNow, fsCalls
fsVars == <<fs, fsParam, fsNow, fsCalls>>

FsCall == fsCalls < MaxFsCalls /\ fsCalls' = fsCalls + 1

---------------------------------------------------------------------------
\* The stored records, less the fields that only queries and proofs read

FsGlobalParam == [MinTimeForFileStorage : Nat, ContractInvokeGasFee : Nat, ChallengeReward : Nat,
                  FilePerServerPdpTimes : Nat, ChallengeInterval : Nat, NodeMinVolume : Nat,
                  NodePerKbPledge : Nat, FeePerBlockForRead : Nat, FilePerBlockFeeRate : Nat,
                  SpacePerBlockFeeRate : Nat]
FsNodeInfo == [Pledge : Nat, Profit : Nat, Volume : Nat, RestVol : Nat, ServiceTime : Nat]
SpaceInfo == [Volume : Nat, RestVol : Nat, CopyNumber : Nat, PayAmount : Nat, RestAmount : Nat,
              TimeStart : Nat, TimeExpired : Nat, CurrFeeRate : Nat]
FileInfo == [FileBlockCount : Nat, CopyNumber : Nat, PayAmount : Nat, RestAmount : Nat, TimeStart : Nat,
             TimeExpired : Nat, CurrFeeRate : Nat, StorageType : {"UseSpace", "UseFile"}]
PdpRecord == BOOLEAN           \* its SettleFlag
Challenge == [FileOwner : FsOwners, Reward : Nat, ExpiredTime : Nat,
              State : {"Judged", "NoReplyAndValid", "NoReplyAndExpire", "RepliedAndSuccess",
                       "RepliedButVerifyError"}]
ReadPlan == [MaxReadBlockNum : Nat, HaveReadBlockNum : Nat, NumOfSettlements : Nat]
IsReadPledge(p) ==
    p.RestMoney \in Nat /\ \A n \in DOMAIN p.ReadPlans : n \in FsNodes /\ p.ReadPlans[n] \in ReadPlan

---------------------------------------------------------------------------
\* Times, volumes and fees

formatTimeToHour(time) == time - (time % Hour)
formatVolumeToBlock(volume) == volume - (volume % DefaultPerBlockSize)
Hours(from, to) == (formatTimeToHour(to) - formatTimeToHour(from)) \div Hour

fileSize(f) == f.FileBlockCount * DefaultPerBlockSize

\* What one node earns for a file until dataClosing.
calcFileModePerServerProfit(dataClosing, f) ==
    Max({0, Hours(f.TimeStart, Min({dataClosing, f.TimeExpired}))}) * f.FileBlockCount * f.CurrFeeRate

\* In a space the node earns until the space expires, at the least.
calcSpaceModePerServerProfit(dataClosing, spaceExpired, f) ==
    IF formatTimeToHour(dataClosing) <= formatTimeToHour(f.TimeStart) THEN 0
    ELSE Hours(f.TimeStart, Max({dataClosing, spaceExpired})) * f.FileBlockCount * f.CurrFeeRate

calcTotalPayAmountWithFile(f) ==
    Max({0, Hours(f.TimeStart, f.TimeExpired)}) * f.CopyNumber * f.FileBlockCount * f.CurrFeeRate

calcTotalPayAmountWithSpace(s) ==
    Max({0, Hours(s.TimeStart, s.TimeExpired)}) * s.CopyNumber * (s.Volume \div DefaultPerBlockSize) * s.CurrFeeRate

---------------------------------------------------------------------------
\* The contract's records

\* ONG moves only when the payer has it.
CanPay(st, from, amount) == st.ong[from] >= amount
appCallTransfer(st, from, to, amount) ==
    [st EXCEPT !.ong = [[@ EXCEPT ![from] = @ - amount] EXCEPT ![to] = @ + amount]]

PutNode(st, n, info)    == [st EXCEPT !.node = PutBytes(@, n, info)]
PutSpace(st, o, info)   == [st EXCEPT !.space = PutBytes(@, o, info)]
PutFile(st, o, h, info) == [st EXCEPT !.file = PutBytes(@, <<o, h>>, info)]
addPdpRecord(st, h, o, n, settled) == [st EXCEPT !.pdp = PutBytes(@, <<h, o, n>>, settled)]
addChallenge(st, n, h, c) == [st EXCEPT !.challenge = PutBytes(@, <<n, h>>, c)]

spaceValid(o) == fsNow <= fs.space[o].TimeExpired

\* A file in a space expires with the space.
getFileInfoFromDb(o, h) ==
    LET f == fs.file[<<o, h>>]
    IN IF f.StorageType = "UseSpace" /\ GetStorageItem(fs.space, o)
       THEN [f EXCEPT !.TimeExpired = fs.space[o].TimeExpired] ELSE f

fileValid(o, h) ==
    /\ fs.file[<<o, h>>].StorageType = "UseSpace" => GetStorageItem(fs.space, o)
    /\ fsNow <= getFileInfoFromDb(o, h).TimeExpired

\* getFileInfoByHash goes through the owner that is recorded for the hash.
getFileOwner(h) == fs.owner[h]
FileByHash(h) == GetStorageItem(fs.owner, h) /\ GetStorageItem(fs.file, <<getFileOwner(h), h>>)

ProversOf(st, h, o) == {n \in FsNodes : GetStorageItem(st.pdp, <<h, o, n>>)}
getPdpRecordList(st, h, o) == SetToSortSeq(ProversOf(st, h, o), <)

\* A challenge nobody answered in time reads as expired.
getChallenge(st, n, h) ==
    LET c == st.challenge[<<n, h>>]
    IN IF c.State = "NoReplyAndValid" /\ c.ExpiredTime < fsNow
       THEN [c EXCEPT !.State = "NoReplyAndExpire"] ELSE c

---------------------------------------------------------------------------
\* Deleting a file, which several handlers do

RefundDue(st, n, h) ==
    IF GetStorageItem(st.challenge, <<n, h>>)
       /\ getChallenge(st, n, h).State \in {"NoReplyAndValid", "NoReplyAndExpire"}
    THEN st.challenge[<<n, h>>].Reward ELSE 0

deleteChallenge(st, n, h, o) ==
    [appCallTransfer(st, FsContract, o, RefundDue(st, n, h)) EXCEPT
        !.challenge = Delete(@, <<n, h>>)]

\* The step of deleteFile's loop for one node; r.st is the storage and r.rest the
\* RestAmount of the file, which is not stored.
SettleNode(o, h, f, r, n) ==
    LET st == deleteChallenge(r.st, n, h, o)
        inSpace == f.StorageType = "UseSpace"
        profit == IF inSpace THEN calcSpaceModePerServerProfit(fsNow, st.space[o].TimeExpired, f)
                  ELSE calcFileModePerServerProfit(fsNow, f)
        rest == IF inSpace THEN st.space[o].RestAmount ELSE r.rest
        paid == PutNode(st, n, [st.node[n] EXCEPT !.Profit = @ + profit, !.RestVol = @ + fileSize(f)])
    IN CASE ~CanPay(r.st, FsContract, RefundDue(r.st, n, h)) -> r
         [] \/ st.pdp[<<h, o, n>>] \/ ~GetStorageItem(st.node, n)
            \/ inSpace /\ ~GetStorageItem(st.space, o)
            \/ rest < profit -> [r EXCEPT !.st = st]
         [] inSpace -> [r EXCEPT !.st = PutSpace(paid, o, [st.space[o] EXCEPT !.RestAmount = @ - profit])]
         [] OTHER -> [st |-> paid, rest |-> r.rest - profit]

Forget(st, o, h) ==
    [st EXCEPT !.file = Delete(@, <<o, h>>), !.owner = Delete(@, h),
               !.pdp = DeleteAll(@, {<<h, o, n>> : n \in FsNodes})]

deleteFile(st, o, h, f) ==
    LET r == FoldLeft(LAMBDA acc, n : SettleNode(o, h, f, acc, n), [st |-> st, rest |-> f.RestAmount],
                      getPdpRecordList(st, h, o))
    IN IF f.StorageType = "UseSpace"
       THEN IF GetStorageItem(r.st.space, o)
            THEN [ok |-> TRUE, st |-> Forget(PutSpace(r.st, o, [r.st.space[o] EXCEPT !.RestVol = @ + fileSize(f)]), o, h)]
            ELSE [ok |-> FALSE, st |-> r.st]
       ELSE IF CanPay(r.st, FsContract, r.rest)
            THEN [ok |-> TRUE, st |-> Forget(appCallTransfer(r.st, FsContract, o, r.rest), o, h)]
            ELSE [ok |-> FALSE, st |-> r.st]

---------------------------------------------------------------------------
\* Nodes

NewNode(volume, service) ==
    [Volume |-> volume, RestVol |-> volume, Pledge |-> fsParam.NodePerKbPledge * volume, Profit |-> 0,
     ServiceTime |-> service]

FsNodeRegister(n, volume, service) ==
    LET pledge == fsParam.NodePerKbPledge * volume
    IN /\ FsCall
       /\ ~GetStorageItem(fs.node, n)
       /\ service >= fsNow
       /\ volume >= fsParam.NodeMinVolume
       /\ CanPay(fs, n, pledge)
       /\ fs' = PutNode(appCallTransfer(fs, n, FsContract, pledge), n, NewNode(volume, service))
       /\ UNCHANGED <<fsParam, fsNow>>

FsNodeUpdate(n, volume, service) ==
    LET old == fs.node[n]
        pledge == fsParam.NodePerKbPledge * volume
        back == pledge < old.Pledge
        amount == IF back THEN old.Pledge - pledge ELSE pledge - old.Pledge
        from == IF back THEN FsContract ELSE n
        to == IF back THEN n ELSE FsContract
    IN /\ FsCall
       /\ GetStorageItem(fs.node, n)
       /\ service >= fsNow
       /\ volume >= fsParam.NodeMinVolume
       /\ old.RestVol <= old.Volume          \* else the unsigned difference is huge
       /\ volume >= old.Volume - old.RestVol
       /\ CanPay(fs, from, amount)
       /\ fs' = PutNode(appCallTransfer(fs, from, to, amount), n,
                        [old EXCEPT !.Volume = volume, !.RestVol = @ + (volume - old.Volume),
                                    !.Pledge = pledge, !.ServiceTime = service])
       /\ UNCHANGED <<fsParam, fsNow>>

FsNodeCancel(n) ==
    LET amount == fs.node[n].Pledge + fs.node[n].Profit
    IN /\ FsCall
       /\ GetStorageItem(fs.node, n)
       /\ fsNow >= fs.node[n].ServiceTime
       /\ CanPay(fs, FsContract, amount)
       /\ fs' = [appCallTransfer(fs, FsContract, n, amount) EXCEPT !.node = Delete(@, n)]
       /\ UNCHANGED <<fsParam, fsNow>>

FsNodeWithdrawProfit(n) ==
    /\ FsCall
    /\ GetStorageItem(fs.node, n)
    /\ fs.node[n].Profit > 0
    /\ CanPay(fs, FsContract, fs.node[n].Profit)
    /\ fs' = PutNode(appCallTransfer(fs, FsContract, n, fs.node[n].Profit), n,
                     [fs.node[n] EXCEPT !.Profit = 0])
    /\ UNCHANGED <<fsParam, fsNow>>

---------------------------------------------------------------------------
\* Spaces

FsCreateSpace(o, volume, copies, expired) ==
    LET v == formatVolumeToBlock(volume)
        unpaid == [Volume |-> v, RestVol |-> v, CopyNumber |-> copies, PayAmount |-> 0, RestAmount |-> 0,
                   TimeStart |-> fsNow, TimeExpired |-> formatTimeToHour(expired),
                   CurrFeeRate |-> fsParam.SpacePerBlockFeeRate]
        pay == calcTotalPayAmountWithSpace(unpaid)
    IN /\ FsCall
       /\ ~GetStorageItem(fs.space, o)
       /\ expired >= fsNow + fsParam.MinTimeForFileStorage
       /\ volume >= DefaultPerBlockSize
       /\ CanPay(fs, o, pay)
       /\ fs' = PutSpace(appCallTransfer(fs, o, FsContract, pay), o,
                         [unpaid EXCEPT !.PayAmount = pay, !.RestAmount = pay])
       /\ UNCHANGED <<fsParam, fsNow>>

FsDeleteSpace(o) ==
    /\ FsCall
    /\ GetStorageItem(fs.space, o)
    /\ fs.space[o].Volume = fs.space[o].RestVol
    /\ CanPay(fs, FsContract, fs.space[o].RestAmount)
    /\ fs' = [appCallTransfer(fs, FsContract, o, fs.space[o].RestAmount) EXCEPT !.space = Delete(@, o)]
    /\ UNCHANGED <<fsParam, fsNow>>

\* Zero means that the volume, or the time, stays.
FsUpdateSpace(payer, o, newVolume, newExpired) ==
    LET old == fs.space[o]
        v == IF formatVolumeToBlock(newVolume) = 0 THEN old.Volume ELSE formatVolumeToBlock(newVolume)
        used == old.Volume - old.RestVol
        new == [old EXCEPT !.Volume = v, !.RestVol = v - used,
                           !.TimeExpired = IF newExpired = 0 THEN @ ELSE formatTimeToHour(newExpired)]
        pay == calcTotalPayAmountWithSpace(new)
        back == pay < old.PayAmount
        fee == IF back THEN old.PayAmount - pay ELSE pay - old.PayAmount
        from == IF back THEN FsContract ELSE payer
        to == IF back THEN payer ELSE FsContract
    IN /\ FsCall
       /\ GetStorageItem(fs.space, o)
       /\ formatVolumeToBlock(newVolume) # 0 \/ newExpired # 0
       /\ spaceValid(o)
       /\ newExpired # 0 => newExpired > fsNow /\ newExpired >= old.TimeStart + fsParam.MinTimeForFileStorage
       /\ used < v
       /\ back => old.RestAmount >= fee
       /\ CanPay(fs, from, fee)
       /\ fs' = PutSpace(appCallTransfer(fs, from, to, fee), o,
                         [new EXCEPT !.PayAmount = pay, !.RestAmount = IF back THEN @ - fee ELSE @ + fee])
       /\ UNCHANGED <<fsParam, fsNow>>

---------------------------------------------------------------------------
\* Files

\* The part of FsStoreFiles after an expired file with the same hash has been deleted.
StoreNew(st, o, h, type, blocks, copies, expired) ==
    LET inSpace == type = "UseSpace"
        file == [StorageType |-> type, FileBlockCount |-> blocks, CopyNumber |-> copies,
                 TimeStart |-> fsNow, TimeExpired |-> formatTimeToHour(expired),
                 CurrFeeRate |-> IF inSpace THEN st.space[o].CurrFeeRate ELSE fsParam.FilePerBlockFeeRate]
        pay == IF inSpace THEN 0 ELSE calcTotalPayAmountWithFile(file)
        serverPdpGasFee == fsParam.FilePerServerPdpTimes * fsParam.ContractInvokeGasFee
                             * (IF inSpace THEN st.space[o].CopyNumber ELSE copies)
        spaceOK == /\ GetStorageItem(st.space, o)
                   /\ fsNow <= st.space[o].TimeExpired
                   /\ st.space[o].RestVol > fileSize(file)
        fileOK == formatTimeToHour(expired) >= fsNow + fsParam.MinTimeForFileStorage
        charged == appCallTransfer(st, o, FsContract, pay + serverPdpGasFee)
        placed == IF inSpace
                  THEN PutSpace(charged, o, [st.space[o] EXCEPT !.RestVol = @ - fileSize(file)])
                  ELSE charged
    IN IF (IF inSpace THEN spaceOK ELSE fileOK) /\ CanPay(st, o, pay + serverPdpGasFee)
       THEN [PutFile(placed, o, h, file @@ [PayAmount |-> pay, RestAmount |-> pay]) EXCEPT
                !.owner = PutBytes(@, h, o)]
       ELSE st

FsStoreFiles(o, h, type, blocks, copies, expired) ==
    LET exists == GetStorageItem(fs.file, <<o, h>>)
        cleared == deleteFile(fs, o, h, getFileInfoFromDb(o, h))
    IN /\ FsCall
       /\ exists => ~fileValid(o, h)
       /\ fs' = CASE ~exists     -> StoreNew(fs, o, h, type, blocks, copies, expired)
                  [] cleared.ok  -> StoreNew(cleared.st, o, h, type, blocks, copies, expired)
                  [] OTHER       -> cleared.st
       /\ UNCHANGED <<fsParam, fsNow>>

\* The fee of the renewal goes to PayAmount, not to RestAmount.
FsRenewFiles(payer, o, h, newExpired) ==
    LET renewed == [fs.file[<<o, h>>] EXCEPT !.TimeExpired = formatTimeToHour(newExpired)]
        newFee == calcTotalPayAmountWithFile(renewed)
        renewFee == newFee - renewed.PayAmount
    IN /\ FsCall
       /\ GetStorageItem(fs.file, <<o, h>>)
       /\ renewed.StorageType = "UseFile"
       /\ fileValid(o, h)
       /\ renewFee >= 0
       /\ CanPay(fs, payer, renewFee)
       /\ fs' = PutFile(appCallTransfer(fs, payer, FsContract, renewFee), o, h,
                        [renewed EXCEPT !.PayAmount = newFee])
       /\ UNCHANGED <<fsParam, fsNow>>

\* Signed by the owner that is recorded for the hash.
FsDeleteFiles(h) ==
    /\ FsCall
    /\ FileByHash(h)
    /\ fs' = deleteFile(fs, getFileOwner(h), h, getFileInfoFromDb(getFileOwner(h), h)).st
    /\ UNCHANGED <<fsParam, fsNow>>

\* The records are copied to the new owner and stay with the old one too.
MoveRecordsCopies(pdp, h, from, to) ==
    LET moved == {n \in FsNodes : GetStorageItem(pdp, <<h, from, n>>)}
    IN [k \in {<<h, to, n>> : n \in moved} |-> pdp[<<h, from, k[3]>>]] @@ pdp

MoveRecords(pdp, h, from, to) ==
    LET moved == {n \in FsNodes : GetStorageItem(pdp, <<h, from, n>>)}
    IN [k \in {<<h, to, n>> : n \in moved} |-> pdp[<<h, from, k[3]>>]]
         @@ DeleteAll(pdp, {<<h, from, n>> : n \in moved})

FsTransferFiles(from, to, h) ==
    /\ FsCall
    /\ GetStorageItem(fs.file, <<from, h>>)
    /\ fileValid(from, h)
    /\ fs.file[<<from, h>>].StorageType = "UseFile"
    /\ fs' = [fs EXCEPT !.file = PutBytes(Delete(@, <<from, h>>), <<to, h>>, fs.file[<<from, h>>]),
                        !.pdp = IF from = to THEN @ ELSE MoveRecords(@, h, from, to),
                        !.owner = PutBytes(@, h, to)]
    /\ UNCHANGED <<fsParam, fsNow>>

---------------------------------------------------------------------------
\* Proofs, challenges, judgements

\* The first proof of a node for a file.
FirstProve(n, h) ==
    LET o == getFileOwner(h)
        f == getFileInfoFromDb(o, h)
    IN /\ FsCall
       /\ FileByHash(h)
       /\ GetStorageItem(fs.node, n)
       /\ ~GetStorageItem(fs.pdp, <<h, o, n>>)
       /\ fs.node[n].RestVol >= fileSize(f)
       /\ fs' = addPdpRecord(PutNode(fs, n, [fs.node[n] EXCEPT !.RestVol = @ - fileSize(f),
                                                               !.Profit = @ + fsParam.ContractInvokeGasFee]),
                             h, o, n, FALSE)
       /\ UNCHANGED <<fsParam, fsNow>>

\* The proof after the file has expired, which settles the node's profit.  The last node
\* deletes the file; its own record is not yet settled then, and its NodeInfo is written last.
LastProve(n, h) ==
    LET o == getFileOwner(h)
        f == getFileInfoFromDb(o, h)
        inSpace == f.StorageType = "UseSpace"
        profit == IF inSpace THEN calcSpaceModePerServerProfit(f.TimeExpired, f.TimeExpired, f)
                  ELSE calcFileModePerServerProfit(f.TimeExpired, f)
        rest == IF inSpace THEN fs.space[o].RestAmount ELSE f.RestAmount
        nodeInfo == [fs.node[n] EXCEPT !.Profit = @ + profit + fsParam.ContractInvokeGasFee,
                                       !.RestVol = @ + fileSize(f)]
        paidFile == IF inSpace THEN f ELSE [f EXCEPT !.RestAmount = @ - profit]
        paid == IF inSpace THEN PutSpace(fs, o, [fs.space[o] EXCEPT !.RestAmount = @ - profit])
                ELSE PutFile(fs, o, h, paidFile)
        clean == \A m \in ProversOf(fs, h, o) \ {n} : fs.pdp[<<h, o, m>>]
    IN /\ FsCall
       /\ FileByHash(h)
       /\ GetStorageItem(fs.node, n)
       /\ GetStorageItem(fs.pdp, <<h, o, n>>) /\ ~fs.pdp[<<h, o, n>>]
       /\ fsNow >= f.TimeExpired
       /\ inSpace => GetStorageItem(fs.space, o)
       /\ rest >= profit
       /\ fs' = PutNode(IF clean THEN deleteFile(paid, o, h, paidFile).st
                        ELSE addPdpRecord(paid, h, o, n, TRUE), n, nodeInfo)
       /\ UNCHANGED <<fsParam, fsNow>>

FsFileProve(n, h) == FirstProve(n, h) \/ LastProve(n, h)

FsChallenge(o, n, h) ==
    LET reward == fsParam.ChallengeReward + fsParam.ContractInvokeGasFee
    IN /\ FsCall
       /\ GetStorageItem(fs.file, <<o, h>>)
       /\ fileValid(o, h)
       /\ GetStorageItem(fs.pdp, <<h, o, n>>)
       /\ GetStorageItem(fs.challenge, <<n, h>>) => getChallenge(fs, n, h).State = "RepliedAndSuccess"
       /\ CanPay(fs, o, reward)
       /\ fs' = addChallenge(appCallTransfer(fs, o, FsContract, reward), n, h,
                             [State |-> "NoReplyAndValid", Reward |-> reward, FileOwner |-> o,
                              ExpiredTime |-> fsNow + fsParam.ChallengeInterval])
       /\ UNCHANGED <<fsParam, fsNow>>

\* A punishment comes from the profit or else from the pledge, never from both.
Punished(info, amount) ==
    IF info.Profit > amount THEN [info EXCEPT !.Profit = @ - amount] ELSE [info EXCEPT !.Pledge = @ - amount]

CanPunish(info, amount) == info.Profit > amount \/ info.Pledge > amount

\* The node answers; ok says whether its proof verifies.
FsResponse(n, h, ok) ==
    LET c == getChallenge(fs, n, h)
        punish == fs.file[<<getFileOwner(h), h>>].PayAmount + fsParam.ContractInvokeGasFee
        right == addChallenge(PutNode(fs, n, [fs.node[n] EXCEPT !.Profit = @ + c.Reward]), n, h,
                              [c EXCEPT !.Reward = 0, !.State = "RepliedAndSuccess"])
        wrong == addChallenge(PutNode(appCallTransfer(fs, FsContract, c.FileOwner, punish + c.Reward),
                                      n, Punished(fs.node[n], punish)), n, h,
                              [c EXCEPT !.Reward = punish, !.State = "RepliedButVerifyError"])
    IN /\ FsCall
       /\ GetStorageItem(fs.node, n)
       /\ GetStorageItem(fs.challenge, <<n, h>>) /\ c.State = "NoReplyAndValid"
       /\ FileByHash(h)
       /\ ~ok => CanPunish(fs.node[n], punish) /\ CanPay(fs, FsContract, punish + c.Reward)
       /\ fs' = IF ok THEN right ELSE wrong
       /\ UNCHANGED <<fsParam, fsNow>>

FsJudge(n, h) ==
    LET c == getChallenge(fs, n, h)
        f == getFileInfoFromDb(getFileOwner(h), h)
        punish == (IF f.StorageType = "UseSpace" THEN calcTotalPayAmountWithFile(f) ELSE f.PayAmount)
                    + 2 * fsParam.ContractInvokeGasFee
    IN /\ FsCall
       /\ GetStorageItem(fs.challenge, <<n, h>>) /\ c.State = "NoReplyAndExpire"
       /\ GetStorageItem(fs.node, n)
       /\ FileByHash(h)
       /\ f.StorageType = "UseSpace" => GetStorageItem(fs.space, getFileOwner(h))
       /\ CanPunish(fs.node[n], punish)
       /\ CanPay(fs, FsContract, punish + c.Reward)
       /\ fs' = addChallenge(PutNode(appCallTransfer(fs, FsContract, c.FileOwner, punish + c.Reward),
                                     n, Punished(fs.node[n], punish)), n, h,
                             [c EXCEPT !.Reward = punish + @, !.State = "Judged"])
       /\ UNCHANGED <<fsParam, fsNow>>

---------------------------------------------------------------------------
\* Reading

NoPlan == [MaxReadBlockNum |-> 0, HaveReadBlockNum |-> 0, NumOfSettlements |-> 0]

\* A pledge for more blocks of one node; plans with other nodes stay in the pledge, and
\* are counted among the new plans.
FsReadFilePledge(reader, h, n, blocks) ==
    LET known == GetStorageItem(fs.pledge, <<reader, h>>)
        old == IF known THEN fs.pledge[<<reader, h>>] ELSE [RestMoney |-> 0, ReadPlans |-> Empty]
        plan == IF GetStorageItem(old.ReadPlans, n) THEN old.ReadPlans[n] ELSE NoPlan
        plans == PutBytes(old.ReadPlans, n, [plan EXCEPT !.MaxReadBlockNum = @ + blocks])
        samePlanCount == IF GetStorageItem(old.ReadPlans, n) THEN 1 ELSE 0
        newPledgeFee == blocks * fsParam.FeePerBlockForRead
        pay == newPledgeFee + (Cardinality(DOMAIN plans) - samePlanCount) * fsParam.ContractInvokeGasFee
    IN /\ FsCall
       /\ FileByHash(h) /\ fileValid(getFileOwner(h), h)
       /\ CanPay(fs, reader, pay)
       /\ fs' = [appCallTransfer(fs, reader, FsContract, pay) EXCEPT
                    !.pledge = PutBytes(@, <<reader, h>>,
                                        [RestMoney |-> old.RestMoney + newPledgeFee, ReadPlans |-> plans])]
       /\ UNCHANGED <<fsParam, fsNow>>

\* The gas of a plan is paid again with every settlement.
readProfitEachTime(plan, readFee) == readFee + fsParam.ContractInvokeGasFee

\* What a settlement brings the node: the gas of the plan comes with the first one.
readProfit(plan, readFee) ==
    IF plan.NumOfSettlements = 0 THEN readFee + fsParam.ContractInvokeGasFee ELSE readFee

\* The node settles the blocks up to SliceId, which the reader has signed.
FsReadFileSettle(reader, h, n, SliceId) ==
    LET pledge == fs.pledge[<<reader, h>>]
        plan == pledge.ReadPlans[n]
        readFee == (SliceId - plan.HaveReadBlockNum) * fsParam.FeePerBlockForRead
    IN /\ FsCall
       /\ GetStorageItem(fs.pledge, <<reader, h>>) /\ GetStorageItem(pledge.ReadPlans, n)
       /\ plan.HaveReadBlockNum < SliceId /\ SliceId <= plan.MaxReadBlockNum
       /\ pledge.RestMoney >= readFee
       /\ GetStorageItem(fs.node, n)
       /\ fs' = [PutNode(fs, n, [fs.node[n] EXCEPT !.Profit = @ + readProfit(plan, readFee)]) EXCEPT
                    !.pledge[<<reader, h>>] =
                        [RestMoney |-> @.RestMoney - readFee,
                         ReadPlans |-> [@.ReadPlans EXCEPT ![n].HaveReadBlockNum = SliceId,
                                                           ![n].NumOfSettlements = 1]]]
       /\ UNCHANGED <<fsParam, fsNow>>

---------------------------------------------------------------------------
FsSetGlobalParam(g) ==
    /\ FsCall
    /\ fsParam' = g
    /\ UNCHANGED <<fs, fsNow>>

FsNextBlock ==
    /\ \E t \in FsBlockTimes : t > fsNow /\ fsNow' = t
    /\ UNCHANGED <<fs, fsParam, fsCalls>>

FsAddresses == FsOwners \cup FsNodes \cup {FsContract}

FsInit ==
    /\ fsParam = FsDefaultParam
    /\ \E t \in FsServiceTimes :
          fs = [node |-> [n \in FsRegistered |-> NewNode(FsRegisteredVolume, t)],
                space |-> Empty, file |-> Empty, owner |-> Empty, pdp |-> Empty,
                challenge |-> Empty, pledge |-> Empty,
                ong |-> [a \in FsAddresses |->
                           IF a = FsContract
                           THEN Cardinality(FsRegistered) * fsParam.NodePerKbPledge * FsRegisteredVolume
                           ELSE FsStartOng]]
    /\ fsNow = 0
    /\ fsCalls = 0

FsNext ==
    \/ FsNextBlock
    \/ \E g \in FsParams \ {fsParam} : FsSetGlobalParam(g)
    \/ \E n \in FsNodes :
          \/ FsNodeCancel(n) \/ FsNodeWithdrawProfit(n)
          \/ \E v \in FsVolumes, t \in FsServiceTimes : FsNodeRegister(n, v, t) \/ FsNodeUpdate(n, v, t)
    \/ \E o \in FsOwners :
          \/ FsDeleteSpace(o)
          \/ \E v \in FsVolumes, c \in FsCopies, t \in FsExpiries : FsCreateSpace(o, v, c, t)
          \/ \E p \in FsOwners, v \in FsVolumes \cup {0}, t \in FsExpiries \cup {0} : FsUpdateSpace(p, o, v, t)
    \/ \E h \in FsHashes :
          \/ FsDeleteFiles(h)
          \/ \E n \in FsNodes :
                \/ FsFileProve(n, h) \/ FsJudge(n, h)
                \/ \E ok \in BOOLEAN : FsResponse(n, h, ok)
          \/ \E o \in FsOwners :
                \/ \E type \in {"UseFile", "UseSpace"}, c \in FsCopies, t \in FsExpiries :
                      FsStoreFiles(o, h, type, 1, c, t)
                \/ \E p \in FsOwners, t \in FsExpiries : FsRenewFiles(p, o, h, t)
                \/ \E to \in FsOwners : FsTransferFiles(o, to, h)
                \/ \E n \in FsNodes :
                      \/ FsChallenge(o, n, h)
                      \/ FsReadFilePledge(o, h, n, 1)
                      \/ \E s \in 1..MaxFsCalls : FsReadFileSettle(o, h, n, s)

FsSpec == FsInit /\ [][FsNext]_fsVars

---------------------------------------------------------------------------
FsTypeOK ==
    /\ fsParam \in FsGlobalParam /\ fsNow \in FsBlockTimes /\ fsCalls \in 0..MaxFsCalls
    /\ Range(fs.node) \subseteq FsNodeInfo /\ Range(fs.space) \subseteq SpaceInfo
    /\ Range(fs.file) \subseteq FileInfo /\ Range(fs.owner) \subseteq FsOwners
    /\ Range(fs.pdp) \subseteq PdpRecord
    /\ \A k \in DOMAIN fs.challenge : fs.challenge[k] \in Challenge
    /\ \A k \in DOMAIN fs.pledge : IsReadPledge(fs.pledge[k])
    /\ fs.ong \in [FsAddresses -> Nat]

SumOf(S, f(_)) == MapThenSumSet(f, S)

\* Invocations of the contract that the owner of a file, or a reader, has paid for and the
\* node has not made yet: a first and a last proof, and the first settlement of a plan.
ProofsDue(k) ==
    SumOf(FsNodes, LAMBDA n : LET r == <<k[2], k[1], n>>
                              IN IF ~GetStorageItem(fs.pdp, r) THEN 2 ELSE IF fs.pdp[r] THEN 0 ELSE 1)
SettlementsDue(k) ==
    Cardinality({n \in DOMAIN fs.pledge[k].ReadPlans : fs.pledge[k].ReadPlans[n].NumOfSettlements = 0})

\* What the contract owes: pledges and profits of the nodes, the unspent part of spaces and
\* files, the stakes of open challenges, what readers have pledged, and the gas of the
\* invocations that are due.
FsOwed ==
    SumOf(DOMAIN fs.node, LAMBDA n : fs.node[n].Pledge + fs.node[n].Profit)
      + SumOf(DOMAIN fs.space, LAMBDA o : fs.space[o].RestAmount)
      + SumOf(DOMAIN fs.file, LAMBDA k : fs.file[k].RestAmount)
      + SumOf({k \in DOMAIN fs.challenge : fs.challenge[k].State = "NoReplyAndValid"},
              LAMBDA k : fs.challenge[k].Reward)
      + SumOf(DOMAIN fs.pledge, LAMBDA k : fs.pledge[k].RestMoney)
      + fsParam.ContractInvokeGasFee * (SumOf(DOMAIN fs.file, ProofsDue) + SumOf(DOMAIN fs.pledge, SettlementsDue))

\* The ONG of the contract covers everything its records promise to pay out, so that no
\* cancellation, deletion, judgement or withdrawal fails for lack of ONG, whatever mixture of
\* proofs, challenges, renewals, deletions and settlements came before.
FsFundsCovered == fs.ong[FsContract] >= FsOwed

\* Records of a file live and die together: the owner index points to a stored file, every
\* proof record is of a stored file, and an unanswered challenge is of a node that has a proof
\* record, so that deleting the file returns the challenger's stake.
FsRecordsLive ==
    /\ \A h \in DOMAIN fs.owner : GetStorageItem(fs.file, <<fs.owner[h], h>>)
    /\ \A k \in DOMAIN fs.pdp : GetStorageItem(fs.file, <<k[2], k[1]>>)
    /\ \A k \in DOMAIN fs.challenge :
          fs.challenge[k].State = "NoReplyAndValid" =>
             \E o \in FsOwners : GetStorageItem(fs.pdp, <<k[2], o, k[1]>>)
=============================================================================
