---------------------------- MODULE WalletStore ----------------------------
(***************************************************************************)
(* The signature server's accounts in LevelDB (cmd/sigsvr/store): opened,   *)
(* and set up the first time, by the server or by the import command;       *)
(* requests create accounts concurrently, the import adds a wallet's.       *)
(*                                                                          *)
(* Adding looks, without the lock, whether the account is there, and then,  *)
(* under the lock, writes account, index and counters in one batch.         *)
(***************************************************************************)
EXTENDS Integers, Sequences, FiniteSets, Functions

CONSTANTS
    StoreAddresses,  \* addresses of the keys that requests generate, each once
    FileAddresses,   \* addresses in the wallet file that is imported
    MaxOpens         \* bound: how often the store is opened

VARIABLES
    db,          \* what LevelDB holds: see emptyDb
    user,        \* the process that has the database open: "server", "import" or "nobody"
    nextAccountIndex,
    adding,      \* requests between their look and their write: address -> was it there
    created,     \* the addresses generated so far
    opens

storeVars == <<db, user, nextAccountIndex, adding, created, opens>>

\* A key that is not there: 0 for the counters, as getNextAccountIndex and the first
\* GetAccountNumber take it; `numbered` tells whether the account number is there.
Settings == <<"name", "version", "scrypt", "extra">>
emptyDb == [settings |-> {}, init |-> FALSE, account |-> {}, index |-> <<>>, next |-> 0, number |-> 0, numbered |-> FALSE]

\* A database of a version that gave an index to every import and kept no number.
oldDb(a) == [emptyDb EXCEPT !.settings = {Settings[i] : i \in DOMAIN Settings}, !.init = TRUE, !.account = {a},
                            !.index = <<a, a>>, !.next = 2]

StoreInit ==
    /\ db \in {emptyDb, oldDb("old")}
    /\ user = "nobody" /\ nextAccountIndex = 0
    /\ adding = [a \in {} |-> FALSE] /\ created = {} /\ opens = 0

\* The settings are put one by one, the mark last; a put that fails, or a crash, ends it.
NewWalletStore(who) ==
    /\ user = "nobody" /\ opens < MaxOpens /\ opens' = opens + 1
    /\ \/ db.init /\ user' = who /\ nextAccountIndex' = db.next /\ UNCHANGED db
       \/ /\ ~db.init
          /\ \E n \in 0..(Len(Settings) + 1) :
                /\ db' = [db EXCEPT !.settings = @ \cup {Settings[i] : i \in 1..(IF n > Len(Settings) THEN n - 1 ELSE n)},
                                    !.init = n > Len(Settings)]
                /\ user' = IF n > Len(Settings) THEN who ELSE "nobody"
          /\ UNCHANGED nextAccountIndex
    /\ UNCHANGED <<adding, created>>

\* The database as GetAccountNumber leaves it, which counts where there is no number yet.
GetAccountNumber ==
    IF db.numbered \/ db.next = 0 THEN db
    ELSE [db EXCEPT !.number = Cardinality({db.index[i] : i \in 1..db.next}), !.numbered = TRUE]

IsAccountExist(address) == address \in db.account

\* A request, or the import, looks for the account.
AddLooks(address) ==
    /\ address \notin DOMAIN adding
    /\ adding' = [a \in DOMAIN adding \cup {address} |-> IF a = address THEN IsAccountExist(a) ELSE adding[a]]

CreateAccount(address) ==
    /\ user = "server" /\ address \notin created
    /\ created' = created \cup {address}
    /\ AddLooks(address)
    /\ UNCHANGED <<db, user, nextAccountIndex, opens>>

\* One account of the wallet file, after the one before it; imported again, it is there.
importWallet(address) ==
    /\ user = "import" /\ DOMAIN adding = {}
    /\ AddLooks(address)
    /\ UNCHANGED <<db, user, nextAccountIndex, created, opens>>

\* The rest of AddAccountData; indexes count from 0, the list of them from 1.
added(address, isExist) ==
    LET d    == GetAccountNumber
        with == [d EXCEPT !.account = @ \cup {address}]
    IN  IF isExist THEN with
        ELSE [with EXCEPT !.index = [i \in 1..(nextAccountIndex + 1) |-> IF i = nextAccountIndex + 1 THEN address ELSE d.index[i]],
                          !.next = nextAccountIndex + 1,
                          !.number = d.number + 1, !.numbered = TRUE]

\* Where the batch fails, the number counted just before stays.
AddAccountData(address) ==
    /\ address \in DOMAIN adding
    /\ adding' = Restrict(adding, DOMAIN adding \ {address})
    /\ \/ /\ db' = added(address, adding[address])
          /\ nextAccountIndex' = IF adding[address] THEN nextAccountIndex ELSE nextAccountIndex + 1
       \/ db' = GetAccountNumber /\ UNCHANGED nextAccountIndex
    /\ UNCHANGED <<user, created, opens>>

\* The process ends, whatever its requests were doing.
StoreEnds ==
    /\ user # "nobody" /\ user' = "nobody"
    /\ adding' = [a \in {} |-> FALSE] /\ nextAccountIndex' = 0
    /\ UNCHANGED <<db, created, opens>>

StoreNext ==
    \/ NewWalletStore("server") \/ NewWalletStore("import")
    \/ \E a \in StoreAddresses : CreateAccount(a)
    \/ \E a \in FileAddresses : importWallet(a)
    \/ \E a \in DOMAIN adding : AddAccountData(a)
    \/ StoreEnds

-----------------------------------------------------------------------------
\* Whatever requests met and wherever the process ended: a store marked as set up has all
\* its settings (NewWalletStore puts the mark last); every account is found through the
\* indexes, which is how accounts are exported, and no index leads nowhere; the number of
\* accounts, which later decides whether an account is the first, is the number there is;
\* and the next index in memory is the database's (AddAccountData).
StoreAgrees ==
    /\ db.init => db.settings = Range(Settings)
    /\ db.account = {db.index[i] : i \in 1..db.next} /\ DOMAIN db.index = 1..db.next
    /\ db.numbered => db.number = Cardinality(db.account)
    /\ user # "nobody" => nextAccountIndex = db.next
=============================================================================
