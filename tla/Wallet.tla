------------------------------- MODULE Wallet -------------------------------
(***************************************************************************)
(* The wallet client (account/client.go, account/file_store.go): the        *)
(* accounts in the order of the file, the indexes over them by address and  *)
(* label, the default account, the unlocked accounts, and the file.  The    *)
(* indexes share the account objects with the list (Go pointers), so an     *)
(* account is an object and the list and the indexes hold its number.       *)
(*                                                                          *)
(* Every call that changes an account saves the whole wallet and undoes the *)
(* change where saving fails.  A call is one step under the client's lock,  *)
(* and a call that is refused changes nothing; importing takes the lock     *)
(* twice, and another call may come between.  The signature server has a    *)
(* store of its own (WalletStore).                                          *)
(***************************************************************************)
EXTENDS WalletStore, SequencesExt

CONSTANTS
    NewAddresses,     \* addresses of the keys that NewAccount generates, each once
    OtherAddresses,   \* addresses of other wallets' accounts
    Passwords,        \* with "", the empty one
    Schemes,          \* signature schemes that fit the key type
    BadScheme,        \* and one that does not
    MaxWalletCalls    \* bound: changes of a behaviour

VARIABLES
    wal,        \* ClientImpl, a record: see walletClosed
    wfile,      \* the file: is it there, whole, and its accounts
    opened,     \* could the wallet be opened
    importing,  \* the account about to be added by ImportAccount, or NoAccount
    generated,  \* the addresses of the keys generated so far
    wcalls

walletVars == <<wal, wfile, opened, importing, generated, wcalls>>

NoAccount == [Address |-> "", Label |-> 0, passwd |-> "", SigSch |-> "", IsDefault |-> FALSE]
NoObject == 0

\* Labels: 0 is the empty one, 1 a name, and n + 1 is n with "_1" behind it.
renamed(label) == label + 1

walletClosed ==
    [heap |-> <<>>,            \* object -> AccountData
     Accounts |-> <<>>,        \* WalletData.Accounts
     accAddrs |-> <<>>,        \* address -> object
     accLabels |-> <<>>,       \* label -> object
     defaultAcc |-> NoObject,
     unlockAccs |-> <<>>]      \* address -> the unlocked account's scheme, and is it still available

fileIs(state, accounts) == [state |-> state, accounts |-> accounts]   \* "none", "torn" or "whole"

put(f, k, v) == [x \in DOMAIN f \cup {k} |-> IF x = k THEN v ELSE f[x]]
del(f, k) == Restrict(f, DOMAIN f \ {k})

WalletInit ==
    /\ wal = walletClosed /\ wfile = fileIs("none", <<>>) /\ opened = TRUE
    /\ importing = NoAccount /\ generated = {} /\ wcalls = 0

-----------------------------------------------------------------------------
(* The wallet's data                                                         *)

inUse(w) == Range(w.Accounts) \cup Range(w.accAddrs) \cup Range(w.accLabels) \cup {w.defaultAcc}
freshObject(w) == CHOOSE n \in 1..(Cardinality(inUse(w)) + 1) : n \notin inUse(w)

\* The first account of the address, as DelAccount removes it.
DelAccount(w, address) ==
    LET places == {i \in DOMAIN w.Accounts : w.heap[w.Accounts[i]].Address = address}
    IN  IF places = {} THEN w ELSE [w EXCEPT !.Accounts = RemoveAt(@, Min(places))]

AddAccount(w, n, account) == [w EXCEPT !.Accounts = Append(@, n), !.heap = put(@, n, account)]

accountOf(address) == wal.heap[wal.accAddrs[address]]

\* What is written.
marshalled(w) == [i \in DOMAIN w.Accounts |-> w.heap[w.Accounts[i]]]

\* The list, and the indexes as load fills them: of two with one address or label the
\* later one stays.
load(accounts) ==
    LET lastWith(P(_)) == Max({i \in DOMAIN accounts : P(accounts[i])} \cup {NoObject})
    IN  [walletClosed EXCEPT
            !.heap = accounts,
            !.Accounts = [i \in DOMAIN accounts |-> i],
            !.accAddrs = [a \in {x.Address : x \in Range(accounts)} |-> lastWith(LAMBDA x : x.Address = a)],
            !.accLabels = [l \in {x.Label : x \in Range(accounts)} \ {0} |-> lastWith(LAMBDA x : x.Label = l)],
            !.defaultAcc = lastWith(LAMBDA x : x.IsDefault)]

\* Save writes a file next to an old one and renames it; without an old one it writes in
\* place, and may leave a torn file.  `changed` is written, the wallet becomes `done`, or
\* `undone` where saving fails.  Objects that nothing points to are gone.
collected(w) == [w EXCEPT !.heap = Restrict(@, inUse(w) \ {NoObject})]
saveOr(changed, done, undone) ==
    \/ wfile' = fileIs("whole", marshalled(changed)) /\ wal' = collected(done)
    \/ /\ IF wfile.state = "none" THEN wfile' \in {wfile, fileIs("torn", <<>>)} ELSE wfile' = wfile
       /\ wal' = collected(undone)

-----------------------------------------------------------------------------
(* Calls                                                                     *)

called == opened /\ wcalls < MaxWalletCalls /\ wcalls' = wcalls + 1
known(address) == address \in DOMAIN wal.accAddrs

checkSigScheme(scheme) == scheme \in Schemes

canAdd(account) == checkSigScheme(account.SigSch) /\ (account.Label = 0 \/ account.Label \notin DOMAIN wal.accLabels)
addAccountData(account) ==
    LET a       == [account EXCEPT !.IsDefault = wal.Accounts = <<>>]
        n       == freshObject(wal)
        changed == AddAccount(wal, n, a)
    IN  saveOr(changed,
               [changed EXCEPT !.accAddrs = put(@, a.Address, n),
                               !.defaultAcc = IF a.IsDefault THEN n ELSE @,
                               !.accLabels = IF a.Label # 0 THEN put(@, a.Label, n) ELSE @],
               DelAccount(changed, a.Address))

NewAccount(address, label, scheme, passwd) ==
    LET account == [NoAccount EXCEPT !.Address = address, !.Label = label, !.SigSch = scheme, !.passwd = passwd]
    IN  /\ passwd # "" /\ address \notin generated
        /\ generated' = generated \cup {address}
        /\ canAdd(account) /\ called /\ addAccountData(account)
        /\ UNCHANGED <<opened, importing>>

\* A label that is taken is changed first (GetAccountMetadataByLabel takes the lock).  The
\* command that imports skips the addresses that the wallet has.
ImportAccount(account) ==
    /\ called /\ importing = NoAccount /\ ~known(account.Address)
    /\ importing' = [account EXCEPT !.Label = IF @ # 0 /\ @ \in DOMAIN wal.accLabels THEN renamed(@) ELSE @]
    /\ UNCHANGED <<wal, wfile, opened, generated>>

ImportAdds ==
    /\ importing # NoAccount /\ importing' = NoAccount
    /\ IF canAdd(importing) THEN addAccountData(importing) ELSE UNCHANGED <<wal, wfile>>
    /\ UNCHANGED <<opened, generated, wcalls>>

DeleteAccount(address, passwd) ==
    /\ known(address) /\ ~accountOf(address).IsDefault /\ accountOf(address).passwd = passwd
    /\ called
    /\ LET changed == DelAccount(wal, address)
       IN  saveOr(changed,
                  [changed EXCEPT !.accAddrs = del(@, address),
                                  !.accLabels = IF accountOf(address).Label # 0 THEN del(@, accountOf(address).Label) ELSE @,
                                  !.unlockAccs = del(@, address)],
                  wal)
    /\ UNCHANGED <<opened, importing, generated>>

\* expiredAt: the seconds it stays available.
UnLockAccount(address, expiredAt, passwd) ==
    /\ known(address) /\ expiredAt >= 0 /\ accountOf(address).passwd = passwd
    /\ called
    /\ wal' = [wal EXCEPT !.unlockAccs = put(@, address, [SigScheme |-> accountOf(address).SigSch, avail |-> expiredAt > 0])]
    /\ UNCHANGED <<wfile, opened, importing, generated>>

LockAccount(address) ==
    /\ address \in DOMAIN wal.unlockAccs
    /\ wal' = [wal EXCEPT !.unlockAccs = del(@, address)]
    /\ UNCHANGED <<wfile, opened, importing, generated, wcalls>>

\* Time passes; and GetUnlockAccount, which then forgets the account.
isAvailNoMore(address) ==
    /\ address \in DOMAIN wal.unlockAccs /\ wal.unlockAccs[address].avail
    /\ wal' = [wal EXCEPT !.unlockAccs[address].avail = FALSE]
    /\ UNCHANGED <<wfile, opened, importing, generated, wcalls>>

GetUnlockAccount(address) ==
    /\ address \in DOMAIN wal.unlockAccs /\ ~wal.unlockAccs[address].avail
    /\ wal' = [wal EXCEPT !.unlockAccs = del(@, address)]
    /\ UNCHANGED <<wfile, opened, importing, generated, wcalls>>

\* The default account is another one: the wallet after it.
madeDefault(n) ==
    LET cleared == IF wal.defaultAcc = NoObject THEN wal ELSE [wal EXCEPT !.heap[wal.defaultAcc].IsDefault = FALSE]
    IN  [cleared EXCEPT !.heap[n].IsDefault = TRUE, !.defaultAcc = n]

\* Mutant: where saving fails, the account stays marked as the default one.
SetDefaultAccountForgets(address) ==
    /\ known(address) /\ called
    /\ wal.defaultAcc # NoObject => wal.heap[wal.defaultAcc].Address # address
    /\ LET changed == madeDefault(wal.accAddrs[address])
       IN  saveOr(changed, changed, [changed EXCEPT !.defaultAcc = wal.defaultAcc, !.heap[wal.defaultAcc].IsDefault = TRUE])
    /\ UNCHANGED <<opened, importing, generated>>

SetDefaultAccount(address) ==
    /\ known(address) /\ called
    /\ wal.defaultAcc # NoObject => wal.heap[wal.defaultAcc].Address # address
    /\ LET changed == madeDefault(wal.accAddrs[address]) IN saveOr(changed, changed, wal)
    /\ UNCHANGED <<opened, importing, generated>>

SetLabel(address, label) ==
    /\ label \notin DOMAIN wal.accLabels /\ known(address) /\ accountOf(address).Label # label
    /\ called
    /\ LET n       == wal.accAddrs[address]
           changed == [wal EXCEPT !.heap[n].Label = label]
       IN  saveOr(changed, [changed EXCEPT !.accLabels = put(del(@, accountOf(address).Label), label, n)], wal)
    /\ UNCHANGED <<opened, importing, generated>>

ChangePassword(address, oldPasswd, newPasswd) ==
    /\ oldPasswd # newPasswd /\ known(address) /\ accountOf(address).passwd = oldPasswd
    /\ called
    /\ LET changed == [wal EXCEPT !.heap[wal.accAddrs[address]].passwd = newPasswd] IN saveOr(changed, changed, wal)
    /\ UNCHANGED <<opened, importing, generated>>

ChangeSigScheme(address, scheme) ==
    /\ known(address) /\ checkSigScheme(scheme) /\ called
    /\ LET changed == [wal EXCEPT !.heap[wal.accAddrs[address]].SigSch = scheme]
       IN  saveOr(changed,
                  IF address \in DOMAIN wal.unlockAccs THEN [changed EXCEPT !.unlockAccs[address].SigScheme = scheme] ELSE changed,
                  wal)
    /\ UNCHANGED <<opened, importing, generated>>

\* The process has ended, and the wallet is opened again.
NewClientImpl ==
    /\ called
    /\ importing' = NoAccount
    /\ opened' = (wfile.state # "torn")
    /\ wal' = IF wfile.state = "whole" THEN load(wfile.accounts) ELSE walletClosed
    /\ UNCHANGED <<wfile, generated>>

walletAddresses == NewAddresses \cup OtherAddresses

WalletNext ==
    \/ \E a \in NewAddresses, l \in {0, 1}, s \in Schemes \cup {BadScheme}, p \in Passwords : NewAccount(a, l, s, p)
    \/ \E a \in OtherAddresses \cup generated, l \in {0, 1}, s \in Schemes, p \in Passwords \ {""} :
          ImportAccount([NoAccount EXCEPT !.Address = a, !.Label = l, !.SigSch = s, !.passwd = p])
    \/ ImportAdds \/ NewClientImpl
    \/ \E a \in walletAddresses :
          \/ \E p \in Passwords : DeleteAccount(a, p) \/ \E q \in Passwords : ChangePassword(a, p, q)
          \/ \E p \in Passwords, e \in {0, 1} : UnLockAccount(a, e, p)
          \/ LockAccount(a) \/ GetUnlockAccount(a) \/ isAvailNoMore(a) \/ SetDefaultAccount(a)
          \/ \E l \in {0, 1} : SetLabel(a, l)
          \/ \E s \in Schemes \cup {BadScheme} : ChangeSigScheme(a, s)

-----------------------------------------------------------------------------
WalletTypeOK ==
    /\ inUse(wal) \ {NoObject} = DOMAIN wal.heap
    /\ \A a \in DOMAIN wal.accAddrs : wal.accAddrs[a] \in DOMAIN wal.heap
    /\ wfile.state \in {"none", "torn", "whole"} /\ opened \in BOOLEAN /\ generated \subseteq NewAddresses
    /\ user \in {"server", "import", "nobody"} /\ created \subseteq StoreAddresses

\* Wherever saving failed and the process ended: what the calls see is what the file has
\* (the rollbacks of addAccountData, DeleteAccount, SetDefaultAccount, SetLabel and the
\* others restore it); the indexes by address and label lead to the listed account and to
\* no other, there is one default account and it is the one marked, an unlocked account
\* is in the wallet and signs with the scheme recorded for it, and only a wallet without
\* an account can be left torn.  The signature server's store agrees with itself.
AccountsKept == wcalls + opens > 0 =>   \* at first there is nothing
    LET n == DOMAIN wal.Accounts
        at(i) == wal.heap[wal.Accounts[i]]
    IN  /\ wfile.state = "whole" => wfile.accounts = marshalled(wal)
        /\ wfile.state # "whole" => wal.Accounts = <<>>
        /\ wal.accAddrs = [a \in {at(i).Address : i \in n} |-> wal.Accounts[CHOOSE i \in n : at(i).Address = a]]
        /\ Cardinality(DOMAIN wal.accAddrs) = Len(wal.Accounts)
        /\ \A i, j \in n : at(i).Label # 0 =>
              wal.accLabels[at(i).Label] = wal.Accounts[i] /\ (at(i).Label = at(j).Label => i = j)
        /\ \A l \in DOMAIN wal.accLabels \ {0} :
              wal.accLabels[l] \in Range(wal.Accounts) /\ wal.heap[wal.accLabels[l]].Label = l
        /\ \A i \in n : at(i).IsDefault <=> wal.Accounts[i] = wal.defaultAcc
        /\ n # {} => wal.defaultAcc \in Range(wal.Accounts)
        /\ \A a \in DOMAIN wal.unlockAccs : known(a) /\ wal.unlockAccs[a].SigScheme = accountOf(a).SigSch
        /\ StoreAgrees
=============================================================================
