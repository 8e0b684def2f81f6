--------------------------- MODULE NativeStorage ---------------------------
(***************************************************************************)
(* The storage of a native contract as its handlers use it: a finite map   *)
(* from keys to values (smartcontract/service/native/utils and             *)
(* smartcontract/storage/cachedb.go).  A key that was never put, or was    *)
(* deleted, has no value.                                                  *)
(***************************************************************************)
EXTENDS TLC

Empty == <<>>

GetStorageItem(store, key) == key \in DOMAIN store

PutBytes(store, key, value) == (key :> value) @@ store

Delete(store, key) == [k \in DOMAIN store \ {key} |-> store[k]]

DeleteAll(store, keys) == [k \in DOMAIN store \ keys |-> store[k]]
=============================================================================
