---------------------------- MODULE GameDataStore ----------------------------
(***************************************************************************)
(* The inventory store of all items and its serialised form:               *)
(* Packets/Implementation/GameDataStore.cpp.                               *)
(*                                                                         *)
(* InventoryStore, InventoryStoreBuf and InventoryStoreMut spin on a mutex *)
(* with try_lock and return a pointer whose deleter unlocks it.  Only the  *)
(* deleter of the pointer for changes serialises the store first.  Nobody  *)
(* but GetLoginData calls any of them today, and it calls                  *)
(* InventoryStoreBuf; the callers here are any that keep to the comments   *)
(* of GameDataStore.h: one pointer at a time, given back, and a copy made  *)
(* of what it points to.                                                   *)
(***************************************************************************)
EXTENDS Naturals

CONSTANTS Thread, Content, Initial, NoThread, Nothing,
          Payload,   \* InventoryStoreToPayload: the serialised form of each content
          MaxCalls   \* bound: how often each thread calls

Text == {Payload[v] : v \in Content}

ASSUME StoreAssumption ==
  /\ Initial \in Content
  /\ NoThread \notin Thread
  /\ Payload \in [Content -> Text]
  /\ MaxCalls \in Nat

VARIABLES
  inventoryStore,
  inventoryStoreBufCache,
  inventoryStoreLock,   \* the thread that holds it
  call,                 \* the call each thread is in
  copy,                 \* what the thread copied in its last call
  calls                 \* how many calls it has made

vars == <<inventoryStore, inventoryStoreBufCache, inventoryStoreLock, call, copy, calls>>

Call == [kind : {"none", "read", "buf", "mut"}, pc : {"idle", "spin", "using", "refresh", "unlock"}]
Idle == [kind |-> "none", pc |-> "idle"]

TypeOK ==
  /\ inventoryStore \in Content
  /\ inventoryStoreBufCache \in Text
  /\ inventoryStoreLock \in Thread \union {NoThread}
  /\ call \in [Thread -> Call]
  /\ copy \in [Thread -> Content \union Text \union {Nothing}]
  /\ calls \in [Thread -> Nat]

\* The constructor reads the resource file and serialises it.
Init ==
  /\ inventoryStore = Initial
  /\ inventoryStoreBufCache = Payload[Initial]
  /\ inventoryStoreLock = NoThread
  /\ call = [t \in Thread |-> Idle]
  /\ copy = [t \in Thread |-> Nothing]
  /\ calls = [t \in Thread |-> 0]

Goes(t, pc) == call' = [call EXCEPT ![t] = [kind |-> call[t].kind, pc |-> pc]]

Enter(t, kind) ==
  /\ call[t] = Idle
  /\ calls[t] < MaxCalls
  /\ calls' = [calls EXCEPT ![t] = @ + 1]
  /\ call' = [call EXCEPT ![t] = [kind |-> kind, pc |-> "spin"]]
  /\ copy' = [copy EXCEPT ![t] = Nothing]
  /\ UNCHANGED <<inventoryStore, inventoryStoreBufCache, inventoryStoreLock>>

LockIsFree(t) == inventoryStoreLock = NoThread

\* The try_lock that succeeds; those that fail change nothing.
TryLock(t) ==
  /\ call[t].pc = "spin"
  /\ LockIsFree(t)
  /\ inventoryStoreLock' = t
  /\ Goes(t, "using")
  /\ UNCHANGED <<inventoryStore, inventoryStoreBufCache, copy, calls>>

Copy(t) ==
  /\ call[t].pc = "using"
  /\ \/ call[t].kind = "read" /\ copy' = [copy EXCEPT ![t] = inventoryStore]
     \/ call[t].kind = "buf" /\ copy' = [copy EXCEPT ![t] = inventoryStoreBufCache]
  /\ Goes(t, "unlock")
  /\ UNCHANGED <<inventoryStore, inventoryStoreBufCache, inventoryStoreLock, calls>>

\* The holder of the pointer for changes may change the store more than once.
Change(t) ==
  /\ call[t].pc = "using"
  /\ call[t].kind = "mut"
  /\ inventoryStore' \in Content
  /\ UNCHANGED <<inventoryStoreBufCache, inventoryStoreLock, call, copy, calls>>

\* mutant: the deleter for changes is that of the other two
OnlyUnlock(t) == Goes(t, "unlock")
Release(t) == Goes(t, "refresh")

\* The pointer for changes goes out of scope.
EndChange(t) ==
  /\ call[t].pc = "using"
  /\ call[t].kind = "mut"
  /\ Release(t)
  /\ UNCHANGED <<inventoryStore, inventoryStoreBufCache, inventoryStoreLock, copy, calls>>

\* mutant: the cache is not serialised
StoreAsIs == inventoryStore
Serialised == Payload[inventoryStore]

RefreshInventoryStoreCache(t) ==
  /\ call[t].pc = "refresh"
  /\ inventoryStoreBufCache' = Serialised
  /\ Goes(t, "unlock")
  /\ UNCHANGED <<inventoryStore, inventoryStoreLock, copy, calls>>

\* mutant: the deleter forgets to unlock
KeepLock == UNCHANGED inventoryStoreLock
GiveBack == inventoryStoreLock' = NoThread

UnlockInventoryStore(t) ==
  /\ call[t].pc = "unlock"
  /\ GiveBack
  /\ call' = [call EXCEPT ![t] = Idle]
  /\ UNCHANGED <<inventoryStore, inventoryStoreBufCache, copy, calls>>

UserStep(t) ==
  \/ TryLock(t) \/ Copy(t) \/ EndChange(t)
  \/ RefreshInventoryStoreCache(t) \/ UnlockInventoryStore(t)

Next == \E t \in Thread :
  \/ \E kind \in {"read", "buf", "mut"} : Enter(t, kind)
  \/ Change(t)
  \/ UserStep(t)

Spec == Init /\ [][Next]_vars

\* Threads that can run are scheduled, and give back what they hold.  Nothing is owed to a
\* thread that spins, but with MaxCalls calls each, the others cannot pass it over for ever.
FairSpec == Spec /\ \A t \in Thread : WF_vars(UserStep(t))

-----------------------------------------------------------------------------
(* Properties *)

Promise == INSTANCE LoginPayload WITH text <- inventoryStoreBufCache, got <- copy

\* The two copies of the store are one to every caller: what InventoryStoreBuf gives is the
\* serialised form of what InventoryStore gives at that time, and never of a change half made.
ImplementsPromise == Promise!Spec

\* Every caller gets his turn, as the spin loop has no time-out.
EveryCallEnds == \A t \in Thread : call[t].pc = "spin" ~> call[t].pc = "idle"
=============================================================================
