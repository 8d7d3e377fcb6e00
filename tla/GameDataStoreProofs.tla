------------------------ MODULE GameDataStoreProofs ------------------------
(***************************************************************************)
(* GameDataStore implements LoginPayload, for any threads and contents.    *)
(***************************************************************************)
EXTENDS GameDataStore, TLAPS

\* Who is past the lock is its holder.
LockIsOwned ==
  \A t \in Thread : call[t].pc \in {"using", "refresh", "unlock"} <=> inventoryStoreLock = t

Changing(t) == call[t].kind = "mut" /\ call[t].pc \in {"using", "refresh"}

\* Unless a change is under way, the cache is the serialised form of the store.
CacheIsFresh ==
  (\A t \in Thread : ~Changing(t)) => inventoryStoreBufCache = Payload[inventoryStore]

IInv == TypeOK /\ LockIsOwned /\ CacheIsFresh

LEMMA PayloadIsText == ASSUME NEW v \in Content PROVE Payload[v] \in Text
  BY DEF Text

\* The inductive invariant: the lock has one holder and only a holder makes the cache stale.
THEOREM StoreInductive == Spec => []IInv
<1>1. Init => IInv
  <2> SUFFICES ASSUME Init PROVE IInv
    OBVIOUS
  <2>1. TypeOK
    BY StoreAssumption, PayloadIsText DEF Init, TypeOK, Call, Idle
  <2>2. LockIsOwned
    BY StoreAssumption DEF Init, LockIsOwned, Idle
  <2>3. CacheIsFresh
    BY DEF Init, CacheIsFresh
  <2> QED BY <2>1, <2>2, <2>3 DEF IInv
<1>2. IInv /\ [Next]_vars => IInv'
  <2> SUFFICES ASSUME IInv, [Next]_vars PROVE IInv'
    OBVIOUS
  <2> USE DEF IInv
  <2>1. ASSUME NEW t \in Thread, NEW kind \in {"read", "buf", "mut"}, Enter(t, kind)
        PROVE  IInv'
    <3>1. TypeOK'
      BY <2>1 DEF Enter, TypeOK, Call
    <3>2. LockIsOwned'
      BY <2>1 DEF Enter, TypeOK, LockIsOwned, Call, Idle
    <3>3. CacheIsFresh'
      BY <2>1 DEF Enter, TypeOK, CacheIsFresh, Changing, Call, Idle
    <3> QED BY <3>1, <3>2, <3>3
  <2>2. ASSUME NEW t \in Thread, TryLock(t)
        PROVE  IInv'
    <3>1. TypeOK'
      BY <2>2 DEF TryLock, Goes, TypeOK, Call
    <3>2. LockIsOwned'
      BY <2>2, StoreAssumption DEF TryLock, LockIsFree, Goes, TypeOK, LockIsOwned, Call
    <3>3. CacheIsFresh'
      <4>1. \A u \in Thread : ~Changing(u)
        BY <2>2, StoreAssumption DEF TryLock, LockIsFree, LockIsOwned, Changing
      <4> QED BY <2>2, <4>1 DEF TryLock, CacheIsFresh
    <3> QED BY <3>1, <3>2, <3>3
  <2>3. ASSUME NEW t \in Thread, Copy(t)
        PROVE  IInv'
    <3>1. TypeOK'
      BY <2>3 DEF Copy, Goes, TypeOK, Call
    <3>2. LockIsOwned'
      BY <2>3 DEF Copy, Goes, TypeOK, LockIsOwned, Call
    <3>3. CacheIsFresh'
      BY <2>3 DEF Copy, Goes, TypeOK, CacheIsFresh, Changing, Call
    <3> QED BY <3>1, <3>2, <3>3
  <2>4. ASSUME NEW t \in Thread, Change(t)
        PROVE  IInv'
    <3>1. TypeOK'
      BY <2>4 DEF Change, TypeOK
    <3>2. LockIsOwned'
      BY <2>4 DEF Change, LockIsOwned
    <3>3. Changing(t)'
      BY <2>4 DEF Change, Changing
    <3> QED BY <3>1, <3>2, <3>3 DEF CacheIsFresh
  <2>5. ASSUME NEW t \in Thread, EndChange(t)
        PROVE  IInv'
    <3>1. TypeOK'
      BY <2>5 DEF EndChange, Release, Goes, TypeOK, Call
    <3>2. LockIsOwned'
      BY <2>5 DEF EndChange, Release, Goes, TypeOK, LockIsOwned, Call
    <3>3. Changing(t)'
      BY <2>5 DEF EndChange, Release, Goes, TypeOK, Changing, Call
    <3> QED BY <3>1, <3>2, <3>3 DEF CacheIsFresh
  <2>6. ASSUME NEW t \in Thread, RefreshInventoryStoreCache(t)
        PROVE  IInv'
    <3>1. TypeOK'
      BY <2>6, PayloadIsText DEF RefreshInventoryStoreCache, Serialised, Goes, TypeOK, Call
    <3>2. LockIsOwned'
      BY <2>6 DEF RefreshInventoryStoreCache, Goes, TypeOK, LockIsOwned, Call
    <3>3. CacheIsFresh'
      BY <2>6 DEF RefreshInventoryStoreCache, Serialised, CacheIsFresh
    <3> QED BY <3>1, <3>2, <3>3
  <2>7. ASSUME NEW t \in Thread, UnlockInventoryStore(t)
        PROVE  IInv'
    <3>1. TypeOK'
      BY <2>7 DEF UnlockInventoryStore, GiveBack, TypeOK, Call, Idle
    <3>2. LockIsOwned'
      BY <2>7, StoreAssumption
      DEF UnlockInventoryStore, GiveBack, TypeOK, LockIsOwned, Call, Idle
    <3>3. CacheIsFresh'
      BY <2>7 DEF UnlockInventoryStore, TypeOK, CacheIsFresh, Changing, Call, Idle
    <3> QED BY <3>1, <3>2, <3>3
  <2>8. CASE UNCHANGED vars
    BY <2>8 DEF vars, TypeOK, LockIsOwned, CacheIsFresh, Changing
  <2> QED
    BY <2>1, <2>2, <2>3, <2>4, <2>5, <2>6, <2>7, <2>8 DEF Next, UserStep
<1> QED BY <1>1, <1>2, PTL DEF Spec

\* The variables keep their types.
THEOREM StoreTypeCorrect == Spec => []TypeOK
  BY StoreInductive, PTL DEF IInv

\* What a buffered read gives is the serialised form of the whole store: a step of the store
\* is a commit, a read or nothing to its callers, whatever the threads and the contents.
THEOREM StoreImplementsPromise == Spec => ImplementsPromise
<1>1. Init => Promise!Init
  BY StoreAssumption DEF Init, Promise!Init
<1>2. IInv /\ [Next]_vars => [Promise!Next]_<<inventoryStoreBufCache, copy>>
  <2> SUFFICES ASSUME IInv, [Next]_vars
               PROVE  Promise!Next \/ UNCHANGED <<inventoryStoreBufCache, copy>>
    OBVIOUS
  <2>1. ASSUME NEW t \in Thread, NEW kind \in {"read", "buf", "mut"}, Enter(t, kind)
        PROVE  Promise!Forget(t)
    BY <2>1 DEF Enter, Promise!Forget
  <2>2. ASSUME NEW t \in Thread, TryLock(t)
        PROVE  UNCHANGED <<inventoryStoreBufCache, copy>>
    BY <2>2 DEF TryLock
  <2>3. ASSUME NEW t \in Thread, Copy(t)
        PROVE  Promise!ReadContent(t) \/ Promise!ReadBuffer(t)
    <3>1. CASE call[t].kind = "buf"
      BY <2>3, <3>1 DEF Copy, Promise!ReadBuffer
    <3>2. CASE call[t].kind = "read"
      <4>1. \A u \in Thread : ~Changing(u)
        BY <2>3, <3>2 DEF Copy, IInv, LockIsOwned, Changing
      <4>2. inventoryStoreBufCache = Payload[inventoryStore]
        BY <4>1 DEF IInv, CacheIsFresh
      <4>3. inventoryStore \in Content
        BY DEF IInv, TypeOK
      <4> QED BY <2>3, <3>2, <4>2, <4>3 DEF Copy, Promise!ReadContent
    <3> QED BY <2>3, <3>1, <3>2 DEF Copy
  <2>4. ASSUME NEW t \in Thread, Change(t)
        PROVE  UNCHANGED <<inventoryStoreBufCache, copy>>
    BY <2>4 DEF Change
  <2>5. ASSUME NEW t \in Thread, EndChange(t)
        PROVE  UNCHANGED <<inventoryStoreBufCache, copy>>
    BY <2>5 DEF EndChange
  <2>6. ASSUME NEW t \in Thread, RefreshInventoryStoreCache(t)
        PROVE  Promise!Commit
    BY <2>6 DEF RefreshInventoryStoreCache, Serialised, Promise!Commit, IInv, TypeOK
  <2>7. ASSUME NEW t \in Thread, UnlockInventoryStore(t)
        PROVE  UNCHANGED <<inventoryStoreBufCache, copy>>
    BY <2>7 DEF UnlockInventoryStore
  <2>8. CASE UNCHANGED vars
    BY <2>8 DEF vars
  <2> QED
    BY <2>1, <2>2, <2>3, <2>4, <2>5, <2>6, <2>7, <2>8 DEF Next, UserStep, Promise!Next
<1> QED
  BY <1>1, <1>2, StoreInductive, PTL DEF Spec, ImplementsPromise, Promise!Spec
=============================================================================
