--------------------------- MODULE CurlShareProofs ---------------------------
(***************************************************************************)
(* Proofs about CurlShare: the inductive invariant IInv, and from it that   *)
(* the in-use count is exact and no handle uses a freed share, for any      *)
(* number of objects, shares and connections and any finite set of handles. *)
(***************************************************************************)
EXTENDS CurlShare, FiniteSetTheorems, TLAPS

\* The handles attached to a share are finitely many, and a share with an
\* attached handle has a positive in-use count.
LEMMA AttachedFinite ==
  ASSUME NEW s \in Share
  PROVE  /\ IsFiniteSet(AttachedTo(s))
         /\ Cardinality(AttachedTo(s)) \in Nat
         /\ Cardinality(AttachedTo(s)) = 0 <=> AttachedTo(s) = {}
  <1>1. AttachedTo(s) \in SUBSET Handle
    BY DEF AttachedTo
  <1>2. IsFiniteSet(AttachedTo(s))
    BY <1>1, FiniteHandles, FS_Subset
  <1> QED
    BY <1>2, FS_CardinalityType, FS_EmptySet

\* CURLOPT_SHARE and curl_easy_cleanup: moving one handle from its share to
\* another one, or to none, keeps the count of every share exact.
LEMMA MoveKeepsCount ==
  ASSUME TypeOK, InUseCountExact,
         NEW h \in Handle, NEW to \in Share \cup {NULL},
         dirty' = DirtyAfterMove(handleShare[h], to),
         handleShare' = [handleShare EXCEPT ![h] = to]
  PROVE  InUseCountExact' /\ dirty' \in [Share -> Nat]
  <1> DEFINE from == handleShare[h]
  <1> SUFFICES ASSUME NEW s \in Share
               PROVE  /\ dirty'[s] = Cardinality(AttachedTo(s)')
                      /\ dirty'[s] \in Nat
    BY DEF InUseCountExact, DirtyAfterMove
  <1>1. /\ IsFiniteSet(AttachedTo(s))
        /\ Cardinality(AttachedTo(s)) \in Nat
        /\ dirty[s] = Cardinality(AttachedTo(s))
    BY AttachedFinite DEF InUseCountExact
  <1>2. /\ s = from => h \in AttachedTo(s)
        /\ s # from => h \notin AttachedTo(s)
    BY DEF AttachedTo
  <1>3. CASE s = from /\ s # to
    <2>1. AttachedTo(s)' = AttachedTo(s) \ {h}
      BY <1>3 DEF AttachedTo, TypeOK
    <2>2. /\ IsFiniteSet(AttachedTo(s) \ {h})
          /\ Cardinality(AttachedTo(s) \ {h}) = Cardinality(AttachedTo(s)) - 1
      BY <1>1, <1>2, <1>3, FS_RemoveElement
    <2>3. Cardinality(AttachedTo(s) \ {h}) \in Nat
      BY <2>2, FS_CardinalityType
    <2>4. dirty'[s] = dirty[s] - 1
      BY <1>3 DEF DirtyAfterMove
    <2> QED
      BY <1>1, <2>1, <2>2, <2>3, <2>4
  <1>4. CASE s # from /\ s = to
    <2>1. AttachedTo(s)' = AttachedTo(s) \cup {h}
      BY <1>4 DEF AttachedTo, TypeOK
    <2>2. Cardinality(AttachedTo(s) \cup {h}) = Cardinality(AttachedTo(s)) + 1
      BY <1>1, <1>2, <1>4, FS_AddElement
    <2>3. dirty'[s] = dirty[s] + 1
      BY <1>4 DEF DirtyAfterMove
    <2> QED
      BY <1>1, <2>1, <2>2, <2>3
  <1>5. CASE (s = from) = (s = to)
    <2>1. AttachedTo(s)' = AttachedTo(s)
      BY <1>5 DEF AttachedTo, TypeOK
    <2>2. dirty'[s] = dirty[s]
      BY <1>1, <1>5 DEF DirtyAfterMove
    <2> QED
      BY <1>1, <2>1, <2>2
  <1> QED
    BY <1>3, <1>4, <1>5

\* A share that is idle, not allocated yet or freed has no handle attached.
LEMMA IdleMeansUnused ==
  ASSUME IInv, NEW s \in Share
  PROVE  /\ dirty[s] = 0 <=> \A h \in Handle : handleShare[h] # s
         /\ shareState[s] # "live" => dirty[s] = 0
  <1>1. dirty[s] = 0 <=> AttachedTo(s) = {}
    BY AttachedFinite DEF IInv, InUseCountExact
  <1>2. AttachedTo(s) = {} <=> \A h \in Handle : handleShare[h] # s
    BY DEF AttachedTo
  <1>3. shareState[s] # "live" => \A h \in Handle : handleShare[h] # s
    BY NullIsNoPointer DEF IInv, NoDanglingShare
  <1> QED
    BY <1>1, <1>2, <1>3

LEMMA InitEstablishes == Init => IInv
  <1> SUFFICES ASSUME Init PROVE IInv
    OBVIOUS
  <1>1. TypeOK
    BY DEF Init, TypeOK, Memory, DefaultCache, Cacheable
  <1>2. InUseCountExact
    <2> SUFFICES ASSUME NEW s \in Share
                 PROVE  dirty[s] = Cardinality(AttachedTo(s))
      BY DEF InUseCountExact
    <2>1. AttachedTo(s) = {}
      BY NullIsNoPointer DEF Init, AttachedTo
    <2> QED
      BY <2>1, FS_EmptySet DEF Init
  <1>3. NoDanglingShare /\ SettingsInForce /\ HandlesNotShared
    BY DEF Init, NoDanglingShare, SettingsInForce, HandlesNotShared
  <1>4. PooledConnectionsOwned /\ ObjectsNeedTheDll
    BY OwnersAreNoWords DEF Init, PooledConnectionsOwned, ObjectsNeedTheDll
  <1> QED
    BY <1>1, <1>2, <1>3, <1>4 DEF IInv

\* AssignCurlCache keeps every part of the invariant that does not speak of
\* the objects, for a handle that is new or already in use.
LEMMA AssignKeeps ==
  ASSUME IInv, attached, attached' = attached,
         NEW h \in Handle, NEW s \in Share,
         NEW flags \in SUBSET Cacheable, NEW needInit \in BOOLEAN,
         AssignCurlCache(h, s, flags, needInit),
         useCache' = flags, ~needInit => flags = useCache,
         handleState' \in [Handle -> Memory],
         handleState'[h] = "live",
         \A k \in Handle \ {h} : handleState'[k] = handleState[k],
         handleState[h] # "freed",
         m_curl' \in [Object -> Handle \cup {NULL}]
  PROVE  /\ TypeOK'
         /\ InUseCountExact'
         /\ NoDanglingShare'
         /\ SettingsInForce'
         /\ PooledConnectionsOwned'
         /\ ObjectsNeedTheDll'
  <1> USE DEF IInv
  <1>1. /\ CurlShare \in Share
        /\ shareState[CurlShare] = "live"
        /\ specifier[CurlShare] \cap Cacheable = useCache
    BY DEF SettingsInForce, TypeOK
  <1>2. /\ needInit => s # CurlShare /\ shareState[s] = "unborn" /\ dirty[s] = 0
        /\ ~needInit => s = CurlShare
    BY <1>1, IdleMeansUnused DEF AssignCurlCache
  <1>3. InUseCountExact' /\ dirty' \in [Share -> Nat]
    BY MoveKeepsCount DEF AssignCurlCache
  <1> DEFINE spec == curl_share_setopt(s, flags)
  <1>4. /\ spec \in SUBSET LockData
        /\ spec \cap Cacheable = flags \/ (dirty[s] # 0 /\ spec = specifier[s])
    BY DEF curl_share_setopt, LockData, Cacheable, TypeOK
  <1>5. /\ specifier' = [specifier EXCEPT ![s] = spec]
        /\ borrowed' = [borrowed EXCEPT ![h] = spec \ {"CONNECT"}]
        /\ handleShare' = [handleShare EXCEPT ![h] = s]
        /\ CurlShare' = s
    BY DEF AssignCurlCache, BorrowedFrom
  <1>6. shareState' \in [Share -> Memory]
    BY <1>1 DEF AssignCurlCache, curl_share_cleanup, TypeOK, Memory
  <1>7. /\ shareState'[s] = "live"
        /\ \A x \in Share :
             /\ shareState[x] = "live" /\ dirty[x] # 0 => shareState'[x] = "live"
             /\ shareState[x] = "live" /\ x # CurlShare => shareState'[x] = "live"
             /\ shareState'[x] = "unborn" => x # s /\ shareState[x] = "unborn"
    BY <1>1, <1>2 DEF AssignCurlCache, curl_share_cleanup, TypeOK
  <1>8. \A c \in Conn :
          conn'[c] # "closed" /\ conn'[c] # "lost" =>
            /\ conn'[c] = conn[c]
            /\ needInit /\ dirty[CurlShare] = 0 => conn[c] # CurlShare
    BY DEF AssignCurlCache, ClosedWithShare
  <1>9. conn' \in [Conn -> Share \cup Handle \cup {"closed", "lost"}]
    BY DEF AssignCurlCache, TypeOK
  <1>10. TypeOK'
    BY <1>3, <1>4, <1>5, <1>6, <1>9 DEF TypeOK, LockData
  <1>11. NoDanglingShare'
    <2> SUFFICES ASSUME NEW k \in Handle, handleShare'[k] # NULL
                 PROVE  /\ handleState'[k] = "live"
                        /\ shareState'[handleShare'[k]] = "live"
                        /\ borrowed'[k] \subseteq specifier'[handleShare'[k]]
      BY DEF NoDanglingShare
    <2>1. CASE k = h
      BY <2>1, <1>5, <1>7 DEF TypeOK
    <2>2. CASE k # h
      <3> DEFINE x == handleShare[k]
      <3>1. handleShare'[k] = x /\ x \in Share /\ borrowed'[k] = borrowed[k]
        BY <2>2, <1>5 DEF TypeOK
      <3>2. /\ handleState[k] = "live"
            /\ shareState[x] = "live"
            /\ borrowed[k] \subseteq specifier[x]
        BY <3>1 DEF NoDanglingShare
      <3>3. dirty[x] # 0
        BY <3>1, IdleMeansUnused
      <3>4. specifier'[x] = specifier[x]
        BY <3>1, <3>3, <1>5 DEF TypeOK, curl_share_setopt
      <3> QED
        BY <2>2, <3>1, <3>2, <3>3, <3>4, <1>7
    <2> QED
      BY <2>1, <2>2
  <1>12. SettingsInForce'
    <2>1. spec \cap Cacheable = flags
      BY <1>1, <1>2, <1>4 DEF AssignCurlCache
    <2>2. specifier'[s] = spec
      BY <1>5 DEF TypeOK
    <2> QED
      BY <2>1, <2>2, <1>5, <1>7, NullIsNoPointer DEF SettingsInForce
  <1>13. PooledConnectionsOwned'
    <2> SUFFICES ASSUME NEW c \in Conn
                 PROVE  /\ conn'[c] \in Share  => shareState'[conn'[c]] = "live"
                        /\ conn'[c] \in Handle => handleState'[conn'[c]] = "live"
      BY DEF PooledConnectionsOwned
    <2>1. CASE conn'[c] = "closed" \/ conn'[c] = "lost"
      BY <2>1, OwnersAreNoWords
    <2>2. CASE conn'[c] # "closed" /\ conn'[c] # "lost"
      <3>1. /\ conn'[c] = conn[c]
            /\ conn[c] \in Share  => shareState[conn[c]] = "live"
            /\ conn[c] \in Handle => handleState[conn[c]] = "live"
        BY <2>2, <1>8 DEF PooledConnectionsOwned
      <3>2. ASSUME conn[c] = CurlShare
            PROVE  shareState'[CurlShare] = "live"
        BY <3>2, <2>2, <1>1, <1>2, <1>7, <1>8
      <3> QED
        BY <3>1, <3>2, <1>7
    <2> QED
      BY <2>1, <2>2
  <1>14. ObjectsNeedTheDll'
    BY <1>5, <1>7 DEF ObjectsNeedTheDll, TypeOK
  <1> QED
    BY <1>3, <1>10, <1>11, <1>12, <1>13, <1>14

\* DLL_PROCESS_ATTACH keeps the invariant.
LEMMA DllAttachKeeps ==
  ASSUME IInv, NEW s \in Share, DllAttach(s)
  PROVE  IInv'
  <1> USE DEF IInv, DllAttach, handleVars
  <1>1. TypeOK'
    BY DEF TypeOK, Memory, LockData, Cacheable, DefaultCache
  <1>2. InUseCountExact'
    BY DEF InUseCountExact, AttachedTo
  <1>3. NoDanglingShare'
    BY DEF NoDanglingShare, TypeOK
  <1>4. SettingsInForce'
    BY NullIsNoPointer DEF SettingsInForce, TypeOK, DefaultCache, Cacheable
  <1>5. HandlesNotShared' /\ PooledConnectionsOwned' /\ ObjectsNeedTheDll'
    BY DEF HandlesNotShared, PooledConnectionsOwned, ObjectsNeedTheDll, TypeOK
  <1> QED
    BY <1>1, <1>2, <1>3, <1>4, <1>5

\* DLL_PROCESS_DETACH keeps the invariant: the share is freed only if idle.
LEMMA DllDetachKeeps ==
  ASSUME IInv, DllDetach
  PROVE  IInv'
  <1> USE DEF IInv, DllDetach, handleVars
  <1>0. CurlShare \in Share /\ shareState[CurlShare] = "live"
    BY DEF SettingsInForce, TypeOK
  <1>1. TypeOK'
    BY <1>0 DEF TypeOK, Memory, curl_share_cleanup
  <1>2. InUseCountExact'
    BY DEF InUseCountExact, AttachedTo
  <1>3. \A x \in Share :
          /\ shareState[x] = "live" /\ dirty[x] # 0 => shareState'[x] = "live"
          /\ x # CurlShare => shareState'[x] = shareState[x]
          /\ shareState'[x] = "unborn" => shareState[x] = "unborn"
    BY <1>0 DEF TypeOK, curl_share_cleanup
  <1>4. NoDanglingShare'
    <2> SUFFICES ASSUME NEW k \in Handle, handleShare[k] # NULL
                 PROVE  shareState'[handleShare[k]] = "live"
      BY DEF NoDanglingShare
    <2>1. handleShare[k] \in Share /\ shareState[handleShare[k]] = "live"
      BY DEF NoDanglingShare, TypeOK
    <2>2. dirty[handleShare[k]] # 0
      BY <2>1, IdleMeansUnused
    <2> QED
      BY <2>1, <2>2, <1>3
  <1>5. PooledConnectionsOwned'
    <2> SUFFICES ASSUME NEW c \in Conn, conn'[c] # "closed"
                 PROVE  /\ conn'[c] \in Share  => shareState'[conn'[c]] = "live"
                        /\ conn'[c] \in Handle => handleState'[conn'[c]] = "live"
      BY OwnersAreNoWords DEF PooledConnectionsOwned
    <2>1. /\ conn'[c] = conn[c]
          /\ dirty[CurlShare] = 0 => conn[c] # CurlShare
      BY DEF ClosedWithShare
    <2> QED
      BY <2>1, <1>0, <1>3 DEF PooledConnectionsOwned
  <1>6. SettingsInForce' /\ HandlesNotShared' /\ ObjectsNeedTheDll'
    BY <1>3 DEF SettingsInForce, HandlesNotShared, ObjectsNeedTheDll
  <1> QED
    BY <1>1, <1>2, <1>4, <1>5, <1>6

\* The constructor keeps the invariant: its new handle joins the share that
\* is current, with or without other handles on it.
LEMMA ConstructKeeps ==
  ASSUME IInv, NEW o \in Object, NEW h \in Handle, NEW s \in Share,
         Construct(o, h, s)
  PROVE  IInv'
  <1> USE DEF IInv, Construct
  <1>1. /\ TypeOK' /\ InUseCountExact' /\ NoDanglingShare' /\ SettingsInForce'
        /\ PooledConnectionsOwned' /\ ObjectsNeedTheDll'
    BY AssignKeeps DEF TypeOK, Memory
  <1>2. HandlesNotShared'
    BY DEF HandlesNotShared, TypeOK
  <1> QED
    BY <1>1, <1>2

\* The destructor keeps the invariant: it takes its handle off the share.
LEMMA DestructKeeps ==
  ASSUME IInv, NEW o \in Object, Destruct(o)
  PROVE  IInv'
  <1> DEFINE h == m_curl[o]
  <1> USE DEF IInv, Destruct, globals
  <1>1. h \in Handle /\ attached
    BY DEF TypeOK, ObjectsNeedTheDll
  <1>2. InUseCountExact' /\ dirty' \in [Share -> Nat]
    BY <1>1, MoveKeepsCount
  <1>3. TypeOK'
    BY <1>1, <1>2 DEF TypeOK, Memory
  <1>4. NoDanglingShare'
    BY <1>1 DEF NoDanglingShare, TypeOK
  <1>5. SettingsInForce' /\ ObjectsNeedTheDll'
    BY DEF SettingsInForce, ObjectsNeedTheDll, TypeOK
  <1>6. HandlesNotShared'
    BY <1>1 DEF HandlesNotShared, TypeOK
  <1>7. PooledConnectionsOwned'
    BY <1>1, OwnersAreNoWords DEF PooledConnectionsOwned, TypeOK
  <1> QED
    BY <1>2, <1>3, <1>4, <1>5, <1>6, <1>7

\* easy_cleanup keeps the invariant: the new handle is on no share and the
\* old one stays where it is.
LEMMA EasyCleanupKeeps ==
  ASSUME IInv, NEW o \in Object, NEW h \in Handle, easy_cleanup(o, h)
  PROVE  IInv'
  <1> USE DEF IInv, easy_cleanup, globals, shareVars
  <1>1. TypeOK'
    BY DEF TypeOK, Memory
  <1>2. InUseCountExact'
    BY DEF InUseCountExact, AttachedTo
  <1>3. NoDanglingShare' /\ SettingsInForce'
    BY DEF NoDanglingShare, SettingsInForce, TypeOK
  <1>4. HandlesNotShared' /\ PooledConnectionsOwned' /\ ObjectsNeedTheDll'
    BY DEF HandlesNotShared, PooledConnectionsOwned, ObjectsNeedTheDll, TypeOK
  <1> QED
    BY <1>1, <1>2, <1>3, <1>4

\* ClearCache and UseCache keep the invariant: they move a handle in use to a
\* new share.
LEMMA NewShareKeeps ==
  ASSUME IInv, NEW o \in Object, NEW s \in Share,
         NEW flags \in SUBSET Cacheable,
         ClearCache(o, s) \/ UseCache(o, s, flags)
  PROVE  IInv'
  <1> USE DEF IInv
  <1>1. m_curl[o] \in Handle /\ handleState[m_curl[o]] = "live" /\ attached
    BY DEF ClearCache, UseCache, TypeOK, HandlesNotShared, ObjectsNeedTheDll
  <1>2. UNCHANGED <<attached, handleState, m_curl>>
    BY DEF ClearCache, UseCache
  <1>3. useCache \in SUBSET Cacheable /\ handleState \in [Handle -> Memory]
        /\ m_curl \in [Object -> Handle \cup {NULL}]
    BY DEF TypeOK
  <1>4. PICK f \in SUBSET Cacheable :
          useCache' = f /\ AssignCurlCache(m_curl[o], s, f, TRUE)
    BY <1>3 DEF ClearCache, UseCache
  <1>5. /\ TypeOK' /\ InUseCountExact' /\ NoDanglingShare' /\ SettingsInForce'
        /\ PooledConnectionsOwned' /\ ObjectsNeedTheDll'
    BY <1>1, <1>2, <1>3, <1>4, AssignKeeps
  <1>6. HandlesNotShared'
    BY <1>2 DEF HandlesNotShared
  <1> QED
    BY <1>5, <1>6

\* A transfer keeps the invariant: a connection enters a pool that exists.
LEMMA PerformKeeps ==
  ASSUME IInv, NEW o \in Object, NEW c \in Conn, Perform(o, c)
  PROVE  IInv'
  <1> DEFINE h == m_curl[o]
  <1> USE DEF IInv, Perform, globals, shareVars, handleVars
  <1>1. h \in Handle /\ handleState[h] = "live"
    BY DEF TypeOK, HandlesNotShared
  <1>2. /\ PoolOf(h) \in Share \cup Handle
        /\ PoolOf(h) \in Share => shareState[PoolOf(h)] = "live"
        /\ PoolOf(h) \in Handle => handleState[PoolOf(h)] = "live"
    BY <1>1, DistinctPointers DEF PoolOf, NoDanglingShare, TypeOK
  <1>3. conn' = [conn EXCEPT ![c] = PoolOf(h)] \/ conn' = [conn EXCEPT ![c] = "closed"]
    OBVIOUS
  <1>4. TypeOK'
    BY <1>2, <1>3 DEF TypeOK
  <1>5. PooledConnectionsOwned'
    BY <1>2, <1>3, OwnersAreNoWords DEF PooledConnectionsOwned, TypeOK
  <1>6. InUseCountExact'
    BY DEF InUseCountExact, AttachedTo
  <1>7. /\ NoDanglingShare' /\ SettingsInForce'
        /\ HandlesNotShared' /\ ObjectsNeedTheDll'
    BY DEF NoDanglingShare, SettingsInForce, HandlesNotShared, ObjectsNeedTheDll
  <1> QED
    BY <1>4, <1>5, <1>6, <1>7

\* Every step of the component keeps the inductive invariant.
LEMMA NextKeeps == IInv /\ [Next]_vars => IInv'
  <1> SUFFICES ASSUME IInv, [Next]_vars PROVE IInv'
    OBVIOUS
  <1>1. ASSUME NEW s \in Share, DllAttach(s) PROVE IInv'
    BY <1>1, DllAttachKeeps
  <1>2. CASE DllDetach
    BY <1>2, DllDetachKeeps
  <1>3. ASSUME NEW o \in Object, NEW h \in Handle, NEW s \in Share,
               Construct(o, h, s)
        PROVE  IInv'
    BY <1>3, ConstructKeeps
  <1>4. ASSUME NEW o \in Object, Destruct(o) PROVE IInv'
    BY <1>4, DestructKeeps
  <1>5. ASSUME NEW o \in Object, NEW h \in Handle, easy_cleanup(o, h)
        PROVE  IInv'
    BY <1>5, EasyCleanupKeeps
  <1>6. ASSUME NEW o \in Object, NEW s \in Share, ClearCache(o, s)
        PROVE  IInv'
    BY <1>6, NewShareKeeps DEF IInv, TypeOK
  <1>7. ASSUME NEW o \in Object, NEW s \in Share,
               NEW flags \in SUBSET Cacheable, UseCache(o, s, flags)
        PROVE  IInv'
    BY <1>7, NewShareKeeps
  <1>8. ASSUME NEW o \in Object, NEW c \in Conn, Perform(o, c) PROVE IInv'
    BY <1>8, PerformKeeps
  <1>9. CASE UNCHANGED vars
    <2> USE <1>9 DEF vars, globals, shareVars, handleVars
    <2>1. TypeOK' /\ InUseCountExact' /\ NoDanglingShare'
      BY DEF IInv, TypeOK, InUseCountExact, AttachedTo, NoDanglingShare
    <2>2. /\ SettingsInForce' /\ HandlesNotShared'
          /\ PooledConnectionsOwned' /\ ObjectsNeedTheDll'
      BY DEF IInv, SettingsInForce, HandlesNotShared, PooledConnectionsOwned,
             ObjectsNeedTheDll
    <2> QED
      BY <2>1, <2>2 DEF IInv
  <1> QED
    BY <1>1, <1>2, <1>3, <1>4, <1>5, <1>6, <1>7, <1>8, <1>9 DEF Next

\* The inductive invariant holds in every reachable state, for every set of
\* objects, shares and connections and every finite set of handles.
THEOREM Invariance == Spec => []IInv
  <1> QED
    BY InitEstablishes, NextKeeps, PTL DEF Spec

\* Type correctness of the share and handle bookkeeping.
THEOREM TypeCorrect == Spec => []TypeOK
  <1>1. IInv => TypeOK
    BY DEF IInv
  <1> QED
    BY <1>1, Invariance, PTL

\* libcurl's count of the handles on a share is exact, so its IN_USE answers,
\* which the component ignores, protect exactly the shares that are in use.
THEOREM CountIsExact == Spec => []InUseCountExact
  <1>1. IInv => InUseCountExact
    BY DEF IInv
  <1> QED
    BY <1>1, Invariance, PTL

\* No easy handle of the component ever uses a freed share or points into one
\* for data that it has given up.
THEOREM ShareMemorySafety == Spec => []NoDanglingShare
  <1>1. IInv => NoDanglingShare
    BY DEF IInv
  <1> QED
    BY <1>1, Invariance, PTL

\* The cache settings the script chose last are in force on the current share
\* although AssignCurlCache ignores every CURLSHE_IN_USE.
THEOREM SettingsAreInForce == Spec => []SettingsInForce
  <1>1. IInv => SettingsInForce
    BY DEF IInv
  <1> QED
    BY <1>1, Invariance, PTL

\* Two objects never drive one easy handle, and none drives a freed one.
THEOREM HandlesAreExclusive == Spec => []HandlesNotShared
  <1>1. IInv => HandlesNotShared
    BY DEF IInv
  <1> QED
    BY <1>1, Invariance, PTL

\* A pooled connection never belongs to a share or a handle that is freed.
THEOREM ConnectionsAreOwned == Spec => []PooledConnectionsOwned
  <1>1. IInv => PooledConnectionsOwned
    BY DEF IInv
  <1> QED
    BY <1>1, Invariance, PTL

=============================================================================
