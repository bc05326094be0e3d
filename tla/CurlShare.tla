------------------------------ MODULE CurlShare ------------------------------
(***************************************************************************)
(* The process-wide libcurl share of the component and the easy handles of  *)
(* the "cURL1C" script objects that use it.                                 *)
(*                                                                         *)
(* One global CURLSH* CurlShare is created when the DLL is attached.  Every *)
(* CcURL object puts its easy handle on that share; "UseCache" and          *)
(* "AssignCurlCache" replace the share under the object that calls them;    *)
(* "easy_cleanup" replaces the object's easy handle.  curl_share_setopt and *)
(* curl_share_cleanup refuse to work while a handle is attached (dirty > 0) *)
(* and the component ignores their answers, so what is freed, what is       *)
(* leaked and which settings are in force depends on the order of calls of  *)
(* several objects.                                                        *)
(***************************************************************************)
EXTENDS Naturals, FiniteSets

CONSTANTS
  Object,   \* the script objects that may be created
  Handle,   \* the CURL easy handles that may be allocated (bound)
  Share,    \* the CURLSH shares that may be allocated (bound)
  Conn,     \* the network connections that may be open (bound)
  NULL      \* the null pointer

ASSUME FiniteHandles == IsFiniteSet(Handle)
ASSUME NullIsNoPointer == NULL \notin Handle \cup Share

ASSUME DistinctPointers == Handle \cap Share = {}
ASSUME OwnersAreNoWords ==
  {"closed", "lost"} \cap (Handle \cup Share) = {}

VARIABLES
  attached,     \* the DLL is loaded: between DLL_PROCESS_ATTACH and _DETACH
  CurlShare,    \* the global share pointer
  useCache,     \* the globals bUseCacheDNS, ...CONNECT, ...SSL, ...COOKIE
  shareState,   \* memory of each share: not allocated yet, allocated, freed
  dirty,        \* Curl_share.dirty, the attached handles libcurl counts
  specifier,    \* Curl_share.specifier, the kinds of data a share shares
  handleState,  \* memory of each easy handle
  handleShare,  \* Curl_easy.share
  borrowed,     \* the kinds of data a handle points into its share for
  m_curl,       \* CcURL::m_curl, NULL while the object does not exist
  conn          \* the pool that owns a connection, or "closed" or "lost"

globals == <<attached, CurlShare, useCache>>
shareVars == <<shareState, dirty, specifier>>
handleVars == <<handleState, handleShare, borrowed>>
vars == <<globals, shareVars, handleVars, m_curl, conn>>

Memory == {"unborn", "live", "freed"}

\* The four kinds of data that the script can switch on and off.
Cacheable == {"DNS", "CONNECT", "SSL_SESSION", "COOKIE"}

\* PSL is left out: the library is built without it and refuses it.
LockData == Cacheable \cup {"HSTS"}

DefaultCache == {"DNS", "CONNECT", "SSL_SESSION"}

-----------------------------------------------------------------------------
(* libcurl: the share *)

\* Mutant: the in-use check of curl_share_cleanup is missing.
CleanupWithoutCheck(s) == "freed"

\* curl_share_cleanup frees the share only when no handle is attached.
curl_share_cleanup(s) == IF dirty[s] = 0 THEN "freed" ELSE shareState[s]

\* Mutant: freeing a share leaves its connections open.
NothingClosed(s) == {}

\* Connections of a share that is freed are closed with it.
ClosedWithShare(s) ==
  IF dirty[s] = 0 THEN {c \in Conn : conn[c] = s} ELSE {}

\* The calls of curl_share_setopt for every kind of data: each is refused
\* while a handle is attached to the share.
curl_share_setopt(s, flags) ==
  IF dirty[s] = 0
  THEN (specifier[s] \ (Cacheable \ flags)) \cup flags \cup {"HSTS"}
  ELSE specifier[s]

\* CURLSHOPT_SHARE of the connections initialises the connection cache of the
\* share anew: the connections it held before are no longer in any pool.
Curl_conncache_init(s, flags) ==
  IF dirty[s] = 0 /\ "CONNECT" \in flags
  THEN {c \in Conn : conn[c] = s}
  ELSE {}

(* libcurl: CURLOPT_SHARE on handle h, leaving share `from' for share `to' *)

\* Mutant: the count of the share that is left is not decremented.
MoveWithoutLeaving(from, to) ==
  [s \in Share |-> IF s = to THEN dirty[s] + 1 ELSE dirty[s]]

\* Mutant: the count of the share that is joined is not incremented.
MoveWithoutJoining(from, to) ==
  [s \in Share |-> IF s = from THEN dirty[s] - 1 ELSE dirty[s]]

DirtyAfterMove(from, to) ==
  LET out == [s \in Share |-> IF s = from THEN dirty[s] - 1 ELSE dirty[s]]
  IN  [s \in Share |-> IF s = to THEN out[s] + 1 ELSE out[s]]

\* The data that a handle points into the share for; the connection pool is
\* looked up through the share at every transfer instead.
BorrowedFrom(spec) == spec \ {"CONNECT"}

-----------------------------------------------------------------------------
(* The component *)

Init ==
  /\ attached = FALSE
  /\ CurlShare = NULL
  /\ useCache = DefaultCache
  /\ shareState = [s \in Share |-> "unborn"]
  /\ dirty = [s \in Share |-> 0]
  /\ specifier = [s \in Share |-> {}]
  /\ handleState = [h \in Handle |-> "unborn"]
  /\ handleShare = [h \in Handle |-> NULL]
  /\ borrowed = [h \in Handle |-> {}]
  /\ m_curl = [o \in Object |-> NULL]
  /\ conn = [c \in Conn |-> "closed"]

\* DLL_PROCESS_ATTACH: the globals of a freshly loaded image have their
\* initial values.
DllAttach(s) ==
  /\ ~attached
  /\ shareState[s] = "unborn"
  /\ attached' = TRUE
  /\ CurlShare' = s
  /\ useCache' = DefaultCache
  /\ shareState' = [shareState EXCEPT ![s] = "live"]
  /\ specifier' = [specifier EXCEPT ![s] = {"DNS", "CONNECT", "SSL_SESSION"}]
  /\ UNCHANGED <<dirty, handleVars, m_curl, conn>>

\* DLL_PROCESS_DETACH: the host unloads the image whatever objects exist;
\* what they point to is unreachable afterwards.
DllDetach ==
  /\ attached
  /\ attached' = FALSE
  /\ shareState' = [shareState EXCEPT ![CurlShare] =
                                          curl_share_cleanup(CurlShare)]
  /\ conn' = [c \in Conn |->
                IF c \in ClosedWithShare(CurlShare) THEN "closed" ELSE conn[c]]
  /\ m_curl' = [o \in Object |-> NULL]
  /\ CurlShare' = NULL
  /\ UNCHANGED <<useCache, dirty, specifier, handleVars>>

\* CcURL::AssignCurlCache for the object whose handle is h.  With needInit
\* (bNeedInitCache) the old share is given up and s is a new one; without it
\* s is the current share.
AssignCurlCache(h, s, flags, needInit) ==
  /\ IF needInit THEN shareState[s] = "unborn" ELSE s = CurlShare
  /\ shareState' =
       IF needInit
       THEN [shareState EXCEPT ![CurlShare] = curl_share_cleanup(CurlShare),
                               ![s] = "live"]
       ELSE shareState
  /\ conn' =
       [c \in Conn |->
          IF needInit /\ c \in ClosedWithShare(CurlShare) THEN "closed"
          ELSE IF c \in Curl_conncache_init(s, flags) THEN "lost"
          ELSE conn[c]]
  /\ CurlShare' = s
  /\ specifier' = [specifier EXCEPT ![s] = curl_share_setopt(s, flags)]
  /\ dirty' = DirtyAfterMove(handleShare[h], s)
  /\ handleShare' = [handleShare EXCEPT ![h] = s]
  /\ borrowed' = [borrowed EXCEPT ![h] =
                                BorrowedFrom(curl_share_setopt(s, flags))]

\* CcURL::CcURL
Construct(o, h, s) ==
  /\ attached
  /\ m_curl[o] = NULL
  /\ handleState[h] = "unborn"
  /\ handleState' = [handleState EXCEPT ![h] = "live"]
  /\ m_curl' = [m_curl EXCEPT ![o] = h]
  /\ AssignCurlCache(h, s, useCache, FALSE)
  /\ UNCHANGED <<attached, useCache>>

\* CcURL::~CcURL, as far as the easy handle goes: curl_easy_cleanup takes the
\* handle off its share and closes the connections of its private pool.
Destruct(o) ==
  LET h == m_curl[o] IN
  /\ h # NULL
  /\ m_curl' = [m_curl EXCEPT ![o] = NULL]
  /\ handleState' = [handleState EXCEPT ![h] = "freed"]
  /\ dirty' = DirtyAfterMove(handleShare[h], NULL)
  /\ handleShare' = [handleShare EXCEPT ![h] = NULL]
  /\ borrowed' = [borrowed EXCEPT ![h] = {}]
  /\ conn' = [c \in Conn |-> IF conn[c] = h THEN "closed" ELSE conn[c]]
  /\ UNCHANGED <<globals, shareState, specifier>>

\* Mutant: easy_cleanup really cleans the handle up and forgets the new one.
CleanupWithoutInit(o, h) ==
  /\ m_curl[o] # NULL
  /\ handleState[h] = "unborn"
  /\ handleState' = [handleState EXCEPT ![m_curl[o]] = "freed"]
  /\ dirty' = DirtyAfterMove(handleShare[m_curl[o]], NULL)
  /\ handleShare' = [handleShare EXCEPT ![m_curl[o]] = NULL]
  /\ UNCHANGED <<globals, shareState, specifier, borrowed, m_curl, conn>>

\* CcURL::easy_cleanup, as far as the easy handle goes: the object gets a new
\* handle with no share; nothing is done to the old one.
easy_cleanup(o, h) ==
  /\ m_curl[o] # NULL
  /\ handleState[h] = "unborn"
  /\ handleState' = [handleState EXCEPT ![h] = "live"]
  /\ m_curl' = [m_curl EXCEPT ![o] = h]
  /\ UNCHANGED <<globals, shareVars, handleShare, borrowed, conn>>

\* The script procedure AssignCurlCache ("clear the cache").
ClearCache(o, s) ==
  /\ m_curl[o] # NULL
  /\ AssignCurlCache(m_curl[o], s, useCache, TRUE)
  /\ UNCHANGED <<attached, useCache, handleState, m_curl>>

\* Mutant: UseCache does not ask for a new share.
UseCacheInPlace(o, s, flags) ==
  /\ m_curl[o] # NULL
  /\ useCache' = flags
  /\ AssignCurlCache(m_curl[o], s, flags, FALSE)
  /\ UNCHANGED <<attached, handleState, m_curl>>

\* The script function UseCache.
UseCache(o, s, flags) ==
  /\ m_curl[o] # NULL
  /\ useCache' = flags
  /\ AssignCurlCache(m_curl[o], s, flags, TRUE)
  /\ UNCHANGED <<attached, handleState, m_curl>>

\* The pool that curl_easy_perform takes connections from.
PoolOf(h) ==
  IF handleShare[h] # NULL /\ "CONNECT" \in specifier[handleShare[h]]
  THEN handleShare[h]
  ELSE h

\* curl_easy_perform opens connection c and leaves it in the pool, or uses a
\* pooled one, which is closed when it cannot be kept.  A request that finds
\* and keeps a pooled connection changes nothing here.
Perform(o, c) ==
  /\ m_curl[o] # NULL
  /\ \/ conn[c] = "closed" /\ conn' = [conn EXCEPT ![c] = PoolOf(m_curl[o])]
     \/ conn[c] = PoolOf(m_curl[o]) /\ conn' = [conn EXCEPT ![c] = "closed"]
  /\ UNCHANGED <<globals, shareVars, handleVars, m_curl>>

Next ==
  \/ \E s \in Share : DllAttach(s)
  \/ DllDetach
  \/ \E o \in Object :
       \/ \E h \in Handle, s \in Share : Construct(o, h, s)
       \/ Destruct(o)
       \/ \E h \in Handle : easy_cleanup(o, h)
       \/ \E s \in Share : ClearCache(o, s)
       \/ \E s \in Share, flags \in SUBSET Cacheable : UseCache(o, s, flags)
       \/ \E c \in Conn : Perform(o, c)

Spec == Init /\ [][Next]_vars

-----------------------------------------------------------------------------
(* Properties *)

TypeOK ==
  /\ attached \in BOOLEAN
  /\ CurlShare \in Share \cup {NULL}
  /\ useCache \in SUBSET Cacheable
  /\ shareState \in [Share -> Memory]
  /\ dirty \in [Share -> Nat]
  /\ specifier \in [Share -> SUBSET LockData]
  /\ handleState \in [Handle -> Memory]
  /\ handleShare \in [Handle -> Share \cup {NULL}]
  /\ borrowed \in [Handle -> SUBSET LockData]
  /\ m_curl \in [Object -> Handle \cup {NULL}]
  /\ conn \in [Conn -> Share \cup Handle \cup {"closed", "lost"}]

AttachedTo(s) == {h \in Handle : handleShare[h] = s}

\* The in-use count that guards freeing and reconfiguring a share is exact:
\* it is the number of easy handles attached to it, whatever order objects are
\* created, reset, moved to a new share and destroyed in.
InUseCountExact == \A s \in Share : dirty[s] = Cardinality(AttachedTo(s))

\* No handle uses a share that is freed, or points into a share for a kind of
\* data (host cache, cookies, sessions) that the share has given up since.
NoDanglingShare ==
  \A h \in Handle :
    handleShare[h] # NULL =>
      /\ handleState[h] = "live"
      /\ shareState[handleShare[h]] = "live"
      /\ borrowed[h] \subseteq specifier[handleShare[h]]

\* The settings of the last UseCache are the ones of the current share: they
\* were not refused because some handle was attached (AssignCurlCache ignores
\* CURLSHE_IN_USE).
SettingsInForce ==
  attached => /\ CurlShare # NULL
              /\ shareState[CurlShare] = "live"
              /\ specifier[CurlShare] \cap Cacheable = useCache

\* Two objects never drive the same easy handle, and an object's handle is
\* allocated memory.
HandlesNotShared ==
  \A o \in Object :
    m_curl[o] # NULL =>
      /\ handleState[m_curl[o]] = "live"
      /\ \A p \in Object : m_curl[p] = m_curl[o] => p = o

\* A pooled connection belongs to a pool that still exists: freeing a share or
\* a handle closes the connections it holds.
PooledConnectionsOwned ==
  \A c \in Conn :
    /\ conn[c] \in Share  => shareState[conn[c]] = "live"
    /\ conn[c] \in Handle => handleState[conn[c]] = "live"

\* Objects exist only while the DLL is loaded; a share that is not allocated
\* yet shares nothing.
ObjectsNeedTheDll ==
  /\ \A o \in Object : m_curl[o] # NULL => attached
  /\ \A s \in Share : shareState[s] = "unborn" => specifier[s] = {}

\* The inductive invariant of the specification.
IInv ==
  /\ TypeOK
  /\ InUseCountExact
  /\ NoDanglingShare
  /\ SettingsInForce
  /\ HandlesNotShared
  /\ PooledConnectionsOwned
  /\ ObjectsNeedTheDll

\* Every easy handle that is allocated is the handle of some object, so that
\* its destructor will clean it up (curl_easy_init.md asks for a matching
\* curl_easy_cleanup).
EveryHandleHasItsObject ==
  attached => \A h \in Handle :
    handleState[h] = "live" => \E o \in Object : m_curl[o] = h

=============================================================================
