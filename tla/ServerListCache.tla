---------------------------- MODULE ServerListCache ----------------------------
(***************************************************************************)
(* The server list that PanelDO keeps for its viewers (filterServersCached *)
(* of do-panel.js): one cache for all of them, one query for all who miss  *)
(* it together, and an epoch that a clear_list_cache moves on so that a    *)
(* query older than the clear does not fill the cache again.               *)
(*                                                                         *)
(* The rows of the servers table are abstracted to their version, the      *)
(* number of writes they contain.  "None" is the empty set, "this one" a   *)
(* set with one element.  A write or a clear that is never sent, or an     *)
(* RPC that is lost, is a step that is not taken.                          *)
(*                                                                         *)
(* Operators marked "Defect:" are no part of the model, see OperationJobs. *)
(***************************************************************************)
EXTENDS Naturals

CONSTANTS
  Reader,    \* calls of buildList that may run at a time (sync, latest_push)
  MaxWrites  \* bound: writes to the servers table

ASSUME WritesAssumption == MaxWrites \in Nat

VARIABLES
  servers,       \* version of the servers table
  clears,        \* clear_list_cache calls under way, by the version they announce
  cleared,       \* history: the latest version a processed clear announced
  listCache,     \* version cached
  listInflight,  \* the reader whose query others may share
  listEpoch,
  query,         \* of the reader that started it: "none", "asked", "read"
  epochs,        \* listEpoch when that query started
  fetched,       \* version that query has read
  sharing,       \* the reader whose query a reader awaits
  since          \* history: cleared when the reader called

readerVars == <<query, epochs, fetched, sharing, since>>
listVars == <<servers, clears, cleared, listCache, listInflight, listEpoch, readerVars>>

Version == 0..MaxWrites
AtMostOne(S) == {{}} \cup {{x} : x \in S}

ListTypeOK ==
  /\ servers \in Version
  /\ clears \subseteq Version
  /\ cleared \in Version
  /\ listCache \in AtMostOne(Version)
  /\ listInflight \in AtMostOne(Reader)
  /\ listEpoch \in Nat
  /\ query \in [Reader -> {"none", "asked", "read"}]
  /\ epochs \in [Reader -> Nat]
  /\ fetched \in [Reader -> Version]
  /\ sharing \in [Reader -> AtMostOne(Reader)]
  /\ since \in [Reader -> Version]

ListInit ==
  /\ servers = 0
  /\ clears = {}
  /\ cleared = 0
  /\ listCache = {}
  /\ listInflight = {}
  /\ listEpoch = 0
  /\ query = [r \in Reader |-> "none"]
  /\ epochs = [r \in Reader |-> 0]
  /\ fetched = [r \in Reader |-> 0]
  /\ sharing = [r \in Reader |-> {}]
  /\ since = [r \in Reader |-> 0]

--------------------------------------------------------------------------------
(* The writers.                                                                *)

\* A route changes the servers table and calls clearPanelListCache.
WriteServers ==
  /\ servers < MaxWrites
  /\ servers' = servers + 1
  /\ clears' = clears \cup {servers'}
  /\ UNCHANGED <<cleared, listCache, listInflight, listEpoch, readerVars>>

\* Defect: the clear leaves the query under way to be shared.
ClearCacheOnly(v) ==
  /\ v \in clears
  /\ clears' = clears \ {v}
  /\ cleared' = IF v > cleared THEN v ELSE cleared
  /\ listCache' = {}
  /\ listEpoch' = listEpoch + 1
  /\ UNCHANGED <<servers, listInflight, readerVars>>

ClearListCache(v) ==
  /\ v \in clears
  /\ clears' = clears \ {v}
  /\ cleared' = IF v > cleared THEN v ELSE cleared
  /\ listCache' = {}
  /\ listInflight' = {}
  /\ listEpoch' = listEpoch + 1
  /\ UNCHANGED <<servers, readerVars>>

--------------------------------------------------------------------------------
(* filterServersCached.  A hit answers at once and changes nothing.            *)

\* The TTL: an old entry is never looked at again.
ExpireListCache ==
  /\ listCache # {}
  /\ listCache' = {}
  /\ UNCHANGED <<servers, clears, cleared, listInflight, listEpoch, readerVars>>

Miss(r) == sharing[r] = {} /\ listCache = {}

\* Another reader's query is under way: await that one.
ShareQuery(r, s) ==
  /\ Miss(r)
  /\ s \in listInflight
  /\ sharing' = [sharing EXCEPT ![r] = {s}]
  /\ since' = [since EXCEPT ![r] = cleared]
  /\ UNCHANGED <<servers, clears, cleared, listCache, listInflight, listEpoch, query, epochs, fetched>>

StartQuery(r) ==
  /\ Miss(r)
  /\ listInflight = {}
  /\ listInflight' = {r}
  /\ query' = [query EXCEPT ![r] = "asked"]
  /\ epochs' = [epochs EXCEPT ![r] = listEpoch]
  /\ sharing' = [sharing EXCEPT ![r] = {r}]
  /\ since' = [since EXCEPT ![r] = cleared]
  /\ UNCHANGED <<servers, clears, cleared, listCache, listEpoch, fetched>>

\* D1 answers; its answer is on the way back.
ReadServers(r) ==
  /\ query[r] = "asked"
  /\ query' = [query EXCEPT ![r] = "read"]
  /\ fetched' = [fetched EXCEPT ![r] = servers]
  /\ UNCHANGED <<servers, clears, cleared, listCache, listInflight, listEpoch, epochs, sharing, since>>

\* The query of r is over, well or badly: the finally of r clears listInflight,
\* whosever query it is by now, and everyone who awaits the query of r goes on.
EndQuery(r) ==
  /\ listInflight' = {}
  /\ query' = [query EXCEPT ![r] = "none"]
  /\ sharing' = [s \in Reader |-> sharing[s] \ {r}]
  /\ epochs' = [epochs EXCEPT ![r] = 0]
  /\ fetched' = [fetched EXCEPT ![r] = 0]
  /\ since' = [s \in Reader |-> IF r \in sharing[s] THEN 0 ELSE since[s]]
  /\ UNCHANGED <<servers, clears, cleared, listEpoch>>

\* The rows go into the cache unless a clear came between.
Cacheable(r) == epochs[r] = listEpoch

ReturnRows(r) ==
  /\ query[r] = "read"
  /\ listCache' = IF Cacheable(r) THEN {fetched[r]} ELSE listCache
  /\ EndQuery(r)

FailQuery(r) ==
  /\ query[r] # "none"
  /\ EndQuery(r)
  /\ UNCHANGED listCache

\* The object leaves memory, with whatever was under way in it.
EvictPanel ==
  /\ listCache' = {}
  /\ listInflight' = {}
  /\ listEpoch' = 0
  /\ query' = [r \in Reader |-> "none"]
  /\ epochs' = [r \in Reader |-> 0]
  /\ fetched' = [r \in Reader |-> 0]
  /\ sharing' = [r \in Reader |-> {}]
  /\ since' = [r \in Reader |-> 0]
  /\ UNCHANGED <<servers, clears, cleared>>

\* A reader calls and misses.
ListAsk == \/ \E r, s \in Reader : ShareQuery(r, s)
           \/ \E r \in Reader : StartQuery(r)

ListRest ==
  \/ WriteServers
  \/ \E v \in Version : ClearListCache(v)
  \/ ExpireListCache
  \/ \E r \in Reader : ReadServers(r) \/ ReturnRows(r) \/ FailQuery(r)
  \/ EvictPanel

ListNext == ListAsk \/ ListRest

ListSpec == ListInit /\ [][ListNext]_listVars

--------------------------------------------------------------------------------
(* What is promised (comments at do-panel.js:113 and :161).                    *)

\* A cleared cache stays cleared of the old rows: whatever is cached later
\* contains every write announced by a clear that PanelDO has processed.
CacheFollowsClears == \A v \in listCache : v >= cleared

\* Nor are the old rows handed out to those who ask after the clear, through a
\* query that was already under way: the rows a reader is about to get contain
\* every write announced before it asked.
AnswersFollowClears ==
  \A r \in Reader : \A s \in sharing[r] : query[s] = "read" => fetched[s] >= since[r]

================================================================================
