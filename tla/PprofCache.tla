----------------------------- MODULE PprofCache -----------------------------
(***************************************************************************)
(* The cache of pprof handlers in DumpServer (server_pprof.go), for the    *)
(* requests of one profile file, while a dump writes the file again (two   *)
(* dumps of one second share their directory) or a cleanup removes it.  A  *)
(* request looks at the file three times: at its ModTime, in the cache     *)
(* under the read lock, and at its content.                                *)
(*                                                                         *)
(* The contents of the file are numbered in the order they were written.   *)
(* The clock of the file system tells any two of them apart, so that the   *)
(* number stands for the ModTime as well.                                  *)
(***************************************************************************)
EXTENDS Integers

CONSTANTS
  Request,     \* goroutines of net/http that ask for the file again and again
  MaxVersion   \* bound on the contents written

ASSUME VersionAssumption == MaxVersion \in Nat

VARIABLES
  exists, complete, \* the file is on disk; its writer has finished it
  version,          \* its content, and its ModTime
  cached,           \* s.profiles[key]; mtime 0 for no entry
  pc, seen, got     \* of each request: the ModTime of Stat, the handler's content

cacheVars == <<exists, complete, version, cached, pc, seen, got>>

CacheTypeOK ==
  /\ exists \in BOOLEAN /\ complete \in BOOLEAN
  /\ version \in 0..MaxVersion
  /\ cached \in [mtime : 0..MaxVersion, content : 0..MaxVersion]
  /\ cached.mtime > 0 => cached.content > 0
  /\ pc \in [Request -> {"idle", "lookup", "build", "store", "serve"}]
  /\ seen \in [Request -> 0..MaxVersion]
  /\ got \in [Request -> 0..MaxVersion]

CacheInit ==
  /\ exists = FALSE /\ complete = FALSE
  /\ version = 0
  /\ cached = [mtime |-> 0, content |-> 0]
  /\ pc = [r \in Request |-> "idle"]
  /\ seen = [r \in Request |-> 0]
  /\ got = [r \in Request |-> 0]

Goto(r, label) == pc' = [pc EXCEPT ![r] = label]

\* os.Stat; a file that is not there is answered with 404.
NotFound(r) ==
  /\ pc[r] = "idle"
  /\ ~exists
  /\ UNCHANGED cacheVars

Stat(r) ==
  /\ pc[r] = "idle"
  /\ exists
  /\ seen' = [seen EXCEPT ![r] = version]
  /\ Goto(r, "lookup")
  /\ UNCHANGED <<exists, complete, version, cached, got>>

\* Mutant: any entry will do.
LookupAny(r) ==
  /\ pc[r] = "lookup"
  /\ IF cached.mtime # 0
       THEN Goto(r, "serve") /\ got' = [got EXCEPT ![r] = cached.content]
       ELSE Goto(r, "build") /\ UNCHANGED got
  /\ UNCHANGED <<exists, complete, version, cached, seen>>

Lookup(r) ==
  /\ pc[r] = "lookup"
  /\ IF cached.mtime = seen[r]
       THEN Goto(r, "serve") /\ got' = [got EXCEPT ![r] = cached.content]
       ELSE Goto(r, "build") /\ UNCHANGED got
  /\ UNCHANGED <<exists, complete, version, cached, seen>>

\* buildPprofHandler reads the file as it is by now, without the lock.
Build(r) ==
  /\ pc[r] = "build"
  /\ exists /\ complete
  /\ got' = [got EXCEPT ![r] = version]
  /\ Goto(r, "store")
  /\ UNCHANGED <<exists, complete, version, cached, seen>>

\* Mutant: the return after an error is missing, and no handler is stored.
BuildFailsStores(r) ==
  /\ pc[r] = "build"
  /\ ~exists \/ ~complete
  /\ got' = [got EXCEPT ![r] = 0]
  /\ Goto(r, "store")
  /\ UNCHANGED <<exists, complete, version, cached, seen>>

\* The file is gone, or half a profile that does not parse: error 500.
BuildFails(r) ==
  /\ pc[r] = "build"
  /\ ~exists \/ ~complete
  /\ Goto(r, "idle")
  /\ UNCHANGED <<exists, complete, version, cached, seen, got>>

\* Mutant: an entry that is there is kept.
StoreIfAbsent(r) ==
  /\ pc[r] = "store"
  /\ cached' = IF cached.mtime = 0 THEN [mtime |-> seen[r], content |-> got[r]]
               ELSE cached
  /\ Goto(r, "serve")
  /\ UNCHANGED <<exists, complete, version, seen, got>>

\* Under the write lock, whatever another request has stored meanwhile.
Store(r) ==
  /\ pc[r] = "store"
  /\ cached' = [mtime |-> seen[r], content |-> got[r]]
  /\ Goto(r, "serve")
  /\ UNCHANGED <<exists, complete, version, seen, got>>

Serve(r) ==
  /\ pc[r] = "serve"
  /\ Goto(r, "idle")
  /\ UNCHANGED <<exists, complete, version, cached, seen, got>>

\* os.Create: a new file, or an old one truncated.
CreateFile ==
  /\ version < MaxVersion
  /\ version' = version + 1
  /\ exists' = TRUE /\ complete' = FALSE
  /\ UNCHANGED <<cached, pc, seen, got>>

FinishFile ==
  /\ exists /\ ~complete
  /\ version < MaxVersion
  /\ version' = version + 1
  /\ complete' = TRUE
  /\ UNCHANGED <<exists, cached, pc, seen, got>>

RemoveFile ==
  /\ exists
  /\ exists' = FALSE /\ complete' = FALSE
  /\ UNCHANGED <<version, cached, pc, seen, got>>

Handle(r) ==
  \/ NotFound(r) \/ Stat(r) \/ Lookup(r) \/ Build(r) \/ BuildFails(r)
  \/ Store(r) \/ Serve(r)

CacheNext ==
  \/ \E r \in Request : Handle(r)
  \/ CreateFile \/ FinishFile \/ RemoveFile

-----------------------------------------------------------------------------
\* "Invalidated by mtime": no request is answered with a profile older than
\* the file it saw, though the file may change between its three looks and
\* other requests store what they built in any order.
NeverOlder == \A r \in Request : pc[r] = "serve" => got[r] >= seen[r]

\* A file that is no longer written (the model writes it MaxVersion times) is
\* built again only until the requests that saw an earlier ModTime have stored
\* theirs: then the cache holds, and no request replaces its entry any more.
CacheSettles == <>[](\A r \in Request : pc[r] # "store")
=============================================================================
