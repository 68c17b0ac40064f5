----------------------------- MODULE DumpServer -----------------------------
(***************************************************************************)
(* DumpServer (server.go, server_html.go): the list of the dumps, the card *)
(* of one, the view of its statistics and the download of a file, next to  *)
(* the profile viewer of PprofCache.  These handlers keep nothing; each    *)
(* looks at the directories several times while services write and remove  *)
(* dumps.                                                                  *)
(*                                                                         *)
(* Profile requests and page requests have no variable in common, so each  *)
(* behaviour has requests of one kind, and one page request at a time.     *)
(***************************************************************************)
EXTENDS PprofCache, FiniteSets

CONSTANTS
  Dump,  \* names of dump directories, in the order of os.ReadDir
  None   \* no dump, nothing found

ASSUME DumpAssumption == Dump \subseteq Nat /\ IsFiniteSet(Dump) /\ None \notin Nat

\* What is on disk of a dump, in the order of WriteAll.
Absent == 0     \* no directory
Empty == 1
HalfStats == 2  \* runtime_stats.json is being written
Stats == 3      \* it is complete
Profile == 4    \* so is the profile after it

VARIABLES
  asks,     \* what the clients ask for, "profile" or "page"
  content,  \* of each directory
  pc2,      \* where the page request is; see Answers
  todo, at, \* directories to visit, the one that entry.Info has found
  listed,   \* what listDirFiles found in those visited
  shown,    \* dumps whose statistics the page shows
  changed   \* history: dumps not asked for, or changed since the request began

Answers == {"json", "html", "stats", "file", "error"}

pageVars == <<pc2, todo, at, listed, shown>>
vars == <<cacheVars, asks, content, pageVars, changed>>

PageTypeOK ==
  /\ asks \in {"profile", "page"}
  /\ content \in [Dump -> Absent..Profile]
  /\ pc2 \in {"idle", "walk", "card", "render", "read", "send"} \cup Answers
  /\ todo \subseteq Dump /\ at \in Dump \cup {None}
  /\ listed \in [Dump -> {None} \cup (Absent..Profile)]
  /\ shown \subseteq Dump /\ changed \subseteq Dump

TypeOK == CacheTypeOK /\ PageTypeOK

Blank == [d \in Dump |-> None]

Init ==
  /\ CacheInit
  /\ asks \in {"profile", "page"}
  /\ content = [d \in Dump |-> Absent]
  /\ pc2 = "idle" /\ todo = {} /\ at = None
  /\ listed = Blank /\ shown = {} /\ changed = {}

-----------------------------------------------------------------------------
(* The directories. *)

Changes(d, c) ==
  /\ asks = "page"
  /\ content' = [content EXCEPT ![d] = c]
  /\ changed' = changed \cup {d}
  /\ UNCHANGED <<cacheVars, asks, pageVars>>

Write(d) == content[d] < Profile /\ Changes(d, content[d] + 1)

\* os.RemoveAll, in the order of the names: heap.pprof, runtime_stats.json.
Remove(d) ==
  /\ content[d] # Absent
  /\ Changes(d, CASE content[d] = Profile -> Stats
                  [] content[d] \in {HalfStats, Stats} -> Empty
                  [] content[d] = Empty -> Absent)

-----------------------------------------------------------------------------
(* The handlers. *)

Stay == UNCHANGED <<cacheVars, asks, content>>

Begin(asked) ==
  /\ asks = "page" /\ pc2 = "idle"
  /\ changed' = Dump \ asked
  /\ UNCHANGED <<listed, shown>> /\ Stay

\* ListHandler: the names that os.ReadDir finds.
List ==
  /\ Begin(Dump)
  /\ pc2' = "walk"
  /\ todo' = {d \in Dump : content[d] # Absent} /\ UNCHANGED at

\* The other handlers begin with os.Stat: of the directory for DumpCardHandler
\* and StatsViewHandler, of the file (the statistics) for DownloadHandler.
Ask(label, d, found) ==
  /\ Begin({d})
  /\ IF content[d] >= found THEN pc2' = label /\ at' = d
                            ELSE pc2' = "error" /\ UNCHANGED at
  /\ UNCHANGED todo

Card(d) == Ask("card", d, Empty)
StatsView(d) == Ask("read", d, Empty)
Download(d) == Ask("send", d, HalfStats)

\* ServeHTTP: the path says who answers.
Route == List \/ \E d \in Dump : Card(d) \/ StatsView(d) \/ Download(d)

First(S) == CHOOSE d \in S : \A e \in S : d <= e
Last(S) == CHOOSE d \in S : \A e \in S : d >= e

\* Mutant: an entry that has gone ends the list.
EntryInfoBreaks ==
  /\ pc2 = "walk" /\ todo # {} /\ at = None
  /\ LET d == First(todo) IN
       IF content[d] = Absent THEN todo' = {} /\ UNCHANGED at
                              ELSE todo' = todo \ {d} /\ at' = d
  /\ UNCHANGED <<pc2, listed, shown, changed>> /\ Stay

\* An entry that has gone since is passed over.
EntryInfo ==
  /\ pc2 = "walk" /\ todo # {} /\ at = None
  /\ LET d == First(todo) IN
       /\ todo' = todo \ {d}
       /\ at' = IF content[d] = Absent THEN None ELSE d
  /\ UNCHANGED <<pc2, listed, shown, changed>> /\ Stay

\* listDirFiles; without the directory by now, a list that is null.  A card
\* is always a page for a browser.
ListDirFiles ==
  /\ pc2 \in {"walk", "card"} /\ at # None
  /\ listed' = [listed EXCEPT ![at] = content[at]]
  /\ at' = None
  /\ IF pc2 = "card" THEN pc2' = "render" /\ todo' = {at}
                     ELSE UNCHANGED <<pc2, todo>>
  /\ UNCHANGED <<shown, changed>> /\ Stay

WriteJSON ==
  /\ pc2 = "walk" /\ todo = {} /\ at = None
  /\ pc2' = "json"
  /\ UNCHANGED <<todo, at, listed, shown, changed>> /\ Stay

\* A browser: the newest dump comes first.
RenderDumpList ==
  /\ pc2 = "walk" /\ todo = {} /\ at = None
  /\ pc2' = "render"
  /\ todo' = {d \in Dump : listed[d] # None}
  /\ UNCHANGED <<at, listed, shown, changed>> /\ Stay

\* A file that does not parse counts as none.
Readable(d) == content[d] >= Stats

\* The statistics are read again for each page.
ReadRuntimeStats ==
  /\ pc2 = "render" /\ todo # {}
  /\ LET d == Last(todo) IN
       /\ todo' = todo \ {d}
       /\ shown' = IF Readable(d) THEN shown \cup {d} ELSE shown
  /\ UNCHANGED <<pc2, at, listed, changed>> /\ Stay

Rendered ==
  /\ pc2 = "render" /\ todo = {}
  /\ pc2' = "html"
  /\ UNCHANGED <<todo, at, listed, shown, changed>> /\ Stay

\* Not found, not parsed, or shown.
ReadStats ==
  /\ pc2 = "read"
  /\ pc2' = IF Readable(at) THEN "stats" ELSE "error"
  /\ UNCHANGED <<todo, at, listed, shown, changed>> /\ Stay

\* http.ServeFile opens the file by its name.
ServeFile ==
  /\ pc2 = "send"
  /\ pc2' = IF content[at] >= HalfStats THEN "file" ELSE "error"
  /\ UNCHANGED <<todo, at, listed, shown, changed>> /\ Stay

Answered ==
  /\ pc2 \in Answers
  /\ pc2' = "idle" /\ todo' = {} /\ at' = None
  /\ listed' = Blank /\ shown' = {} /\ changed' = {}
  /\ Stay

Page ==
  \/ Route \/ EntryInfo \/ ListDirFiles \/ WriteJSON \/ RenderDumpList
  \/ ReadRuntimeStats \/ Rendered \/ ReadStats \/ ServeFile \/ Answered

Idle == UNCHANGED <<asks, content, pageVars, changed>>

Next ==
  \/ asks = "profile" /\ CacheNext /\ Idle
  \/ Page
  \/ \E d \in Dump : Write(d) \/ Remove(d)

Spec == Init /\ [][Next]_vars

\* A request that has begun is worked on until it is answered.
FairSpec ==
  /\ Spec
  /\ \A r \in Request : WF_vars(asks = "profile" /\ Handle(r) /\ Idle)

-----------------------------------------------------------------------------
\* What the handlers answer about a dump that stays as it is during a request
\* is so, whatever happens to the other dumps between the looks: it is listed
\* with its files exactly when it exists, and its statistics are shown or sent
\* exactly when they can be.
PageIsExact ==
  \A d \in Dump \ changed :
    /\ pc2 \in {"json", "html"} =>
         listed[d] = IF content[d] = Absent THEN None ELSE content[d]
    /\ pc2 = "html" => (d \in shown <=> Readable(d))
    /\ pc2 = "stats" => Readable(d)
    /\ pc2 = "file" => content[d] >= HalfStats
    /\ pc2 = "error" => content[d] < Stats
=============================================================================
