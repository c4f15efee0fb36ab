---------------------------- MODULE ConfigWatch ----------------------------
(***************************************************************************)
(* conf/watch.go with LoadFromPath and cmd/server.go: which content of the *)
(* configuration file the program runs with, while someone edits the file. *)
(*                                                                         *)
(* The program loads the file, builds and starts the runtime, takes the    *)
(* hash of the file and watches it.  An event other than chmod starts ten  *)
(* seconds in which no further event counts; after five of them the file   *)
(* is hashed, and if it has changed it is loaded, for a test, and a reload *)
(* requested, which loads it again.  (Hashing and loading are taken to be  *)
(* over within the other five seconds.)  A reload for another reason loads *)
(* the file too.  Not every reload takes the content up: the runtime stays *)
(* as it is when the content configures the same nodes and they are        *)
(* unchanged or cannot be prepared.                                        *)
(*                                                                         *)
(* Contents stand for their hashes.  An editor that writes in steps makes  *)
(* several of the writes here; the content in between may be one that does *)
(* not load, as may no file at all.                                        *)
(***************************************************************************)
CONSTANTS
  Good,       \* contents that load
  Bad,        \* contents that do not, with that of a missing file
  Local,      \* the part of the signature a content determines: its nodes
  NoContent   \* before the first load

ASSUME ContentAssumption == Good \cap Bad = {} /\ NoContent \notin Good \cup Bad
ASSUME LocalAssumption == DOMAIN Local = Good

Contents == Good \cup Bad

VARIABLES
  content,    \* the file
  running,    \* the content of the current runtime
  skipped,    \* history: the content with which the last reload kept the old one
  phase,      \* the program: "down", "loaded", "hashed", "watching"
  lastHash,   \* of the content taken for known
  inode,      \* the watch is on the file; FALSE once it was replaced
  notified,   \* an event waits in watcher.Events
  deaf,       \* the ten seconds after an event
  step,       \* the goroutine of that event: "none", "sleep", "load"
  newHash,    \* what it has hashed
  request,    \* a reload is in the channel
  overlooked, \* history: nothing will look at the file because of the last write
  mistaken    \* history: the last look at it took a content for known that
              \* no reload has brought to the runtime

watchVars == <<content, running, skipped, phase, lastHash, inode, notified, deaf, step, newHash,
               request, overlooked, mistaken>>
applied == <<running, skipped>>
watcher == <<lastHash, inode, deaf, step, newHash>>

WatchInit ==
  /\ content \in Contents
  /\ phase = "down" /\ running = NoContent /\ skipped = NoContent /\ lastHash = NoContent
  /\ inode = TRUE /\ notified = FALSE /\ deaf = FALSE
  /\ step = "none" /\ newHash = NoContent /\ request = FALSE
  /\ overlooked = FALSE /\ mistaken = FALSE

----------------------------------------------------------------------------
(* The file.                                                               *)

(* Someone writes the file in place.  No event comes of it before it is    *)
(* watched, and none that counts while the watcher is deaf; what is        *)
(* written in that time before the file is hashed is found all the same.   *)
Write(v) ==
  /\ content' = v
  /\ notified' = (notified \/ (phase = "watching" /\ inode))
  /\ overlooked' = (phase \in {"loaded", "hashed"} \/ ~inode \/ (deaf /\ step # "sleep"))
  /\ UNCHANGED <<applied, phase, watcher, request, mistaken>>

(* Someone renames another file over it.  The watch goes with the old one, *)
(* whose end is its last event (fsnotify).                                 *)
Replace(v) ==
  /\ phase = "watching" /\ inode
  /\ content' = v
  /\ notified' = TRUE
  /\ inode' = FALSE
  /\ overlooked' = (deaf /\ step # "sleep")
  /\ UNCHANGED <<applied, phase, lastHash, deaf, step, newHash, request, mistaken>>

----------------------------------------------------------------------------
(* The program.                                                            *)

(* serverHandle loads the file; a bad one ends the program.                *)
LoadFromPath ==
  /\ phase = "down"
  /\ content \in Good
  /\ running' = content
  /\ phase' = "loaded"
  /\ overlooked' = FALSE
  /\ UNCHANGED <<content, skipped, watcher, notified, request, mistaken>>

(* Watch, called when the runtime has been built: the hash, for which a    *)
(* file that cannot be read is as good as one that is empty.               *)
TakeHash ==
  /\ phase = "loaded"
  /\ lastHash' = content
  /\ phase' = "hashed"
  /\ UNCHANGED <<content, applied, inode, notified, deaf, step, newHash, request, overlooked,
                 mistaken>>

(* The watch.                                                              *)
AddWatch ==
  /\ phase = "hashed"
  /\ phase' = "watching"
  /\ UNCHANGED <<content, applied, watcher, notified, request, overlooked, mistaken>>

(* An event arrives: dropped in the ten seconds after another one, or the  *)
(* first of them.                                                          *)
HandleEvent ==
  /\ notified /\ notified' = FALSE
  /\ \/ deaf /\ UNCHANGED <<deaf, step>>
     \/ ~deaf /\ deaf' = TRUE /\ step' = "sleep"
  /\ UNCHANGED <<content, applied, phase, lastHash, inode, newHash, request, overlooked, mistaken>>

(* After five seconds: the hash, which a missing file has not.             *)
HashFile ==
  /\ step = "sleep"
  /\ newHash' = content
  /\ step' = (IF content = lastHash THEN "none" ELSE "load")
  /\ mistaken' = (content = lastHash /\ content \notin {running, skipped})
  /\ UNCHANGED <<content, applied, phase, lastHash, inode, notified, deaf, request, overlooked>>

(* The content is known, if it loads, and a reload requested: one that is  *)
(* in the channel already will do.                                         *)
LoadChanged ==
  /\ step = "load"
  /\ step' = "none"
  /\ newHash' = NoContent
  /\ IF content \in Good
     THEN lastHash' = newHash /\ request' = TRUE
     ELSE UNCHANGED <<lastHash, request>>
  /\ UNCHANGED <<content, applied, phase, inode, notified, deaf, overlooked, mistaken>>

\* Deaf for no longer than the goroutine sleeps.
EndDeafEarly ==
  /\ deaf
  /\ deaf' = FALSE
  /\ UNCHANGED <<content, applied, phase, lastHash, inode, notified, step, newHash, request,
                 overlooked, mistaken>>

(* Ten seconds after the event.                                            *)
EndDeaf ==
  /\ deaf /\ step = "none"
  /\ deaf' = FALSE
  /\ UNCHANGED <<content, applied, phase, lastHash, inode, notified, step, newHash, request,
                 overlooked, mistaken>>

\* A reload with the configuration that is loaded.
ReloadFileCached ==
  /\ phase = "watching"
  /\ request' = FALSE
  /\ UNCHANGED <<content, applied, phase, watcher, notified, overlooked, mistaken>>

(* A reload, for the file or for another reason, loads the file.  The      *)
(* runtime is kept if the file is bad, and for a content with the same     *)
(* nodes if these cannot be prepared, or are prepared and found unchanged, *)
(* when of its log settings the core's are not applied.  Nodes that differ *)
(* and cannot be prepared end the program.                                 *)
ReloadFile ==
  /\ phase = "watching"
  /\ request' = FALSE
  /\ \/ content \in Bad /\ UNCHANGED applied
     \/ /\ content \in Good /\ Local[content] = Local[running]
        /\ skipped' = content
        /\ UNCHANGED running
     \/ /\ content \in Good
        /\ running' = content /\ skipped' = NoContent
  /\ UNCHANGED <<content, phase, watcher, notified, overlooked, mistaken>>

(* The program ends, of its own (a failed reload for a changed             *)
(* configuration) or not, and may be started again.                        *)
EndProgram ==
  /\ phase # "down"
  /\ phase' = "down" /\ running' = NoContent /\ skipped' = NoContent
  /\ lastHash' = NoContent
  /\ inode' = TRUE /\ notified' = FALSE /\ deaf' = FALSE
  /\ step' = "none" /\ newHash' = NoContent /\ request' = FALSE
  /\ overlooked' = FALSE /\ mistaken' = FALSE
  /\ UNCHANGED content

WatchNext ==
  \/ \E v \in Contents : Write(v) \/ Replace(v)
  \/ LoadFromPath \/ TakeHash \/ AddWatch
  \/ HandleEvent \/ HashFile \/ LoadChanged \/ EndDeaf
  \/ ReloadFile \/ EndProgram

WatchSpec == WatchInit /\ [][WatchNext]_watchVars

----------------------------------------------------------------------------
(* Properties.                                                             *)

(* Every variable keeps to its range, and what the goroutine of Watch      *)
(* (watch.go:44) does lies in the ten seconds.                             *)
WatchTypeOK ==
  /\ content \in Contents
  /\ running \in Good \cup {NoContent} /\ skipped \in Good \cup {NoContent}
  /\ lastHash \in Contents \cup {NoContent} /\ newHash \in Contents \cup {NoContent}
  /\ phase \in {"down", "loaded", "hashed", "watching"}
  /\ step \in {"none", "sleep", "load"}
  /\ {inode, notified, deaf, request, overlooked, mistaken} \subseteq BOOLEAN
  /\ step # "none" => deaf
  /\ (running = NoContent) <=> (phase = "down")

\* The runtime has the nodes of content v, and was made from v or kept by a
\* reload that loaded v.
Reflected(v) ==
  v = running \/ (v = skipped /\ Local[v] = Local[running])

(* When all is quiet, the runtime runs with the file as it is, if that     *)
(* loads, or with the same nodes and other settings of the log: a reload   *)
(* that found nothing else new or could not prepare kept it, and that      *)
(* content counts as known (server.go:189, L197); or nothing looked at the *)
(* file after its last write, which fell before the watch (watch.go:30),   *)
(* into the deaf seconds (L40) or after the file was replaced; or the last *)
(* look compared it with the hash of a content that no reload has brought  *)
(* to the runtime (L51).                                                   *)
NotMissed ==
  phase = "watching" /\ ~notified /\ step = "none" /\ ~request
    => Reflected(content) \/ content \in Bad \/ overlooked \/ mistaken

\* Strengthening of NotMissed: a content the runtime does not reflect is one
\* that an event, the goroutine or a reload is still to find, or was written
\* before the watch.
Attended ==
  /\ skipped # NoContent => phase = "watching" /\ Local[skipped] = Local[running]
  /\ phase \in {"loaded", "hashed"} => content = running \/ overlooked
  /\ phase = "watching" =>
       \/ Reflected(content) \/ content \in Bad \/ overlooked \/ mistaken
       \/ notified /\ ~deaf
       \/ step # "none" \/ request
============================================================================
