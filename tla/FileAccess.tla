----------------------------- MODULE FileAccess -----------------------------
(***************************************************************************)
(* The filesystem adapter: FilesystemWorker's operations on the files of   *)
(* one directory below an allowed root, with path_safety's checks, beside  *)
(* another program of the user that edits the files and moves the          *)
(* directory away or puts a junction in its place.  Two operations overlap *)
(* when one outlives its session.  The names themselves are no links.      *)
(***************************************************************************)
EXTENDS Naturals, FiniteSets

CONSTANTS
    FileOps,    \* operations under way
    Items,      \* entries of the subdirectory that fs_delete takes
    Threshold,  \* bulk_delete_threshold
    MaxEdits    \* bound: steps of the other program

ASSUME FileAssumption ==
    Threshold \in Nat /\ MaxEdits \in Nat /\ IsFiniteSet(Items)

VARIABLES
    leads,      \* where the path of the directory leads
    content,    \* content[place][name]
    items,      \* the entries of the subdirectory
    kind,       \* what each operation does
    fpc,        \* where it is
    guards,     \* operations whose directory handles are open
    opened,     \* place its handle, or its resolved path, is at
    temp,       \* its temporary file
    source,     \* content it has read
    snapshot,   \* the children it lists, without those deleted
    disturbed,  \* someone else has written since it began
    strayed,    \* a result came from, or a change went, outside the roots
    gone,       \* entries it has deleted
    added,      \* entries the other program has added
    edits

fileVars == <<leads, content, items, kind, fpc, guards, opened, temp, source,
              snapshot, disturbed, strayed, gone, added, edits>>

Names == {"a", "b"}
Places == {"inside", "outside"}
Kinds == {"read", "write", "move", "copy", "delete"}
None == <<>>
Partial == <<"partial">>
Whole == {<<"initial">>, <<"edited">>} \cup {<<"data", o>> : o \in FileOps}

FileTypeOK ==
    /\ leads \in Places
    /\ content \in [Places -> [Names -> Whole \cup {None, Partial}]]
    /\ items \subseteq Items
    /\ kind \in [FileOps -> Kinds]
    /\ fpc \in [FileOps -> {"start", "resolved", "counted", "guarded", "checked",
                            "open", "copied", "replaced", "listed", "done",
                            "failed"}]
    /\ guards \subseteq FileOps /\ disturbed \subseteq FileOps
    /\ opened \in [FileOps -> Places]
    /\ temp \in [FileOps -> Whole \cup {None, Partial}]
    /\ source \in [FileOps -> Whole \cup {None, Partial}]
    /\ snapshot \in [FileOps -> SUBSET Items]
    /\ strayed \in BOOLEAN
    /\ gone \in [FileOps -> SUBSET Items] /\ added \subseteq Items
    /\ edits \in 0..MaxEdits

FileInit ==
    /\ leads = "inside"
    /\ content = [p \in Places |-> [n \in Names |->
                    IF n = "a" THEN <<"initial">> ELSE None]]
    /\ items \in SUBSET Items
    /\ kind \in [FileOps -> Kinds]
    /\ fpc = [o \in FileOps |-> "start"]
    /\ guards = {} /\ disturbed = {}
    /\ opened = [o \in FileOps |-> "inside"]
    /\ temp = [o \in FileOps |-> None] /\ source = [o \in FileOps |-> None]
    /\ snapshot = [o \in FileOps |-> {}]
    /\ strayed = FALSE /\ gone = [o \in FileOps |-> {}]
    /\ added = {} /\ edits = 0

Goto(o, to) == fpc' = [fpc EXCEPT ![o] = to]

(* An error, or the end: the ExitStack releases the directory handles.     *)
Leave(o, to) == Goto(o, to) /\ guards' = guards \ {o}

(* o changes name n at place p; everybody else under way is disturbed.     *)
Put(o, p, n, c) ==
    /\ content' = [content EXCEPT ![p][n] = c]
    /\ disturbed' = disturbed \cup (FileOps \ {o})
    /\ strayed' = (strayed \/ p = "outside")

UnchangedData == UNCHANGED <<content, items, temp, source, snapshot, disturbed,
                             strayed, gone, added>>
-----------------------------------------------------------------------------
(* The other program.  A directory with an open handle that does not share *)
(* deletion can neither be renamed nor replaced.                           *)
SwapDirectory ==
    /\ edits < MaxEdits /\ guards = {}
    /\ edits' = edits + 1
    /\ leads' = IF leads = "inside" THEN "outside" ELSE "inside"
    /\ UNCHANGED <<kind, fpc, guards, opened>> /\ UnchangedData

EditFile(n) ==
    /\ edits < MaxEdits
    /\ edits' = edits + 1
    /\ content' = [content EXCEPT !["inside"][n] = <<"edited">>]
    /\ disturbed' = FileOps
    /\ UNCHANGED <<leads, items, kind, fpc, guards, opened, temp, source,
                   snapshot, strayed, gone, added>>

AddItem(i) ==
    /\ edits < MaxEdits /\ i \notin items
    /\ edits' = edits + 1
    /\ items' = items \cup {i} /\ added' = added \cup {i}
    /\ UNCHANGED <<leads, content, kind, fpc, guards, opened, temp, source,
                   snapshot, disturbed, strayed, gone>>

(* The Worker dies: handles are gone, temporary files stay behind.         *)
WorkerDies ==
    /\ guards' = {}
    /\ fpc' = [o \in FileOps |-> IF fpc[o] = "done" THEN "done" ELSE "failed"]
    /\ UNCHANGED <<leads, kind, opened, edits>> /\ UnchangedData
-----------------------------------------------------------------------------
(* SafeWindowsPath.parse.                                                  *)
Allowed(place) == place = "inside"

(* The first look: a namespace or a final path that is not allowed fails.  *)
Resolve(o) ==
    /\ fpc[o] = "start"
    /\ \/ Allowed(leads) /\ Goto(o, "resolved")
       \/ Goto(o, "failed")
    /\ UNCHANGED <<leads, kind, guards, opened, edits>> /\ UnchangedData

ReadyToGuard(o) ==
    \/ fpc[o] = "resolved" /\ kind[o] \notin {"read", "delete"}
    \/ fpc[o] = "counted"

(* Mutant: the handles are opened with share-delete, and so do not lock.   *)
GuardShared(o) ==
    /\ ReadyToGuard(o)
    /\ Allowed(leads)
    /\ opened' = [opened EXCEPT ![o] = leads]
    /\ Goto(o, "guarded")
    /\ UNCHANGED <<leads, kind, guards, edits>> /\ UnchangedData

(* guard_directory: open every component, look at its final path, and see  *)
(* that the path still leads there.                                        *)
Guard(o) ==
    /\ ReadyToGuard(o)
    /\ \/ /\ Allowed(leads)
          /\ opened' = [opened EXCEPT ![o] = leads]
          /\ guards' = guards \cup {o}
          /\ Goto(o, "guarded")
       \/ /\ Leave(o, "failed")
          /\ UNCHANGED opened
    /\ UNCHANGED <<leads, kind, edits>> /\ UnchangedData

(* open_verified_binary without a guard: open, ...                         *)
OpenToRead(o) ==
    /\ fpc[o] = "resolved" /\ kind[o] = "read"
    /\ opened' = [opened EXCEPT ![o] = leads]
    /\ \/ /\ content[leads]["a"] # None
          /\ source' = [source EXCEPT ![o] = content[leads]["a"]]
          /\ Goto(o, "open")
       \/ /\ Goto(o, "failed")
          /\ UNCHANGED source
    /\ UNCHANGED <<leads, content, items, kind, guards, temp, snapshot,
                   disturbed, strayed, gone, added, edits>>

(* ... and ask the handle for its final path, before anything is read.     *)
AnswerRead(o) ==
    /\ fpc[o] = "open" /\ kind[o] = "read"
    /\ \/ /\ Allowed(opened[o])
          /\ Goto(o, "done")
          /\ strayed' = (strayed \/ opened[o] = "outside")
       \/ /\ ~Allowed(opened[o])
          /\ Goto(o, "failed")
          /\ UNCHANGED strayed
    /\ UNCHANGED <<leads, content, items, kind, guards, opened, temp, source,
                   snapshot, disturbed, gone, added, edits>>

TargetDir(o) == IF kind[o] = "write" THEN "a" ELSE "b"

(* write: equal bytes are left alone; move: the destination must not       *)
(* exist; copy: it may.                                                    *)
CheckFiles(o) ==
    /\ fpc[o] = "guarded" /\ kind[o] \in {"write", "move", "copy"}
    /\ LET a == content[leads]["a"]
       IN  \/ /\ kind[o] = "write" /\ a # <<"data", o>>
              /\ Goto(o, "checked") /\ UNCHANGED guards
           \/ /\ kind[o] = "write" /\ a = <<"data", o>>
              /\ Leave(o, "done")
           \/ /\ kind[o] # "write" /\ a # None
              /\ kind[o] = "move" => content[leads]["b"] = None
              /\ Goto(o, "checked") /\ UNCHANGED guards
           \/ Leave(o, "failed")
    /\ UNCHANGED <<leads, kind, opened, edits>> /\ UnchangedData

(* The temporary file beside the target: created, ...                      *)
OpenTemp(o) ==
    /\ fpc[o] = "checked"
    /\ \/ /\ source' = [source EXCEPT ![o] = IF kind[o] = "write" THEN <<"data", o>>
                                             ELSE content[leads]["a"]]
          /\ source'[o] # None
          /\ temp' = [temp EXCEPT ![o] = Partial]
          /\ Goto(o, "open") /\ UNCHANGED guards
       \/ /\ Leave(o, "failed")
          /\ UNCHANGED <<source, temp>>
    /\ UNCHANGED <<leads, content, items, kind, opened, snapshot, disturbed,
                   strayed, gone, added, edits>>

(* Mutant: a move removes its source as soon as it has the bytes.          *)
FillTempUnlink(o) ==
    /\ fpc[o] = "open" /\ kind[o] # "read"
    /\ temp' = [temp EXCEPT ![o] = source[o]]
    /\ IF kind[o] = "move" THEN Put(o, leads, "a", None)
       ELSE UNCHANGED <<content, disturbed, strayed>>
    /\ Goto(o, "copied") /\ UNCHANGED guards
    /\ UNCHANGED <<leads, items, kind, opened, source, snapshot, gone, added, edits>>

(* ... written and fsynced; if the disk is full it is removed again.       *)
FillTemp(o) ==
    /\ fpc[o] = "open" /\ kind[o] # "read"
    /\ \/ /\ temp' = [temp EXCEPT ![o] = source[o]]
          /\ Goto(o, "copied") /\ UNCHANGED guards
       \/ /\ temp' = [temp EXCEPT ![o] = None]
          /\ Leave(o, "failed")
    /\ UNCHANGED <<leads, content, items, kind, opened, source, snapshot,
                   disturbed, strayed, gone, added, edits>>

(* os.replace.                                                             *)
Replace(o) ==
    /\ fpc[o] = "copied"
    /\ \/ /\ Allowed(leads)
          /\ Put(o, leads, TargetDir(o), temp[o])
          /\ IF kind[o] = "move" THEN Goto(o, "replaced") /\ UNCHANGED guards
             ELSE Leave(o, "done")
       \/ /\ Leave(o, "failed")
          /\ UNCHANGED <<content, disturbed, strayed>>
    /\ temp' = [temp EXCEPT ![o] = None]
    /\ UNCHANGED <<leads, items, kind, opened, source, snapshot, gone, added, edits>>

(* The end of move: the source goes if its path is still the same.         *)
Unlink(o) ==
    /\ fpc[o] = "replaced"
    /\ \/ Put(o, leads, "a", None) /\ Leave(o, "done")
       \/ Leave(o, "failed") /\ UNCHANGED <<content, disturbed, strayed>>
    /\ UNCHANGED <<leads, items, kind, opened, temp, source, snapshot, gone, added,
                   edits>>
-----------------------------------------------------------------------------

(* fs_delete of the subdirectory: _count_items decides about an approval   *)
(* that the production configuration never gives; ...                      *)
CountItems(o) ==
    /\ fpc[o] = "resolved" /\ kind[o] = "delete"
    /\ Goto(o, IF 1 + Cardinality(items) >= Threshold THEN "failed" ELSE "counted")
    /\ UNCHANGED <<leads, kind, guards, opened, edits>> /\ UnchangedData

(* ... delete_safely lists the children, with the directory guarded, ...   *)
ListChildren(o) ==
    /\ fpc[o] = "guarded" /\ kind[o] = "delete"
    /\ \/ /\ snapshot' = [snapshot EXCEPT ![o] = items]
          /\ Goto(o, "listed") /\ UNCHANGED guards
       \/ /\ Leave(o, "failed")
          /\ UNCHANGED snapshot
    /\ UNCHANGED <<leads, content, items, kind, opened, temp, source, disturbed,
                   strayed, gone, added, edits>>

(* ... and deletes them; one that is gone ends the operation.              *)
DeleteChild(o, i) ==
    /\ fpc[o] = "listed" /\ i \in snapshot[o]
    /\ \/ /\ i \in items
          /\ snapshot' = [snapshot EXCEPT ![o] = @ \ {i}]
          /\ items' = items \ {i}
          /\ gone' = [gone EXCEPT ![o] = @ \cup {i}]
          /\ UNCHANGED <<fpc, guards>>
       \/ /\ Leave(o, "failed")
          /\ UNCHANGED <<snapshot, items, gone>>
    /\ UNCHANGED <<leads, content, kind, opened, temp, source, disturbed,
                   strayed, added, edits>>

(* rmdir: it fails if something new is in the directory.                   *)
RemoveDirectory(o) ==
    /\ fpc[o] = "listed" /\ snapshot[o] = {}
    /\ Leave(o, IF items = {} THEN "done" ELSE "failed")
    /\ UNCHANGED <<leads, kind, opened, edits>> /\ UnchangedData

FileStep(o) ==
    \/ Resolve(o) \/ Guard(o) \/ OpenToRead(o) \/ AnswerRead(o)
    \/ CheckFiles(o) \/ OpenTemp(o) \/ FillTemp(o) \/ Replace(o) \/ Unlink(o)
    \/ CountItems(o) \/ ListChildren(o) \/ RemoveDirectory(o)
    \/ \E i \in Items : DeleteChild(o, i)

FileNext ==
    \/ \E o \in FileOps : FileStep(o)
    \/ SwapDirectory \/ WorkerDies
    \/ \E n \in Names : EditFile(n)
    \/ \E i \in Items : AddItem(i)
-----------------------------------------------------------------------------
(* Whatever another program does to the directory between the checks, no   *)
(* result comes from outside the allowed roots and no change goes there    *)
(* (guard_directory, open_verified_binary).                                *)
InsideRoots == ~strayed

(* A file always has one complete content, also when the Worker dies while *)
(* it writes (_write_temporary, _copy_file, os.replace).                   *)
WholeFiles ==
    \A p \in Places, n \in Names : content[p][n] # Partial

(* Unless someone else writes, what a move has read is at its source or at *)
(* its destination, whatever fails and whenever the Worker dies (move).    *)
MoveKeepsContent ==
    \A o \in FileOps \ disturbed :
        kind[o] = "move" /\ source[o] # None =>
            source[o] \in {content["inside"]["a"], content["inside"]["b"]}

(* Without an approval fs_delete removes fewer entries than the threshold, *)
(* apart from those that came after it had counted (delete, delete_safely).*)
BulkDeleteBounded ==
    \A o \in FileOps :
        gone[o] \ added # {} => 1 + Cardinality(gone[o] \ added) < Threshold
=============================================================================
