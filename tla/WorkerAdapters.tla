--------------------------- MODULE WorkerAdapters ---------------------------
(***************************************************************************)
(* The Worker's adapters to Windows: files (FileAccess), the approval      *)
(* dialog (LocalApproval), desktop input (DesktopInput), UI Automation     *)
(* (UiaActions) and the browser (BrowserSession).  They share no variable, *)
(* so part chooses which one a behaviour is about and the others rest in   *)
(* one of their initial states: the state space is the sum of theirs.      *)
(***************************************************************************)
EXTENDS FileAccess, LocalApproval, DesktopInput, UiaActions, BrowserSession

VARIABLE part

vars == <<fileVars, approvalVars, inputVars, uiaVars, browserVars, part>>

Parts == {"files", "approval", "input", "uia", "browser"}

Resting ==
    /\ IF part = "files" THEN TRUE
       ELSE items = {} /\ kind = [o \in FileOps |-> "read"]
    /\ IF part = "approval" THEN TRUE ELSE route = [r \in Asks |-> "handler"]
    /\ IF part = "input" THEN TRUE
       ELSE backend = "win32" /\ foreground = CHOOSE w \in Windows : TRUE
    /\ IF part = "uia" THEN TRUE
       ELSE /\ tree = CHOOSE t \in Trees : TRUE
            /\ matching = {} /\ elevated = {} /\ uiaCall = "find"
    /\ IF part = "browser" THEN TRUE
       ELSE /\ errand = [c \in BrowserCalls |-> "use"]
            /\ shown = CHOOSE p \in Pages : TRUE

Init ==
    /\ part \in Parts
    /\ Resting
    /\ FileInit /\ LocalApprovalInit /\ InputInit /\ UiaInit /\ BrowserInit

Next ==
    \/ /\ part = "files" /\ FileNext
       /\ UNCHANGED <<approvalVars, inputVars, uiaVars, browserVars, part>>
    \/ /\ part = "approval" /\ LocalApprovalNext
       /\ UNCHANGED <<fileVars, inputVars, uiaVars, browserVars, part>>
    \/ /\ part = "input" /\ InputNext
       /\ UNCHANGED <<fileVars, approvalVars, uiaVars, browserVars, part>>
    \/ /\ part = "uia" /\ UiaNext
       /\ UNCHANGED <<fileVars, approvalVars, inputVars, browserVars, part>>
    \/ /\ part = "browser" /\ BrowserNext
       /\ UNCHANGED <<fileVars, approvalVars, inputVars, uiaVars, part>>

Spec == Init /\ [][Next]_vars

TypeOK ==
    /\ FileTypeOK /\ LocalApprovalTypeOK
    /\ DesktopTypeOK /\ UiaTypeOK /\ BrowserTypeOK
-----------------------------------------------------------------------------
(* No file operation loses data: another program always finds a whole old  *)
(* or new file, the content of a move is in one place at least, and        *)
(* Threshold entries or more are not deleted without confirmation          *)
(* (FilesystemWorker.write, move, delete).                                 *)
NothingLost == WholeFiles /\ MoveKeepsContent /\ BulkDeleteBounded

(* The answer does not hide what reached the desktop: a button that may    *)
(* still be down is reported, and a conflict means that nothing was sent   *)
(* (_repair_failed_click, _failure, mutate).                               *)
InputReported == HeldMeansUncertain /\ ConflictMeansUntouched

(* Browser calls take turns, and a cancel ends the call it names and no    *)
(* other (BrowserWorker._run, cancel).                                     *)
BrowserTurns == Serialized /\ CancelsOwn
=============================================================================
