------------------------ MODULE WorkerAdaptersProofs -----------------------
(***************************************************************************)
(* What the Worker's adapters promise, for every number of operations,     *)
(* requests, windows and calls, and every width of the screen.             *)
(***************************************************************************)
EXTENDS WorkerAdapters, FiniteSetTheorems, SequenceTheorems, TLAPS

(* The adapters share no variable.                                         *)
LEMMA AdapterSteps ==
  [Next]_vars => /\ [FileNext]_fileVars /\ [LocalApprovalNext]_approvalVars
                 /\ [InputNext]_inputVars /\ [UiaNext]_uiaVars /\ [BrowserNext]_browserVars
  BY DEF Next, vars
-----------------------------------------------------------------------------
(* What the operation is, once it has come so far.                         *)
KindInv ==
    \A o \in FileOps :
        /\ fpc[o] \in {"counted", "listed"} => kind[o] = "delete"
        /\ fpc[o] = "guarded" => kind[o] # "read"
        /\ fpc[o] \in {"checked", "copied"} => kind[o] \in {"write", "move", "copy"}
        /\ fpc[o] = "open" => kind[o] # "delete"
        /\ fpc[o] = "replaced" => kind[o] = "move"

Guarded(o) ==
    \/ fpc[o] \in {"guarded", "checked", "copied", "replaced", "listed"}
    \/ fpc[o] = "open" /\ kind[o] # "read"

(* Whoever works in the directory has its handles open, and then it stays. *)
GuardInv ==
    /\ \A o \in FileOps : Guarded(o) => o \in guards
    /\ guards # {} => leads = "inside"

(* A temporary file that replaces another is whole.                        *)
TempInv ==
    \A o \in FileOps :
        /\ source[o] # Partial
        /\ fpc[o] = "copied" => temp[o] = source[o]

(* Where the content of a move is, while it is left alone.                 *)
MoveInv ==
    \A o \in FileOps : kind[o] = "move" =>
        /\ fpc[o] \in {"start", "resolved", "guarded", "checked"} => source[o] = None
        /\ o \notin disturbed /\ fpc[o] \in {"open", "copied"} =>
             content["inside"]["a"] = source[o]
        /\ o \notin disturbed /\ fpc[o] = "replaced" => content["inside"]["b"] = source[o]

(* What a delete has taken and may still take, of what it counted.         *)
CountInv ==
    \A o \in FileOps :
        /\ fpc[o] \in {"start", "resolved", "counted", "guarded"} => gone[o] = {}
        /\ kind[o] = "delete" /\ fpc[o] \in {"counted", "guarded", "listed"} =>
             1 + Cardinality((items \cup gone[o]) \ added) < Threshold

FileInv ==
    /\ FileTypeOK /\ KindInv /\ GuardInv /\ TempInv /\ MoveInv /\ CountInv
    /\ InsideRoots /\ WholeFiles /\ MoveKeepsContent /\ BulkDeleteBounded

(* The contents of files are told apart.                                   *)
LEMMA Contents ==
  /\ None # Partial /\ <<"initial">> # Partial /\ <<"edited">> # Partial
  /\ \A o \in FileOps : <<"data", o>> # Partial /\ <<"data", o>> # None
  BY DEF None, Partial

LEMMA InitFileInv == FileInit => FileInv
<1> SUFFICES ASSUME FileInit PROVE FileInv
  OBVIOUS
<1>1. FileTypeOK
  <2>1. <<"initial">> \in Whole
    BY DEF Whole
  <2>2. content \in [Places -> [Names -> Whole \cup {None, Partial}]]
    BY <2>1 DEF FileInit
  <2>3. /\ items \subseteq Items /\ edits \in 0..MaxEdits /\ leads \in Places
        /\ opened \in [FileOps -> Places]
    BY FileAssumption DEF FileInit, Places
  <2>4. /\ kind \in [FileOps -> Kinds] /\ snapshot \in [FileOps -> SUBSET Items]
        /\ gone \in [FileOps -> SUBSET Items]
        /\ temp \in [FileOps -> Whole \cup {None, Partial}]
        /\ source \in [FileOps -> Whole \cup {None, Partial}]
    BY DEF FileInit
  <2> QED
    BY <2>2, <2>3, <2>4 DEF FileInit, FileTypeOK
<1>2. KindInv /\ GuardInv /\ InsideRoots
  BY DEF FileInit, KindInv, GuardInv, Guarded, InsideRoots
<1>3. TempInv /\ WholeFiles
  BY Contents DEF FileInit, TempInv, WholeFiles
<1>4. MoveInv /\ MoveKeepsContent
  BY DEF FileInit, MoveInv, MoveKeepsContent
<1>5. CountInv /\ BulkDeleteBounded
  BY DEF FileInit, CountInv, BulkDeleteBounded
<1> QED
  BY <1>1, <1>2, <1>3, <1>4, <1>5 DEF FileInv

(* A file is replaced.                                                     *)
LEMMA PutEffect ==
  ASSUME NEW W, NEW f \in [Places -> [Names -> W]], NEW p \in Places, NEW n \in Names, NEW c \in W
  PROVE  /\ [f EXCEPT ![p][n] = c] \in [Places -> [Names -> W]]
         /\ [f EXCEPT ![p][n] = c][p][n] = c
         /\ \A q \in Places, m \in Names :
              q # p \/ m # n => [f EXCEPT ![p][n] = c][q][m] = f[q][m]
  OBVIOUS

(* The types.                                                              *)
LEMMA NextFileTypes == FileInv /\ [FileNext]_fileVars => FileTypeOK'
<1> SUFFICES ASSUME FileInv, [FileNext]_fileVars PROVE FileTypeOK'
  OBVIOUS
<1>0. FileTypeOK /\ TempInv /\ KindInv
  BY DEF FileInv
<1>1. ASSUME NEW o \in FileOps, Resolve(o) PROVE FileTypeOK'
  BY <1>0, <1>1, FileAssumption DEF Resolve, Goto, UnchangedData, FileTypeOK, Whole, Names, Places
<1>2. ASSUME NEW o \in FileOps, Guard(o) PROVE FileTypeOK'
  BY <1>0, <1>2, FileAssumption DEF Guard, ReadyToGuard, Allowed, Leave, Goto, UnchangedData,
     FileTypeOK, Whole, Names, Places
<1>3. ASSUME NEW o \in FileOps, OpenToRead(o) PROVE FileTypeOK'
  BY <1>0, <1>3, FileAssumption DEF OpenToRead, Goto, FileTypeOK, Whole, Names, Places
<1>4. ASSUME NEW o \in FileOps, AnswerRead(o) PROVE FileTypeOK'
  BY <1>0, <1>4, FileAssumption DEF AnswerRead, Allowed, Goto, FileTypeOK, Whole, Names, Places
<1>5. ASSUME NEW o \in FileOps, CheckFiles(o) PROVE FileTypeOK'
  BY <1>0, <1>5, FileAssumption DEF CheckFiles, Leave, Goto, UnchangedData, FileTypeOK, Whole,
     Names, Places
<1>6. ASSUME NEW o \in FileOps, OpenTemp(o) PROVE FileTypeOK'
  BY <1>0, <1>6, FileAssumption DEF OpenTemp, Leave, Goto, FileTypeOK, Whole, Names, Places
<1>7. ASSUME NEW o \in FileOps, FillTemp(o) PROVE FileTypeOK'
  BY <1>0, <1>7, FileAssumption DEF FillTemp, Leave, Goto, FileTypeOK, Whole, Names, Places
<1>8. ASSUME NEW o \in FileOps, Replace(o) PROVE FileTypeOK'
  BY <1>0, <1>8, FileAssumption DEF Replace, Allowed, Put, TargetDir, Leave, Goto, FileTypeOK,
     Whole, Names, Places
<1>9. ASSUME NEW o \in FileOps, Unlink(o) PROVE FileTypeOK'
  <2>1. "a" \in Names /\ leads \in Places
    BY <1>0 DEF Names, FileTypeOK
  <2>2. content' = content \/ content' = [content EXCEPT ![leads]["a"] = None]
    BY <1>9 DEF Unlink, Put
  <2>3. content' \in [Places -> [Names -> Whole \cup {None, Partial}]]
    <3>1. PICK W : W = Whole \cup {None, Partial}
      OBVIOUS
    <3>2. content \in [Places -> [Names -> W]] /\ None \in W
      BY <1>0, <3>1 DEF FileTypeOK
    <3>3. content' \in [Places -> [Names -> W]]
      BY <2>1, <2>2, <3>2, PutEffect
    <3> QED
      BY <3>1, <3>3
  <2> QED
    BY <1>0, <1>9, <2>3 DEF Unlink, Put, Leave, Goto, FileTypeOK
<1>10. ASSUME NEW o \in FileOps, CountItems(o) PROVE FileTypeOK'
  BY <1>0, <1>10, FileAssumption DEF CountItems, Goto, UnchangedData, FileTypeOK, Whole, Names,
     Places
<1>11. ASSUME NEW o \in FileOps, ListChildren(o) PROVE FileTypeOK'
  BY <1>0, <1>11, FileAssumption DEF ListChildren, Leave, Goto, FileTypeOK, Whole, Names, Places
<1>12. ASSUME NEW o \in FileOps, RemoveDirectory(o) PROVE FileTypeOK'
  BY <1>0, <1>12, FileAssumption DEF RemoveDirectory, Leave, Goto, UnchangedData, FileTypeOK,
     Whole, Names, Places
<1>13. ASSUME NEW o \in FileOps, NEW i \in Items, DeleteChild(o, i) PROVE FileTypeOK'
  BY <1>0, <1>13, FileAssumption DEF DeleteChild, Leave, Goto, FileTypeOK, Whole, Names, Places
<1>14. ASSUME SwapDirectory PROVE FileTypeOK'
  BY <1>0, <1>14, FileAssumption DEF SwapDirectory, UnchangedData, FileTypeOK, Whole, Names, Places
<1>15. ASSUME WorkerDies PROVE FileTypeOK'
  BY <1>0, <1>15, FileAssumption DEF WorkerDies, UnchangedData, FileTypeOK, Whole, Names, Places
<1>16. ASSUME NEW n \in Names, EditFile(n) PROVE FileTypeOK'
  BY <1>0, <1>16, FileAssumption DEF EditFile, FileTypeOK, Whole, Names, Places
<1>17. ASSUME NEW i \in Items, AddItem(i) PROVE FileTypeOK'
  BY <1>0, <1>17, FileAssumption DEF AddItem, FileTypeOK, Whole, Names, Places
<1>18. ASSUME UNCHANGED fileVars PROVE FileTypeOK'
  BY <1>0, <1>18, FileAssumption DEF fileVars, FileTypeOK, Whole, Names, Places
<1> QED
  BY <1>1, <1>2, <1>3, <1>4, <1>5, <1>6, <1>7, <1>8, <1>9,
     <1>10, <1>11, <1>12, <1>13, <1>14, <1>15, <1>16, <1>17, <1>18 DEF FileNext, FileStep

(* An operation follows its own path.                                      *)
LEMMA NextKindInv == FileInv /\ [FileNext]_fileVars => KindInv'
<1> SUFFICES ASSUME FileInv, [FileNext]_fileVars PROVE KindInv'
  OBVIOUS
<1>0. FileTypeOK /\ KindInv
  BY DEF FileInv
<1>1. ASSUME NEW o \in FileOps, Resolve(o) PROVE KindInv'
  BY <1>0, <1>1 DEF Resolve, Goto, UnchangedData, FileTypeOK, KindInv
<1>2. ASSUME NEW o \in FileOps, Guard(o) PROVE KindInv'
  BY <1>0, <1>2 DEF Guard, ReadyToGuard, Allowed, Leave, Goto, UnchangedData, FileTypeOK, KindInv
<1>3. ASSUME NEW o \in FileOps, OpenToRead(o) PROVE KindInv'
  BY <1>0, <1>3 DEF OpenToRead, Goto, FileTypeOK, KindInv
<1>4. ASSUME NEW o \in FileOps, AnswerRead(o) PROVE KindInv'
  BY <1>0, <1>4 DEF AnswerRead, Allowed, Goto, FileTypeOK, KindInv
<1>5. ASSUME NEW o \in FileOps, CheckFiles(o) PROVE KindInv'
  BY <1>0, <1>5 DEF CheckFiles, Leave, Goto, UnchangedData, FileTypeOK, KindInv
<1>6. ASSUME NEW o \in FileOps, OpenTemp(o) PROVE KindInv'
  BY <1>0, <1>6 DEF OpenTemp, Leave, Goto, FileTypeOK, KindInv
<1>7. ASSUME NEW o \in FileOps, FillTemp(o) PROVE KindInv'
  BY <1>0, <1>7 DEF FillTemp, Leave, Goto, FileTypeOK, KindInv, Kinds
<1>8. ASSUME NEW o \in FileOps, Replace(o) PROVE KindInv'
  BY <1>0, <1>8 DEF Replace, Allowed, Put, TargetDir, Leave, Goto, FileTypeOK, KindInv
<1>9. ASSUME NEW o \in FileOps, Unlink(o) PROVE KindInv'
  BY <1>0, <1>9 DEF Unlink, Put, Leave, Goto, FileTypeOK, KindInv
<1>10. ASSUME NEW o \in FileOps, CountItems(o) PROVE KindInv'
  BY <1>0, <1>10 DEF CountItems, Goto, UnchangedData, FileTypeOK, KindInv
<1>11. ASSUME NEW o \in FileOps, ListChildren(o) PROVE KindInv'
  BY <1>0, <1>11 DEF ListChildren, Leave, Goto, FileTypeOK, KindInv
<1>12. ASSUME NEW o \in FileOps, RemoveDirectory(o) PROVE KindInv'
  BY <1>0, <1>12 DEF RemoveDirectory, Leave, Goto, UnchangedData, FileTypeOK, KindInv
<1>13. ASSUME NEW o \in FileOps, NEW i \in Items, DeleteChild(o, i) PROVE KindInv'
  BY <1>0, <1>13 DEF DeleteChild, Leave, Goto, FileTypeOK, KindInv
<1>14. ASSUME SwapDirectory PROVE KindInv'
  BY <1>0, <1>14 DEF SwapDirectory, UnchangedData, FileTypeOK, KindInv
<1>15. ASSUME WorkerDies PROVE KindInv'
  BY <1>0, <1>15 DEF WorkerDies, UnchangedData, FileTypeOK, KindInv
<1>16. ASSUME NEW n \in Names, EditFile(n) PROVE KindInv'
  BY <1>0, <1>16 DEF EditFile, FileTypeOK, KindInv
<1>17. ASSUME NEW i \in Items, AddItem(i) PROVE KindInv'
  BY <1>0, <1>17 DEF AddItem, FileTypeOK, KindInv
<1>18. ASSUME UNCHANGED fileVars PROVE KindInv'
  BY <1>0, <1>18 DEF fileVars, FileTypeOK, KindInv
<1> QED
  BY <1>1, <1>2, <1>3, <1>4, <1>5, <1>6, <1>7, <1>8, <1>9,
     <1>10, <1>11, <1>12, <1>13, <1>14, <1>15, <1>16, <1>17, <1>18 DEF FileNext, FileStep

(* Nobody moves a directory somebody works in.                             *)
LEMMA NextGuardInv == FileInv /\ [FileNext]_fileVars => GuardInv'
<1> SUFFICES ASSUME FileInv, [FileNext]_fileVars PROVE GuardInv'
  OBVIOUS
<1>0. FileTypeOK /\ KindInv /\ GuardInv
  BY DEF FileInv
<1>1. ASSUME NEW o \in FileOps, Resolve(o) PROVE GuardInv'
  BY <1>0, <1>1 DEF Resolve, Goto, UnchangedData, FileTypeOK, KindInv, GuardInv, Guarded
<1>2. ASSUME NEW o \in FileOps, Guard(o) PROVE GuardInv'
  BY <1>0, <1>2 DEF Guard, ReadyToGuard, Allowed, Leave, Goto, UnchangedData, FileTypeOK, KindInv,
     GuardInv, Guarded
<1>3. ASSUME NEW o \in FileOps, OpenToRead(o) PROVE GuardInv'
  BY <1>0, <1>3 DEF OpenToRead, Goto, FileTypeOK, KindInv, GuardInv, Guarded
<1>4. ASSUME NEW o \in FileOps, AnswerRead(o) PROVE GuardInv'
  BY <1>0, <1>4 DEF AnswerRead, Allowed, Goto, FileTypeOK, KindInv, GuardInv, Guarded
<1>5. ASSUME NEW o \in FileOps, CheckFiles(o) PROVE GuardInv'
  BY <1>0, <1>5 DEF CheckFiles, Leave, Goto, UnchangedData, FileTypeOK, KindInv, GuardInv, Guarded
<1>6. ASSUME NEW o \in FileOps, OpenTemp(o) PROVE GuardInv'
  BY <1>0, <1>6 DEF OpenTemp, Leave, Goto, FileTypeOK, KindInv, GuardInv, Guarded
<1>7. ASSUME NEW o \in FileOps, FillTemp(o) PROVE GuardInv'
  BY <1>0, <1>7 DEF FillTemp, Leave, Goto, FileTypeOK, KindInv, Kinds, GuardInv, Guarded
<1>8. ASSUME NEW o \in FileOps, Replace(o) PROVE GuardInv'
  BY <1>0, <1>8 DEF Replace, Allowed, Put, TargetDir, Leave, Goto, FileTypeOK, KindInv, GuardInv,
     Guarded
<1>9. ASSUME NEW o \in FileOps, Unlink(o) PROVE GuardInv'
  BY <1>0, <1>9 DEF Unlink, Put, Leave, Goto, FileTypeOK, KindInv, GuardInv, Guarded
<1>10. ASSUME NEW o \in FileOps, CountItems(o) PROVE GuardInv'
  BY <1>0, <1>10 DEF CountItems, Goto, UnchangedData, FileTypeOK, KindInv, GuardInv, Guarded
<1>11. ASSUME NEW o \in FileOps, ListChildren(o) PROVE GuardInv'
  BY <1>0, <1>11 DEF ListChildren, Leave, Goto, FileTypeOK, KindInv, GuardInv, Guarded
<1>12. ASSUME NEW o \in FileOps, RemoveDirectory(o) PROVE GuardInv'
  BY <1>0, <1>12 DEF RemoveDirectory, Leave, Goto, UnchangedData, FileTypeOK, KindInv, GuardInv,
     Guarded
<1>13. ASSUME NEW o \in FileOps, NEW i \in Items, DeleteChild(o, i) PROVE GuardInv'
  BY <1>0, <1>13 DEF DeleteChild, Leave, Goto, FileTypeOK, KindInv, GuardInv, Guarded
<1>14. ASSUME SwapDirectory PROVE GuardInv'
  BY <1>0, <1>14 DEF SwapDirectory, UnchangedData, FileTypeOK, KindInv, GuardInv, Guarded
<1>15. ASSUME WorkerDies PROVE GuardInv'
  BY <1>0, <1>15 DEF WorkerDies, UnchangedData, FileTypeOK, KindInv, GuardInv, Guarded
<1>16. ASSUME NEW n \in Names, EditFile(n) PROVE GuardInv'
  BY <1>0, <1>16 DEF EditFile, FileTypeOK, KindInv, GuardInv, Guarded
<1>17. ASSUME NEW i \in Items, AddItem(i) PROVE GuardInv'
  BY <1>0, <1>17 DEF AddItem, FileTypeOK, KindInv, GuardInv, Guarded
<1>18. ASSUME UNCHANGED fileVars PROVE GuardInv'
  BY <1>0, <1>18 DEF fileVars, FileTypeOK, KindInv, GuardInv, Guarded
<1> QED
  BY <1>1, <1>2, <1>3, <1>4, <1>5, <1>6, <1>7, <1>8, <1>9,
     <1>10, <1>11, <1>12, <1>13, <1>14, <1>15, <1>16, <1>17, <1>18 DEF FileNext, FileStep

(* Results and changes stay below the roots.                               *)
LEMMA NextInsideRoots == FileInv /\ [FileNext]_fileVars => InsideRoots'
<1> SUFFICES ASSUME FileInv, [FileNext]_fileVars PROVE InsideRoots'
  OBVIOUS
<1>0. FileTypeOK /\ GuardInv /\ InsideRoots
  BY DEF FileInv
<1>1. ASSUME NEW o \in FileOps, Resolve(o) PROVE InsideRoots'
  BY <1>0, <1>1 DEF Resolve, Goto, UnchangedData, FileTypeOK, GuardInv, Guarded, InsideRoots
<1>2. ASSUME NEW o \in FileOps, Guard(o) PROVE InsideRoots'
  BY <1>0, <1>2 DEF Guard, ReadyToGuard, Allowed, Leave, Goto, UnchangedData, FileTypeOK,
     GuardInv, Guarded, InsideRoots
<1>3. ASSUME NEW o \in FileOps, OpenToRead(o) PROVE InsideRoots'
  BY <1>0, <1>3 DEF OpenToRead, Goto, FileTypeOK, GuardInv, Guarded, InsideRoots
<1>4. ASSUME NEW o \in FileOps, AnswerRead(o) PROVE InsideRoots'
  BY <1>0, <1>4 DEF AnswerRead, Allowed, Goto, FileTypeOK, GuardInv, Guarded, InsideRoots
<1>5. ASSUME NEW o \in FileOps, CheckFiles(o) PROVE InsideRoots'
  BY <1>0, <1>5 DEF CheckFiles, Leave, Goto, UnchangedData, FileTypeOK, GuardInv, Guarded,
     InsideRoots
<1>6. ASSUME NEW o \in FileOps, OpenTemp(o) PROVE InsideRoots'
  BY <1>0, <1>6 DEF OpenTemp, Leave, Goto, FileTypeOK, GuardInv, Guarded, InsideRoots
<1>7. ASSUME NEW o \in FileOps, FillTemp(o) PROVE InsideRoots'
  BY <1>0, <1>7 DEF FillTemp, Leave, Goto, FileTypeOK, GuardInv, Guarded, InsideRoots
<1>8. ASSUME NEW o \in FileOps, Replace(o) PROVE InsideRoots'
  BY <1>0, <1>8 DEF Replace, Allowed, Put, TargetDir, Leave, Goto, FileTypeOK, GuardInv, Guarded,
     InsideRoots
<1>9. ASSUME NEW o \in FileOps, Unlink(o) PROVE InsideRoots'
  BY <1>0, <1>9 DEF Unlink, Put, Leave, Goto, FileTypeOK, GuardInv, Guarded, InsideRoots
<1>10. ASSUME NEW o \in FileOps, CountItems(o) PROVE InsideRoots'
  BY <1>0, <1>10 DEF CountItems, Goto, UnchangedData, FileTypeOK, GuardInv, Guarded, InsideRoots
<1>11. ASSUME NEW o \in FileOps, ListChildren(o) PROVE InsideRoots'
  BY <1>0, <1>11 DEF ListChildren, Leave, Goto, FileTypeOK, GuardInv, Guarded, InsideRoots
<1>12. ASSUME NEW o \in FileOps, RemoveDirectory(o) PROVE InsideRoots'
  BY <1>0, <1>12 DEF RemoveDirectory, Leave, Goto, UnchangedData, FileTypeOK, GuardInv, Guarded,
     InsideRoots
<1>13. ASSUME NEW o \in FileOps, NEW i \in Items, DeleteChild(o, i) PROVE InsideRoots'
  BY <1>0, <1>13 DEF DeleteChild, Leave, Goto, FileTypeOK, GuardInv, Guarded, InsideRoots
<1>14. ASSUME SwapDirectory PROVE InsideRoots'
  BY <1>0, <1>14 DEF SwapDirectory, UnchangedData, FileTypeOK, GuardInv, Guarded, InsideRoots
<1>15. ASSUME WorkerDies PROVE InsideRoots'
  BY <1>0, <1>15 DEF WorkerDies, UnchangedData, FileTypeOK, GuardInv, Guarded, InsideRoots
<1>16. ASSUME NEW n \in Names, EditFile(n) PROVE InsideRoots'
  BY <1>0, <1>16 DEF EditFile, FileTypeOK, GuardInv, Guarded, InsideRoots
<1>17. ASSUME NEW i \in Items, AddItem(i) PROVE InsideRoots'
  BY <1>0, <1>17 DEF AddItem, FileTypeOK, GuardInv, Guarded, InsideRoots
<1>18. ASSUME UNCHANGED fileVars PROVE InsideRoots'
  BY <1>0, <1>18 DEF fileVars, FileTypeOK, GuardInv, Guarded, InsideRoots
<1> QED
  BY <1>1, <1>2, <1>3, <1>4, <1>5, <1>6, <1>7, <1>8, <1>9,
     <1>10, <1>11, <1>12, <1>13, <1>14, <1>15, <1>16, <1>17, <1>18 DEF FileNext, FileStep

(* A temporary file is whole before it replaces another.                   *)
LEMMA NextTempInv == FileInv /\ [FileNext]_fileVars => TempInv'
<1> SUFFICES ASSUME FileInv, [FileNext]_fileVars PROVE TempInv'
  OBVIOUS
<1>0. FileTypeOK /\ KindInv /\ TempInv /\ WholeFiles
  BY DEF FileInv
<1>1. ASSUME NEW o \in FileOps, Resolve(o) PROVE TempInv'
  BY <1>0, <1>1, Contents DEF Resolve, Goto, UnchangedData, FileTypeOK, TempInv, WholeFiles,
     Names, Places
<1>2. ASSUME NEW o \in FileOps, Guard(o) PROVE TempInv'
  BY <1>0, <1>2, Contents DEF Guard, ReadyToGuard, Allowed, Leave, Goto, UnchangedData,
     FileTypeOK, TempInv, WholeFiles, Names, Places
<1>3. ASSUME NEW o \in FileOps, OpenToRead(o) PROVE TempInv'
  BY <1>0, <1>3, Contents DEF OpenToRead, Goto, FileTypeOK, TempInv, WholeFiles, Names, Places
<1>4. ASSUME NEW o \in FileOps, AnswerRead(o) PROVE TempInv'
  BY <1>0, <1>4, Contents DEF AnswerRead, Allowed, Goto, FileTypeOK, TempInv, WholeFiles, Names,
     Places
<1>5. ASSUME NEW o \in FileOps, CheckFiles(o) PROVE TempInv'
  BY <1>0, <1>5, Contents DEF CheckFiles, Leave, Goto, UnchangedData, FileTypeOK, TempInv,
     WholeFiles, Names, Places
<1>6. ASSUME NEW o \in FileOps, OpenTemp(o) PROVE TempInv'
  BY <1>0, <1>6, Contents DEF OpenTemp, Leave, Goto, FileTypeOK, TempInv, WholeFiles, Names, Places
<1>7. ASSUME NEW o \in FileOps, FillTemp(o) PROVE TempInv'
  BY <1>0, <1>7, Contents DEF FillTemp, Leave, Goto, FileTypeOK, TempInv, WholeFiles, Names, Places
<1>8. ASSUME NEW o \in FileOps, Replace(o) PROVE TempInv'
  BY <1>0, <1>8, Contents DEF Replace, Allowed, Put, TargetDir, Leave, Goto, FileTypeOK, TempInv,
     WholeFiles, Names, Places
<1>9. ASSUME NEW o \in FileOps, Unlink(o) PROVE TempInv'
  BY <1>0, <1>9, Contents DEF Unlink, Put, Leave, Goto, FileTypeOK, TempInv, WholeFiles, Names,
     Places
<1>10. ASSUME NEW o \in FileOps, CountItems(o) PROVE TempInv'
  BY <1>0, <1>10, Contents DEF CountItems, Goto, UnchangedData, FileTypeOK, TempInv, WholeFiles,
     Names, Places
<1>11. ASSUME NEW o \in FileOps, ListChildren(o) PROVE TempInv'
  BY <1>0, <1>11, Contents DEF ListChildren, Leave, Goto, FileTypeOK, TempInv, WholeFiles, Names,
     Places
<1>12. ASSUME NEW o \in FileOps, RemoveDirectory(o) PROVE TempInv'
  BY <1>0, <1>12, Contents DEF RemoveDirectory, Leave, Goto, UnchangedData, FileTypeOK, TempInv,
     WholeFiles, Names, Places
<1>13. ASSUME NEW o \in FileOps, NEW i \in Items, DeleteChild(o, i) PROVE TempInv'
  BY <1>0, <1>13, Contents DEF DeleteChild, Leave, Goto, FileTypeOK, TempInv, WholeFiles, Names,
     Places
<1>14. ASSUME SwapDirectory PROVE TempInv'
  BY <1>0, <1>14, Contents DEF SwapDirectory, UnchangedData, FileTypeOK, TempInv, WholeFiles,
     Names, Places
<1>15. ASSUME WorkerDies PROVE TempInv'
  BY <1>0, <1>15, Contents DEF WorkerDies, UnchangedData, FileTypeOK, TempInv, WholeFiles, Names,
     Places
<1>16. ASSUME NEW n \in Names, EditFile(n) PROVE TempInv'
  BY <1>0, <1>16, Contents DEF EditFile, FileTypeOK, TempInv, WholeFiles, Names, Places
<1>17. ASSUME NEW i \in Items, AddItem(i) PROVE TempInv'
  BY <1>0, <1>17, Contents DEF AddItem, FileTypeOK, TempInv, WholeFiles, Names, Places
<1>18. ASSUME UNCHANGED fileVars PROVE TempInv'
  BY <1>0, <1>18, Contents DEF fileVars, FileTypeOK, TempInv, WholeFiles, Names, Places
<1> QED
  BY <1>1, <1>2, <1>3, <1>4, <1>5, <1>6, <1>7, <1>8, <1>9,
     <1>10, <1>11, <1>12, <1>13, <1>14, <1>15, <1>16, <1>17, <1>18 DEF FileNext, FileStep

(* A file always has one complete content.                                 *)
LEMMA NextWholeFiles == FileInv /\ [FileNext]_fileVars => WholeFiles'
<1> SUFFICES ASSUME FileInv, [FileNext]_fileVars PROVE WholeFiles'
  OBVIOUS
<1>0. FileTypeOK /\ TempInv /\ WholeFiles
  BY DEF FileInv
<1>1. ASSUME NEW o \in FileOps, Resolve(o) PROVE WholeFiles'
  BY <1>0, <1>1, Contents DEF Resolve, Goto, UnchangedData, FileTypeOK, TempInv, WholeFiles,
     Names, Places
<1>2. ASSUME NEW o \in FileOps, Guard(o) PROVE WholeFiles'
  BY <1>0, <1>2, Contents DEF Guard, ReadyToGuard, Allowed, Leave, Goto, UnchangedData,
     FileTypeOK, TempInv, WholeFiles, Names, Places
<1>3. ASSUME NEW o \in FileOps, OpenToRead(o) PROVE WholeFiles'
  BY <1>0, <1>3, Contents DEF OpenToRead, Goto, FileTypeOK, TempInv, WholeFiles, Names, Places
<1>4. ASSUME NEW o \in FileOps, AnswerRead(o) PROVE WholeFiles'
  BY <1>0, <1>4, Contents DEF AnswerRead, Allowed, Goto, FileTypeOK, TempInv, WholeFiles, Names,
     Places
<1>5. ASSUME NEW o \in FileOps, CheckFiles(o) PROVE WholeFiles'
  BY <1>0, <1>5, Contents DEF CheckFiles, Leave, Goto, UnchangedData, FileTypeOK, TempInv,
     WholeFiles, Names, Places
<1>6. ASSUME NEW o \in FileOps, OpenTemp(o) PROVE WholeFiles'
  BY <1>0, <1>6, Contents DEF OpenTemp, Leave, Goto, FileTypeOK, TempInv, WholeFiles, Names, Places
<1>7. ASSUME NEW o \in FileOps, FillTemp(o) PROVE WholeFiles'
  BY <1>0, <1>7, Contents DEF FillTemp, Leave, Goto, FileTypeOK, TempInv, WholeFiles, Names, Places
<1>8. ASSUME NEW o \in FileOps, Replace(o) PROVE WholeFiles'
  BY <1>0, <1>8, Contents DEF Replace, Allowed, Put, TargetDir, Leave, Goto, FileTypeOK, TempInv,
     WholeFiles, Names, Places
<1>9. ASSUME NEW o \in FileOps, Unlink(o) PROVE WholeFiles'
  BY <1>0, <1>9, Contents DEF Unlink, Put, Leave, Goto, FileTypeOK, TempInv, WholeFiles, Names,
     Places
<1>10. ASSUME NEW o \in FileOps, CountItems(o) PROVE WholeFiles'
  BY <1>0, <1>10, Contents DEF CountItems, Goto, UnchangedData, FileTypeOK, TempInv, WholeFiles,
     Names, Places
<1>11. ASSUME NEW o \in FileOps, ListChildren(o) PROVE WholeFiles'
  BY <1>0, <1>11, Contents DEF ListChildren, Leave, Goto, FileTypeOK, TempInv, WholeFiles, Names,
     Places
<1>12. ASSUME NEW o \in FileOps, RemoveDirectory(o) PROVE WholeFiles'
  BY <1>0, <1>12, Contents DEF RemoveDirectory, Leave, Goto, UnchangedData, FileTypeOK, TempInv,
     WholeFiles, Names, Places
<1>13. ASSUME NEW o \in FileOps, NEW i \in Items, DeleteChild(o, i) PROVE WholeFiles'
  BY <1>0, <1>13, Contents DEF DeleteChild, Leave, Goto, FileTypeOK, TempInv, WholeFiles, Names,
     Places
<1>14. ASSUME SwapDirectory PROVE WholeFiles'
  BY <1>0, <1>14, Contents DEF SwapDirectory, UnchangedData, FileTypeOK, TempInv, WholeFiles,
     Names, Places
<1>15. ASSUME WorkerDies PROVE WholeFiles'
  BY <1>0, <1>15, Contents DEF WorkerDies, UnchangedData, FileTypeOK, TempInv, WholeFiles, Names,
     Places
<1>16. ASSUME NEW n \in Names, EditFile(n) PROVE WholeFiles'
  BY <1>0, <1>16, Contents DEF EditFile, FileTypeOK, TempInv, WholeFiles, Names, Places
<1>17. ASSUME NEW i \in Items, AddItem(i) PROVE WholeFiles'
  BY <1>0, <1>17, Contents DEF AddItem, FileTypeOK, TempInv, WholeFiles, Names, Places
<1>18. ASSUME UNCHANGED fileVars PROVE WholeFiles'
  BY <1>0, <1>18, Contents DEF fileVars, FileTypeOK, TempInv, WholeFiles, Names, Places
<1> QED
  BY <1>1, <1>2, <1>3, <1>4, <1>5, <1>6, <1>7, <1>8, <1>9,
     <1>10, <1>11, <1>12, <1>13, <1>14, <1>15, <1>16, <1>17, <1>18 DEF FileNext, FileStep

(* The content of a move.                                                  *)
LEMMA NextMoveInv == FileInv /\ [FileNext]_fileVars => MoveInv'
<1> SUFFICES ASSUME FileInv, [FileNext]_fileVars PROVE MoveInv'
  OBVIOUS
<1>0. FileTypeOK /\ KindInv /\ GuardInv /\ TempInv /\ MoveInv
  BY DEF FileInv
<1>1. ASSUME NEW o \in FileOps, Resolve(o) PROVE MoveInv'
  BY <1>0, <1>1 DEF Resolve, Goto, UnchangedData, FileTypeOK, KindInv, GuardInv, Guarded, TempInv,
     MoveInv, Names, Places
<1>2. ASSUME NEW o \in FileOps, Guard(o) PROVE MoveInv'
  BY <1>0, <1>2 DEF Guard, ReadyToGuard, Allowed, Leave, Goto, UnchangedData, FileTypeOK, KindInv,
     GuardInv, Guarded, TempInv, MoveInv, Names, Places
<1>3. ASSUME NEW o \in FileOps, OpenToRead(o) PROVE MoveInv'
  BY <1>0, <1>3 DEF OpenToRead, Goto, FileTypeOK, KindInv, GuardInv, Guarded, TempInv, MoveInv,
     Names, Places
<1>4. ASSUME NEW o \in FileOps, AnswerRead(o) PROVE MoveInv'
  BY <1>0, <1>4 DEF AnswerRead, Allowed, Goto, FileTypeOK, KindInv, GuardInv, Guarded, TempInv,
     MoveInv, Names, Places
<1>5. ASSUME NEW o \in FileOps, CheckFiles(o) PROVE MoveInv'
  BY <1>0, <1>5 DEF CheckFiles, Leave, Goto, UnchangedData, FileTypeOK, KindInv, GuardInv,
     Guarded, TempInv, MoveInv, Names, Places
<1>6. ASSUME NEW o \in FileOps, OpenTemp(o) PROVE MoveInv'
  BY <1>0, <1>6 DEF OpenTemp, Leave, Goto, FileTypeOK, KindInv, GuardInv, Guarded, TempInv,
     MoveInv, Names, Places
<1>7. ASSUME NEW o \in FileOps, FillTemp(o) PROVE MoveInv'
  BY <1>0, <1>7 DEF FillTemp, Leave, Goto, FileTypeOK, KindInv, GuardInv, Guarded, TempInv,
     MoveInv, Names, Places
<1>8. ASSUME NEW o \in FileOps, Replace(o) PROVE MoveInv'
  BY <1>0, <1>8 DEF Replace, Allowed, Put, TargetDir, Leave, Goto, FileTypeOK, KindInv, GuardInv,
     Guarded, TempInv, MoveInv, Names, Places
<1>9. ASSUME NEW o \in FileOps, Unlink(o) PROVE MoveInv'
  BY <1>0, <1>9 DEF Unlink, Put, Leave, Goto, FileTypeOK, KindInv, GuardInv, Guarded, TempInv,
     MoveInv, Names, Places
<1>10. ASSUME NEW o \in FileOps, CountItems(o) PROVE MoveInv'
  BY <1>0, <1>10 DEF CountItems, Goto, UnchangedData, FileTypeOK, KindInv, GuardInv, Guarded,
     TempInv, MoveInv, Names, Places
<1>11. ASSUME NEW o \in FileOps, ListChildren(o) PROVE MoveInv'
  BY <1>0, <1>11 DEF ListChildren, Leave, Goto, FileTypeOK, KindInv, GuardInv, Guarded, TempInv,
     MoveInv, Names, Places
<1>12. ASSUME NEW o \in FileOps, RemoveDirectory(o) PROVE MoveInv'
  BY <1>0, <1>12 DEF RemoveDirectory, Leave, Goto, UnchangedData, FileTypeOK, KindInv, GuardInv,
     Guarded, TempInv, MoveInv, Names, Places
<1>13. ASSUME NEW o \in FileOps, NEW i \in Items, DeleteChild(o, i) PROVE MoveInv'
  BY <1>0, <1>13 DEF DeleteChild, Leave, Goto, FileTypeOK, KindInv, GuardInv, Guarded, TempInv,
     MoveInv, Names, Places
<1>14. ASSUME SwapDirectory PROVE MoveInv'
  BY <1>0, <1>14 DEF SwapDirectory, UnchangedData, FileTypeOK, KindInv, GuardInv, Guarded,
     TempInv, MoveInv, Names, Places
<1>15. ASSUME WorkerDies PROVE MoveInv'
  BY <1>0, <1>15 DEF WorkerDies, UnchangedData, FileTypeOK, KindInv, GuardInv, Guarded, TempInv,
     MoveInv, Names, Places
<1>16. ASSUME NEW n \in Names, EditFile(n) PROVE MoveInv'
  BY <1>0, <1>16 DEF EditFile, FileTypeOK, KindInv, GuardInv, Guarded, TempInv, MoveInv, Names,
     Places
<1>17. ASSUME NEW i \in Items, AddItem(i) PROVE MoveInv'
  BY <1>0, <1>17 DEF AddItem, FileTypeOK, KindInv, GuardInv, Guarded, TempInv, MoveInv, Names,
     Places
<1>18. ASSUME UNCHANGED fileVars PROVE MoveInv'
  BY <1>0, <1>18 DEF fileVars, FileTypeOK, KindInv, GuardInv, Guarded, TempInv, MoveInv, Names,
     Places
<1> QED
  BY <1>1, <1>2, <1>3, <1>4, <1>5, <1>6, <1>7, <1>8, <1>9,
     <1>10, <1>11, <1>12, <1>13, <1>14, <1>15, <1>16, <1>17, <1>18 DEF FileNext, FileStep

(* What a move has read is at one of its ends.                             *)
LEMMA NextMoveKeeps == FileInv /\ [FileNext]_fileVars => MoveKeepsContent'
<1> SUFFICES ASSUME FileInv, [FileNext]_fileVars PROVE MoveKeepsContent'
  OBVIOUS
<1>0. FileTypeOK /\ KindInv /\ GuardInv /\ TempInv /\ MoveInv /\ MoveKeepsContent
  BY DEF FileInv
<1>1. ASSUME NEW o \in FileOps, Resolve(o) PROVE MoveKeepsContent'
  BY <1>0, <1>1 DEF Resolve, Goto, UnchangedData, FileTypeOK, KindInv, GuardInv, Guarded, TempInv,
     MoveInv, MoveKeepsContent, Names, Places
<1>2. ASSUME NEW o \in FileOps, Guard(o) PROVE MoveKeepsContent'
  BY <1>0, <1>2 DEF Guard, ReadyToGuard, Allowed, Leave, Goto, UnchangedData, FileTypeOK, KindInv,
     GuardInv, Guarded, TempInv, MoveInv, MoveKeepsContent, Names, Places
<1>3. ASSUME NEW o \in FileOps, OpenToRead(o) PROVE MoveKeepsContent'
  BY <1>0, <1>3 DEF OpenToRead, Goto, FileTypeOK, KindInv, GuardInv, Guarded, TempInv, MoveInv,
     MoveKeepsContent, Names, Places
<1>4. ASSUME NEW o \in FileOps, AnswerRead(o) PROVE MoveKeepsContent'
  BY <1>0, <1>4 DEF AnswerRead, Allowed, Goto, FileTypeOK, KindInv, GuardInv, Guarded, TempInv,
     MoveInv, MoveKeepsContent, Names, Places
<1>5. ASSUME NEW o \in FileOps, CheckFiles(o) PROVE MoveKeepsContent'
  BY <1>0, <1>5 DEF CheckFiles, Leave, Goto, UnchangedData, FileTypeOK, KindInv, GuardInv,
     Guarded, TempInv, MoveInv, MoveKeepsContent, Names, Places
<1>6. ASSUME NEW o \in FileOps, OpenTemp(o) PROVE MoveKeepsContent'
  BY <1>0, <1>6 DEF OpenTemp, Leave, Goto, FileTypeOK, KindInv, GuardInv, Guarded, TempInv,
     MoveInv, MoveKeepsContent, Names, Places
<1>7. ASSUME NEW o \in FileOps, FillTemp(o) PROVE MoveKeepsContent'
  BY <1>0, <1>7 DEF FillTemp, Leave, Goto, FileTypeOK, KindInv, GuardInv, Guarded, TempInv,
     MoveInv, MoveKeepsContent, Names, Places
<1>8. ASSUME NEW o \in FileOps, Replace(o) PROVE MoveKeepsContent'
  BY <1>0, <1>8 DEF Replace, Allowed, Put, TargetDir, Leave, Goto, FileTypeOK, KindInv, GuardInv,
     Guarded, TempInv, MoveInv, MoveKeepsContent, Names, Places
<1>9. ASSUME NEW o \in FileOps, Unlink(o) PROVE MoveKeepsContent'
  BY <1>0, <1>9 DEF Unlink, Put, Leave, Goto, FileTypeOK, KindInv, GuardInv, Guarded, TempInv,
     MoveInv, MoveKeepsContent, Names, Places
<1>10. ASSUME NEW o \in FileOps, CountItems(o) PROVE MoveKeepsContent'
  BY <1>0, <1>10 DEF CountItems, Goto, UnchangedData, FileTypeOK, KindInv, GuardInv, Guarded,
     TempInv, MoveInv, MoveKeepsContent, Names, Places
<1>11. ASSUME NEW o \in FileOps, ListChildren(o) PROVE MoveKeepsContent'
  BY <1>0, <1>11 DEF ListChildren, Leave, Goto, FileTypeOK, KindInv, GuardInv, Guarded, TempInv,
     MoveInv, MoveKeepsContent, Names, Places
<1>12. ASSUME NEW o \in FileOps, RemoveDirectory(o) PROVE MoveKeepsContent'
  BY <1>0, <1>12 DEF RemoveDirectory, Leave, Goto, UnchangedData, FileTypeOK, KindInv, GuardInv,
     Guarded, TempInv, MoveInv, MoveKeepsContent, Names, Places
<1>13. ASSUME NEW o \in FileOps, NEW i \in Items, DeleteChild(o, i) PROVE MoveKeepsContent'
  BY <1>0, <1>13 DEF DeleteChild, Leave, Goto, FileTypeOK, KindInv, GuardInv, Guarded, TempInv,
     MoveInv, MoveKeepsContent, Names, Places
<1>14. ASSUME SwapDirectory PROVE MoveKeepsContent'
  BY <1>0, <1>14 DEF SwapDirectory, UnchangedData, FileTypeOK, KindInv, GuardInv, Guarded,
     TempInv, MoveInv, MoveKeepsContent, Names, Places
<1>15. ASSUME WorkerDies PROVE MoveKeepsContent'
  BY <1>0, <1>15 DEF WorkerDies, UnchangedData, FileTypeOK, KindInv, GuardInv, Guarded, TempInv,
     MoveInv, MoveKeepsContent, Names, Places
<1>16. ASSUME NEW n \in Names, EditFile(n) PROVE MoveKeepsContent'
  BY <1>0, <1>16 DEF EditFile, FileTypeOK, KindInv, GuardInv, Guarded, TempInv, MoveInv,
     MoveKeepsContent, Names, Places
<1>17. ASSUME NEW i \in Items, AddItem(i) PROVE MoveKeepsContent'
  BY <1>0, <1>17 DEF AddItem, FileTypeOK, KindInv, GuardInv, Guarded, TempInv, MoveInv,
     MoveKeepsContent, Names, Places
<1>18. ASSUME UNCHANGED fileVars PROVE MoveKeepsContent'
  BY <1>0, <1>18 DEF fileVars, FileTypeOK, KindInv, GuardInv, Guarded, TempInv, MoveInv,
     MoveKeepsContent, Names, Places
<1> QED
  BY <1>1, <1>2, <1>3, <1>4, <1>5, <1>6, <1>7, <1>8, <1>9,
     <1>10, <1>11, <1>12, <1>13, <1>14, <1>15, <1>16, <1>17, <1>18 DEF FileNext, FileStep

Few(S) == 1 + Cardinality(S) < Threshold

(* What a delete has taken, without what came late, and what is left.      *)
Taken(o) == gone[o] \ added
Left(o) == (items \cup gone[o]) \ added
Going(o) == kind[o] = "delete" /\ fpc[o] \in {"counted", "guarded", "listed"}
Early == {"start", "resolved", "counted", "guarded"}

LEMMA FewerItems ==
  ASSUME NEW A, A \subseteq Items, NEW B, B \subseteq A, Few(A)
  PROVE  Few(B)
<1>0. IsFiniteSet(Items) /\ Threshold \in Nat
  BY FileAssumption
<1>1. IsFiniteSet(A)
  BY <1>0, FS_Subset
<1>2. IsFiniteSet(B) /\ Cardinality(B) <= Cardinality(A)
  BY <1>1, FS_Subset
<1>3. Cardinality(A) \in Nat /\ Cardinality(B) \in Nat
  BY <1>1, <1>2, FS_CardinalityType
<1> QED
  BY <1>0, <1>2, <1>3 DEF Few

LEMMA CountsAre ==
  CountInv /\ BulkDeleteBounded <=>
    \A o \in FileOps : /\ fpc[o] \in Early => gone[o] = {}
                       /\ Going(o) => Few(Left(o))
                       /\ Taken(o) # {} => Few(Taken(o))
  BY DEF CountInv, BulkDeleteBounded, Early, Going, Few, Left, Taken

(* The entries a delete takes are of those it has counted.                 *)
LEMMA NextCounts == FileInv /\ [FileNext]_fileVars => CountInv' /\ BulkDeleteBounded'
<1> SUFFICES ASSUME FileInv, [FileNext]_fileVars PROVE CountInv' /\ BulkDeleteBounded'
  OBVIOUS
<1>0. FileTypeOK /\ KindInv /\ CountInv /\ BulkDeleteBounded /\ Threshold \in Nat
  BY FileAssumption DEF FileInv
<1>a. \A o \in FileOps : Left(o) \subseteq Items /\ Taken(o) \subseteq Items
  BY <1>0 DEF FileTypeOK, Left, Taken
<1>b. \A o \in FileOps : /\ fpc[o] \in Early => gone[o] = {}
                         /\ Going(o) => Few(Left(o))
                         /\ Taken(o) # {} => Few(Taken(o))
  BY <1>0, CountsAre
<1>c. ASSUME \A o \in FileOps : /\ fpc'[o] \in Early => gone'[o] = {}
                                /\ Going(o)' => Few(Left(o)')
                                /\ Taken(o)' # {} => Few(Taken(o)')
      PROVE  CountInv' /\ BulkDeleteBounded'
  BY <1>c DEF CountInv, BulkDeleteBounded, Early, Going, Few, Left, Taken
<1>d. ASSUME NEW o \in FileOps, Left(o)' \subseteq Left(o), Going(o) PROVE Few(Left(o)')
  BY <1>a, <1>b, <1>d, FewerItems
<1>e. ASSUME NEW o \in FileOps, Taken(o)' \subseteq Taken(o), Taken(o)' # {} PROVE Few(Taken(o)')
  BY <1>a, <1>b, <1>e, FewerItems
<1>f. ASSUME NEW o \in FileOps, Taken(o)' \subseteq Left(o), Going(o) PROVE Few(Taken(o)')
  BY <1>a, <1>b, <1>f, FewerItems
<1>1. ASSUME UNCHANGED <<kind, gone>>, items' \ added' \subseteq items \ added, added \subseteq added',
             \A o \in FileOps : /\ fpc'[o] \in Early => fpc[o] \in Early
                                /\ Going(o)' => Going(o)
      PROVE  CountInv' /\ BulkDeleteBounded'
  <2>1. \A o \in FileOps : gone'[o] = gone[o]
    BY <1>1
  <2>2. \A o \in FileOps : Left(o)' \subseteq Left(o) /\ Taken(o)' \subseteq Taken(o)
    BY <1>1, <2>1 DEF Left, Taken
  <2> QED
    BY <1>1, <1>b, <1>c, <1>d, <1>e, <2>1, <2>2
<1>2. ASSUME NEW o \in FileOps,
             \/ Resolve(o) \/ Guard(o) \/ OpenToRead(o) \/ AnswerRead(o) \/ CheckFiles(o)
             \/ OpenTemp(o) \/ FillTemp(o) \/ Replace(o) \/ Unlink(o)
             \/ ListChildren(o) \/ RemoveDirectory(o)
      PROVE  CountInv' /\ BulkDeleteBounded'
  <2>1. UNCHANGED <<kind, gone, items, added>>
    BY <1>2 DEF Resolve, Guard, OpenToRead, AnswerRead, CheckFiles, OpenTemp, FillTemp, Replace,
       Unlink, ListChildren, RemoveDirectory, UnchangedData
  <2>2. \A p \in FileOps \ {o} : fpc'[p] = fpc[p]
    BY <1>0, <1>2 DEF Resolve, Guard, OpenToRead, AnswerRead, CheckFiles, OpenTemp, FillTemp,
       Replace,
       Unlink, ListChildren, RemoveDirectory, Leave, Goto, FileTypeOK
  <2>3. fpc'[o] \in Early => fpc[o] \in Early
    BY <1>0, <1>2 DEF Resolve, Guard, ReadyToGuard, OpenToRead, AnswerRead, CheckFiles, OpenTemp,
       FillTemp, Replace, Unlink, ListChildren, RemoveDirectory, Leave, Goto, FileTypeOK, Early
  <2>4. Going(o)' => Going(o)
    <3>1. CASE Guard(o) \/ ListChildren(o)
      BY <1>0, <2>1, <3>1 DEF Guard, ReadyToGuard, ListChildren, Leave, Goto, FileTypeOK, Going
    <3>2. CASE ~(Guard(o) \/ ListChildren(o))
      BY <1>0, <1>2, <3>2 DEF Resolve, OpenToRead, AnswerRead, CheckFiles, OpenTemp,
         FillTemp, Replace, Unlink, RemoveDirectory, Leave, Goto, FileTypeOK, Going
    <3> QED
      BY <3>1, <3>2
  <2> QED
    BY <1>1, <2>1, <2>2, <2>3, <2>4 DEF Going
<1>3. ASSUME NEW o \in FileOps, CountItems(o) PROVE CountInv' /\ BulkDeleteBounded'
  <2>0. PICK n : n = Cardinality(items)
    OBVIOUS
  <2>1. /\ UNCHANGED <<kind, gone, items, added>> /\ fpc[o] = "resolved"
        /\ \A p \in FileOps \ {o} : fpc'[p] = fpc[p]
        /\ fpc'[o] = IF 1 + n >= Threshold THEN "failed" ELSE "counted"
    BY <1>0, <1>3, <2>0 DEF CountItems, Goto, UnchangedData, FileTypeOK
  <2>2. gone[o] = {}
    BY <1>b, <2>1 DEF Early
  <2>3. CASE fpc'[o] = "counted"
    <3>1. items \subseteq Items
      BY <1>0 DEF FileTypeOK
    <3>2. n \in Nat
      <4>1. IsFiniteSet(items)
        BY <3>1, FileAssumption, FS_Subset
      <4> QED
        BY <2>0, <4>1, FS_CardinalityType
    <3>3. Few(items)
      BY <1>0, <2>0, <2>1, <2>3, <3>2 DEF Few
    <3>4. Left(o)' \subseteq items
      BY <2>1, <2>2 DEF Left
    <3>5. Few(Left(o)')
      BY <3>1, <3>3, <3>4, FewerItems
    <3>6. \A p \in FileOps : Taken(p)' = Taken(p) /\ Left(p)' = Left(p)
      BY <2>1 DEF Taken, Left
    <3> QED
      BY <1>b, <1>c, <2>1, <2>2, <3>5, <3>6 DEF Going
  <2>4. CASE fpc'[o] = "failed"
    BY <1>1, <2>1, <2>4 DEF Going, Early
  <2> QED
    BY <2>1, <2>3, <2>4
<1>4. ASSUME NEW o \in FileOps, NEW i \in Items, DeleteChild(o, i) PROVE CountInv' /\ BulkDeleteBounded'
  <2>1. CASE UNCHANGED <<items, gone>>
    <3>1. UNCHANGED <<kind, added>> /\ \A p \in FileOps : fpc'[p] = fpc[p] \/ fpc'[p] = "failed"
      BY <1>0, <1>4 DEF DeleteChild, Leave, Goto, FileTypeOK
    <3> QED
      BY <1>1, <2>1, <3>1 DEF Going, Early
  <2>2. CASE /\ i \in items /\ items' = items \ {i}
             /\ gone' = [gone EXCEPT ![o] = @ \cup {i}] /\ UNCHANGED fpc
    <3>1. /\ fpc[o] = "listed" /\ kind[o] = "delete" /\ UNCHANGED <<kind, added, fpc>>
          /\ gone'[o] = gone[o] \cup {i} /\ \A p \in FileOps \ {o} : gone'[p] = gone[p]
      BY <1>0, <1>4, <2>2 DEF DeleteChild, KindInv, FileTypeOK
    <3>2. \A p \in FileOps : Left(p)' \subseteq Left(p)
      BY <2>2, <3>1 DEF Left
    <3>3. Taken(o)' \subseteq Left(o)
      BY <2>2, <3>1 DEF Taken, Left
    <3>4. \A p \in FileOps \ {o} : Taken(p)' \subseteq Taken(p)
      BY <3>1 DEF Taken
    <3> QED
      BY <1>b, <1>c, <1>d, <1>e, <1>f, <3>1, <3>2, <3>3, <3>4 DEF Going, Early
  <2> QED
    BY <1>4, <2>1, <2>2 DEF DeleteChild
<1>5. ASSUME NEW i \in Items, AddItem(i) PROVE CountInv' /\ BulkDeleteBounded'
  <2>1. items' = items \cup {i} /\ added' = added \cup {i} /\ UNCHANGED <<kind, gone, fpc>>
    BY <1>5 DEF AddItem
  <2> QED
    BY <1>1, <2>1 DEF Going, Early
<1>6. ASSUME WorkerDies PROVE CountInv' /\ BulkDeleteBounded'
  <2>1. UNCHANGED <<kind, gone, items, added>> /\ \A p \in FileOps : fpc'[p] \in {"done", "failed"}
    BY <1>6 DEF WorkerDies, UnchangedData
  <2> QED
    BY <1>1, <2>1 DEF Going, Early
<1>7. ASSUME SwapDirectory \/ (\E n \in Names : EditFile(n)) \/ UNCHANGED fileVars
      PROVE  CountInv' /\ BulkDeleteBounded'
  <2>1. UNCHANGED <<kind, gone, items, added, fpc>>
    BY <1>7 DEF SwapDirectory, EditFile, UnchangedData, fileVars
  <2> QED
    BY <1>1, <2>1 DEF Going, Early
<1> QED
  BY <1>2, <1>3, <1>4, <1>5, <1>6, <1>7 DEF FileNext, FileStep

LEMMA FileInvariant == Spec => []FileInv
<1>1. Init => FileInv
  BY InitFileInv DEF Init
<1>2. FileInv /\ [Next]_vars => FileInv'
  BY AdapterSteps, NextFileTypes, NextKindInv, NextGuardInv, NextInsideRoots, NextTempInv,
     NextWholeFiles, NextMoveInv, NextMoveKeeps, NextCounts DEF FileInv
<1> QED
  BY <1>1, <1>2, PTL DEF Spec

(* Whatever another program does to the directory between the checks, no   *)
(* result comes from outside the allowed roots and no change goes there    *)
(* (guard_directory, open_verified_binary).                                *)
THEOREM StaysInside == Spec => []InsideRoots
<1>1. FileInv => InsideRoots
  BY DEF FileInv
<1> QED
  BY <1>1, FileInvariant, PTL

(* No file operation loses data: files are whole, a move's content is in   *)
(* one place at least, and the bulk delete threshold holds (write, move,   *)
(* delete).                                                                *)
THEOREM NoDataLost == Spec => []NothingLost
<1>1. FileInv => NothingLost
  BY DEF FileInv, NothingLost
<1> QED
  BY <1>1, FileInvariant, PTL
-----------------------------------------------------------------------------
(* A verdict is the end of a request; only those of the handler are known  *)
(* to cancel and close, and what they cancelled is signalled.              *)
DialogInv ==
    /\ \A r \in Asks : verdict[r] # Undecided => ask[r] = "done"
    /\ \A r \in dialogs \cup closing \cup cancelled : route[r] = "handler"
    /\ cancelled \subseteq signalled

DialogsInv == LocalApprovalTypeOK /\ DialogInv /\ ApprovalIsCurrent

LEMMA InitDialogs == LocalApprovalInit => DialogsInv
<1> SUFFICES ASSUME LocalApprovalInit PROVE DialogsInv
  OBVIOUS
<1>1. LocalApprovalTypeOK
  <2>1. AskTimeout \in Nat /\ AskExpiry \in Nat /\ LastTime \in Nat
    BY LocalApprovalAssumption
  <2>2. 0 \in 0..LastTime + AskTimeout + AskExpiry /\ 0 \in 0..LastTime
    BY <2>1
  <2>3. limit \in [Asks -> 0..LastTime + AskTimeout + AskExpiry] /\ clock \in 0..LastTime
    BY <2>2 DEF LocalApprovalInit
  <2> QED
    BY <2>3 DEF LocalApprovalInit, LocalApprovalTypeOK, Undecided
<1>2. DialogInv /\ ApprovalIsCurrent
  BY DEF LocalApprovalInit, DialogInv, ApprovalIsCurrent, Undecided
<1> QED
  BY <1>1, <1>2 DEF DialogsInv

(* What a decision of any kind leaves behind.                              *)
LEMMA Decided ==
  ASSUME DialogsInv, NEW r \in Asks, NEW v \in {"approved", "denied", "refused"}, Decide(r, v),
         verdict[r] = Undecided,
         UNCHANGED <<route, dialog, inTime, cancelled, closing>>, dialogs' \subseteq dialogs,
         v = "approved" => /\ dialog[r] = "approve" /\ r \in inTime
                           /\ route[r] = "handler" => r \notin signalled
  PROVE  DialogInv' /\ ApprovalIsCurrent'
<1>0. LocalApprovalTypeOK /\ DialogInv /\ ApprovalIsCurrent
  BY DEF DialogsInv
<1>1. /\ verdict'[r] = v /\ ask'[r] = "done" /\ signalled \subseteq signalled'
      /\ \A q \in Asks \ {r} : verdict'[q] = verdict[q] /\ ask'[q] = ask[q]
  BY <1>0 DEF Decide, LocalApprovalTypeOK
<1>2. DialogInv'
  BY <1>0, <1>1 DEF DialogInv
<1>3. r \in cancelled => r \in signalled /\ route[r] = "handler"
  BY <1>0 DEF DialogInv
<1>4. ApprovalIsCurrent'
  BY <1>0, <1>1, <1>3 DEF ApprovalIsCurrent
<1> QED
  BY <1>2, <1>4

LEMMA NextDialogs == DialogsInv /\ [LocalApprovalNext]_approvalVars => DialogsInv'
<1> SUFFICES ASSUME DialogsInv, [LocalApprovalNext]_approvalVars PROVE DialogsInv'
  OBVIOUS
<1>0. LocalApprovalTypeOK /\ DialogInv /\ ApprovalIsCurrent
  BY DEF DialogsInv
<1>u. \A r \in Asks : ask[r] # "done" => verdict[r] = Undecided
  BY <1>0 DEF DialogInv
<1>1. ASSUME NEW r \in Asks, Malformed(r) PROVE DialogsInv'
  <2>1. LocalApprovalTypeOK'
    BY <1>0, <1>1 DEF Malformed, Decide, LocalApprovalTypeOK
  <2>2. DialogInv' /\ ApprovalIsCurrent'
    BY <1>1, <1>u, Decided DEF Malformed
  <2> QED
    BY <2>1, <2>2 DEF DialogsInv
<1>2. ASSUME NEW r \in Asks, Enter(r) PROVE DialogsInv'
  <2>1. LocalApprovalTypeOK'
    BY <1>0, <1>2 DEF Enter, Decide, LocalApprovalTypeOK
  <2>2. CASE Decide(r, "refused") /\ UNCHANGED dialogs
    BY <1>2, <1>u, <2>1, <2>2, Decided DEF Enter, DialogsInv
  <2>3. CASE /\ ask' = [ask EXCEPT ![r] = "entered"] /\ dialogs' = dialogs \cup {r}
             /\ UNCHANGED <<signalled, verdict>>
    <3>1. DialogInv'
      BY <1>0, <1>2, <1>u, <2>3 DEF Enter, DialogInv, LocalApprovalTypeOK
    <3>2. ApprovalIsCurrent'
      BY <1>0, <1>2, <2>3 DEF Enter, ApprovalIsCurrent
    <3> QED
      BY <2>1, <3>1, <3>2 DEF DialogsInv
  <2> QED
    BY <1>2, <2>2, <2>3 DEF Enter
<1>3. ASSUME NEW r \in Asks, ShowDialog(r) PROVE DialogsInv'
  <2>0. clock \in Nat /\ AskTimeout \in Nat /\ AskExpiry \in Nat /\ LastTime \in Nat /\ clock <= LastTime
    BY <1>0, LocalApprovalAssumption DEF LocalApprovalTypeOK
  <2>a. DialogLimit(r) \in 0..LastTime + AskTimeout + AskExpiry
    BY <2>0 DEF DialogLimit
  <2>b. limit' \in [Asks -> 0..LastTime + AskTimeout + AskExpiry]
    BY <1>0, <1>3, <2>a DEF ShowDialog, LocalApprovalTypeOK
  <2>c. ask[r] # "done"
    BY <1>3 DEF ShowDialog
  <2>1. LocalApprovalTypeOK'
    BY <1>0, <1>3, <2>b DEF ShowDialog, Decide, LocalApprovalTypeOK
  <2>2. CASE Decide(r, "denied") /\ UNCHANGED dialog
    BY <1>3, <1>u, <2>c, <2>1, <2>2, Decided DEF ShowDialog, DialogsInv
  <2>3. CASE /\ ask' = [ask EXCEPT ![r] = "waiting"]
             /\ dialog' = [dialog EXCEPT ![r] = "starting"]
             /\ UNCHANGED <<signalled, verdict>>
    <3>1. DialogInv'
      BY <1>0, <1>3, <1>u, <2>c, <2>3 DEF ShowDialog, DialogInv, LocalApprovalTypeOK
    <3>2. ApprovalIsCurrent'
      BY <1>0, <1>3, <1>u, <2>c, <2>3 DEF ShowDialog, ApprovalIsCurrent, LocalApprovalTypeOK,
         Undecided
    <3> QED
      BY <2>1, <3>1, <3>2 DEF DialogsInv
  <2> QED
    BY <1>3, <2>2, <2>3 DEF ShowDialog
<1>4. ASSUME NEW r \in Asks, Present(r) \/ \E b \in {"approve", "deny", "close"} : Press(r, b)
      PROVE  DialogsInv'
  <2>1. /\ UNCHANGED <<clock, route, ask, limit, inTime, dialogs, signalled, cancelled,
                       shut, closing, verdict>>
        /\ dialog[r] \in {"starting", "open"} /\ dialog' \in [Asks -> {"none", "starting", "open", "approve", "deny", "close"}]
        /\ \A q \in Asks \ {r} : dialog'[q] = dialog[q]
    BY <1>0, <1>4 DEF Present, Press, LocalApprovalTypeOK
  <2>2. LocalApprovalTypeOK'
    BY <1>0, <2>1 DEF LocalApprovalTypeOK
  <2>3. DialogInv' /\ ApprovalIsCurrent'
    BY <1>0, <2>1 DEF DialogInv, ApprovalIsCurrent
  <2> QED
    BY <2>2, <2>3 DEF DialogsInv
<1>5. ASSUME NEW r \in Asks, PresentReturns(r) PROVE DialogsInv'
  <2>1. LocalApprovalTypeOK'
    BY <1>0, <1>5 DEF PresentReturns, LocalApprovalTypeOK
  <2>2. DialogInv'
    BY <1>0, <1>5, <1>u DEF PresentReturns, DialogInv, LocalApprovalTypeOK
  <2>3. ApprovalIsCurrent'
    BY <1>0, <1>5 DEF PresentReturns, ApprovalIsCurrent
  <2> QED
    BY <2>1, <2>2, <2>3 DEF DialogsInv
<1>6. ASSUME NEW r \in Asks, Abandon(r) PROVE DialogsInv'
  <2>1. LocalApprovalTypeOK'
    BY <1>0, <1>6 DEF Abandon, Decide, LocalApprovalTypeOK
  <2>2. DialogInv' /\ ApprovalIsCurrent'
    BY <1>6, <1>u, Decided DEF Abandon
  <2> QED
    BY <2>1, <2>2 DEF DialogsInv
<1>7. ASSUME NEW r \in Asks, Conclude(r) PROVE DialogsInv'
  <2>1. LocalApprovalTypeOK'
    BY <1>0, <1>7 DEF Conclude, Decide, LocalApprovalTypeOK
  <2>2. CASE Accepted(r)
    BY <1>7, <1>u, <2>1, <2>2, Decided DEF Conclude, Accepted, Chosen, DialogsInv
  <2>3. CASE ~Accepted(r)
    BY <1>7, <1>u, <2>1, <2>3, Decided DEF Conclude, DialogsInv
  <2> QED
    BY <2>2, <2>3
<1>8. ASSUME NEW r \in Asks, LeaveHandler(r) PROVE DialogsInv'
  BY <1>0, <1>8 DEF LeaveHandler, DialogsInv, LocalApprovalTypeOK, DialogInv, ApprovalIsCurrent
<1>9. ASSUME NEW r \in Asks, Cancel(r) \/ SignalOne(r) PROVE DialogsInv'
  <2>1. /\ UNCHANGED <<clock, route, ask, limit, dialog, inTime, dialogs, shut, verdict>>
        /\ closing' \subseteq closing /\ signalled' = signalled \cup {r}
        /\ cancelled' = (IF verdict[r] = Undecided THEN cancelled \cup {r} ELSE cancelled)
        /\ r \in dialogs \cup closing
    BY <1>9 DEF Cancel, SignalOne
  <2>2. LocalApprovalTypeOK'
    BY <1>0, <2>1 DEF LocalApprovalTypeOK
  <2>3. DialogInv'
    BY <1>0, <2>1 DEF DialogInv
  <2>4. ApprovalIsCurrent'
    BY <1>0, <2>1 DEF ApprovalIsCurrent, Undecided
  <2> QED
    BY <2>2, <2>3, <2>4 DEF DialogsInv
<1>10. ASSUME CloseHandler \/ TickClock \/ UNCHANGED approvalVars PROVE DialogsInv'
  <2>0. LastTime \in Nat /\ clock \in 0..LastTime /\ shut \in BOOLEAN
    BY <1>0, LocalApprovalAssumption DEF LocalApprovalTypeOK
  <2>1. /\ UNCHANGED <<route, ask, limit, dialog, inTime, dialogs, signalled, cancelled, verdict>>
        /\ closing' \in {closing, dialogs} /\ shut' \in BOOLEAN /\ clock' \in 0..LastTime
    <3>1. CASE CloseHandler
      BY <2>0, <3>1 DEF CloseHandler
    <3>2. CASE TickClock
      BY <2>0, <3>2 DEF TickClock
    <3>3. CASE UNCHANGED approvalVars
      BY <2>0, <3>3 DEF approvalVars
    <3> QED
      BY <1>10, <3>1, <3>2, <3>3
  <2>2. LocalApprovalTypeOK'
    BY <1>0, <2>1 DEF LocalApprovalTypeOK
  <2>3. DialogInv' /\ ApprovalIsCurrent'
    BY <1>0, <2>1 DEF DialogInv, ApprovalIsCurrent
  <2> QED
    BY <2>2, <2>3 DEF DialogsInv
<1> QED
  BY <1>1, <1>2, <1>3, <1>4, <1>5, <1>6, <1>7, <1>8, <1>9, <1>10 DEF LocalApprovalNext, TimerCloses

LEMMA DialogsInvariant == Spec => []DialogsInv
<1>1. Init => DialogsInv
  BY InitDialogs DEF Init
<1>2. DialogsInv /\ [Next]_vars => DialogsInv'
  BY AdapterSteps, NextDialogs
<1> QED
  BY <1>1, <1>2, PTL DEF Spec

(* An approval was chosen by the user in a dialog that was still valid,    *)
(* and nothing cancelled or closed before the decision is approved         *)
(* (LocalApprovalHandler._resolve, LocalApprovalSurface.resolve).          *)
THEOREM ApprovalsAreCurrent == Spec => []ApprovalIsCurrent
<1>1. DialogsInv => ApprovalIsCurrent
  BY DEF DialogsInv
<1> QED
  BY <1>1, DialogsInvariant, PTL
-----------------------------------------------------------------------------
(* A division and its rest.                                                *)
LEMMA Quotient ==
  ASSUME NEW x \in Nat, NEW d \in Nat \ {0}
  PROVE  x \div d \in Nat /\ (x \div d) * d <= x /\ x < (x \div d) * d + d
  OBVIOUS

LEMMA QuotientIs ==
  ASSUME NEW x \in Nat, NEW d \in Nat \ {0}, NEW p \in Nat,
         p * d <= x, x < p * d + d
  PROVE  x \div d = p
  OBVIOUS

(* The absolute coordinate of a pixel leads to that pixel, and that of a   *)
(* point to the right of the screen to its last pixel.                     *)
LEMMA LandsThere ==
  ASSUME NEW p \in Nat
  PROVE  Landing(p) = IF p > Span - 1 THEN Span - 1 ELSE p
<1>0. Span \in Nat /\ 2 <= Span /\ Span <= Scale + 1
  BY DesktopAssumption
<1>s. Scale \in Nat \ {0}
  BY DEF Scale
<1> DEFINE offset == IF p > Span - 1 THEN Span - 1 ELSE p
<1>1. PICK d : d = Span - 1
  OBVIOUS
<1>2. d \in Nat \ {0} /\ d <= Scale
  BY <1>0, <1>s, <1>1
<1>3. PICK q : q = offset
  OBVIOUS
<1>4. q \in Nat /\ q <= d
  BY <1>1, <1>2, <1>3
<1>5. PICK x : x = q * Scale + d - 1
  OBVIOUS
<1>6. x \in Nat /\ q * Scale <= x /\ x < q * Scale + d
  BY <1>s, <1>2, <1>4, <1>5
<1>7. PICK a : a = x \div d
  OBVIOUS
<1>8. a \in Nat /\ a * d <= x /\ x < a * d + d
  BY <1>2, <1>6, <1>7, Quotient
<1>9. PICK m : m = a * d
  OBVIOUS
<1>10. m \in Nat
  BY <1>2, <1>8, <1>9
<1>11. q * Scale <= m
  BY <1>s, <1>2, <1>4, <1>5, <1>8, <1>9, <1>10
<1>12. m < q * Scale + Scale
  BY <1>s, <1>2, <1>4, <1>6, <1>8, <1>9, <1>10
<1>13. m \div Scale = q
  BY <1>s, <1>4, <1>10, <1>11, <1>12, QuotientIs
<1>14. AbsoluteCoordinate(p) = a
  <2>1. x = q * Scale + Span - 2
    BY <1>0, <1>s, <1>1, <1>4, <1>5
  <2> QED
    BY <1>1, <1>3, <1>7, <2>1 DEF AbsoluteCoordinate
<1> QED
  BY <1>1, <1>3, <1>9, <1>13, <1>14 DEF Landing

(* What the input models have checked.                                     *)
LEMMA RequestFacts ==
  \A r \in Requests :
    /\ r.kind \in InputKinds /\ r.x \in 0..Span /\ r.space \in {"physical", "observation"}
    /\ r.token \in Windows \cup {NoToken} /\ r.times \in 1..2
    /\ r.space = "observation" => r.kind \in PointerKinds /\ r.token # NoToken
    /\ r.kind \notin PointerKinds => r.x = 0
    /\ r.kind \notin {"click", "press"} => r.times = 1
  BY DEF Requests

(* Only a press over Windows-MCP is several calls.                         *)
CallInv ==
    dpc \in {"call", "calling"} =>
        /\ backend = "mcp" /\ inserted < Calls
        /\ op.kind # "press" => ~injected

(* Nothing is down without a warning, other than a button that is about to *)
(* be released or whose release has failed.                                *)
HeldInv ==
    ~warned => /\ "keys" \notin held
               /\ "button" \in held => \/ dpc \in {"repair", "repairing"} /\ inserted % 2 = 1
                                       \/ dpc = "verify" /\ ~complete

(* What has been sent by when, and answered by when.                       *)
SentInv ==
    /\ dpc # "idle" => result = "none"
    /\ dpc \in {"begin", "map", "mapped", "send", "aim", "aimed", "keys", "typing"} =>
         ~injected /\ inserted = 0

(* The view is of a part of the screen.                                    *)
ViewInv == view.left + view.width <= Span

(* What a request that nothing interferes with finds at each point.        *)
SoundInv ==
    ~interference /\ dpc # "idle" =>
        /\ unlocked /\ enabled /\ usable /\ first = foreground
        /\ op.token \in {NoToken, foreground}
        /\ dpc \in {"begin", "map"} =>
             IF op.space = "observation" THEN op.token = view.token /\ op.x < view.width
             ELSE op.x < Span
        /\ dpc \notin {"begin", "map"} => target \in Pixels
        /\ dpc \in {"arrive", "press", "pressed", "settle"} => cursor = target
        /\ dpc \notin {"repair", "repairing", "verify"}

InputInv ==
    /\ DesktopTypeOK /\ CallInv /\ HeldInv /\ SentInv /\ ViewInv /\ SoundInv
    /\ ConflictMeansUntouched /\ UndisturbedSucceeds

(* The types, by what they are made of.                                    *)
NumberTypes ==
    /\ cursor \in Pixels /\ before \in Pixels /\ target \in 0..Span + 1
    /\ inserted \in 0..4 /\ mutations \in 0..MaxMutations /\ events \in 0..MaxEvents

FlagTypes ==
    /\ unlocked \in BOOLEAN /\ enabled \in BOOLEAN /\ usable \in BOOLEAN
    /\ complete \in BOOLEAN /\ injected \in BOOLEAN /\ warned \in BOOLEAN
    /\ interference \in BOOLEAN

PlanTypes ==
    /\ foreground \in Windows /\ backend \in {"win32", "mcp"}
    /\ view \in Views /\ op \in Requests
    /\ dpc \in {"idle", "begin", "map", "mapped", "send", "aim", "aimed", "arrive",
                "press", "pressed", "settle", "repair", "repairing", "verify",
                "keys", "typing", "call", "calling", "sent"}
    /\ first \in Windows /\ basis \in Windows \cup {NoToken}
    /\ held \subseteq {"button", "keys"} /\ result \in ErrorCodes \cup {"none", "ok"}

LEMMA InputTypes == DesktopTypeOK <=> NumberTypes /\ FlagTypes /\ PlanTypes
<1>1. DesktopTypeOK => NumberTypes /\ FlagTypes /\ PlanTypes
  BY DEF DesktopTypeOK, NumberTypes, FlagTypes, PlanTypes
<1>2. NumberTypes /\ FlagTypes /\ PlanTypes => DesktopTypeOK
  BY DEF DesktopTypeOK, NumberTypes, FlagTypes, PlanTypes
<1> QED
  BY <1>1, <1>2

LEMMA InitInput == InputInit => InputInv
<1> SUFFICES ASSUME InputInit PROVE InputInv
  OBVIOUS
<1>0. Span \in Nat /\ 2 <= Span /\ Span <= Scale + 1 /\ MaxMutations \in Nat /\ MaxEvents \in Nat
  BY DesktopAssumption
<1>1. op \in Requests
  BY <1>0 DEF InputInit, Requests, InputKinds, PointerKinds
<1>2. view \in Views
  BY <1>0 DEF InputInit, Views, NoView
<1>3. DesktopTypeOK
  <2>1. NumberTypes
    BY <1>0 DEF InputInit, NumberTypes, Pixels
  <2>2. FlagTypes
    BY DEF InputInit, FlagTypes
  <2>3. PlanTypes
    BY <1>1, <1>2 DEF InputInit, PlanTypes, ErrorCodes
  <2> QED
    BY <2>1, <2>2, <2>3, InputTypes
<1>4. CallInv /\ HeldInv /\ SentInv /\ SoundInv /\ ConflictMeansUntouched /\ UndisturbedSucceeds
  BY DEF InputInit, CallInv, HeldInv, SentInv, SoundInv, ConflictMeansUntouched, Untouched,
     UndisturbedSucceeds
<1>5. ViewInv
  BY <1>0 DEF InputInit, ViewInv, NoView
<1> QED
  BY <1>3, <1>4, <1>5 DEF InputInv

LEMMA NextNumbers == InputInv /\ [InputNext]_inputVars => NumberTypes'
<1> SUFFICES ASSUME InputInv, [InputNext]_inputVars PROVE NumberTypes'
  OBVIOUS
<1>0. /\ NumberTypes /\ FlagTypes /\ PlanTypes /\ CallInv
      /\ Span \in Nat /\ 2 <= Span /\ Span <= Scale + 1 /\ MaxMutations \in Nat /\ MaxEvents \in Nat
      /\ op.times \in 1..2 /\ op.x \in 0..Span
  BY DesktopAssumption, RequestFacts, InputTypes DEF InputInv, PlanTypes
<1>c. /\ Invalid(TRUE) \in ErrorCodes \cup {"ok"} /\ Invalid(FALSE) \in ErrorCodes \cup {"ok"}
      /\ Boundary \in ErrorCodes \cup {"ok"}
  BY DEF Invalid, Boundary, ErrorCodes
<1>l. /\ target \in 0..Span + 1 => Landing(target) \in Pixels
      /\ before \in Pixels => Landing(before) \in Pixels
  <2>1. \A p \in Nat : (IF p > Span - 1 THEN Span - 1 ELSE p) \in Pixels
    BY <1>0 DEF Pixels
  <2>2. 0..Span + 1 \subseteq Nat /\ Pixels \subseteq Nat
    BY <1>0 DEF Pixels
  <2> QED
    BY <2>1, <2>2, LandsThere
<1>1. ASSUME SwitchWindow PROVE NumberTypes'
  BY <1>0, <1>l, <1>1 DEF SwitchWindow, Happens, NumberTypes, desktopVars, controllerVars
<1>2. ASSUME LockOrUnlock PROVE NumberTypes'
  BY <1>0, <1>l, <1>2 DEF LockOrUnlock, Happens, NumberTypes, desktopVars, controllerVars
<1>3. ASSUME MoveMouse PROVE NumberTypes'
  BY <1>0, <1>l, <1>3 DEF MoveMouse, Happens, NumberTypes, desktopVars, controllerVars
<1>4. ASSUME StopInput PROVE NumberTypes'
  BY <1>0, <1>l, <1>4 DEF StopInput, Happens, NumberTypes, desktopVars, controllerVars
<1>5. ASSUME Observe PROVE NumberTypes'
  BY <1>0, <1>l, <1>5 DEF Observe, NumberTypes, desktopVars, controllerVars
<1>6. ASSUME NEW r \in Requests, Begin(r) PROVE NumberTypes'
  BY <1>0, <1>l, <1>6 DEF Begin, Finish, NumberTypes, Pixels, desktopVars, controllerVars
<1>7. ASSUME FirstValidate PROVE NumberTypes'
  BY <1>0, <1>l, <1>7 DEF FirstValidate, Check, ProceedTo, Finish, KeepEffects, NumberTypes,
     desktopVars, controllerVars
<1>8. ASSUME MapPoint PROVE NumberTypes'
  BY <1>0, <1>l, <1>8 DEF MapPoint, ProceedTo, Finish, KeepEffects, NumberTypes, PlanTypes, Views,
     desktopVars, controllerVars
<1>9. ASSUME SecondValidate PROVE NumberTypes'
  BY <1>0, <1>l, <1>9 DEF SecondValidate, Check, ProceedTo, Finish, KeepPlan, KeepEffects,
     NumberTypes, desktopVars, controllerVars
<1>10. ASSUME Send PROVE NumberTypes'
  BY <1>0, <1>l, <1>10 DEF Send, ProceedTo, Finish, KeepEffects, NumberTypes, desktopVars,
     controllerVars
<1>11. ASSUME NoCursor PROVE NumberTypes'
  BY <1>0, <1>l, <1>11 DEF NoCursor, Finish, KeepPlan, NumberTypes, desktopVars, controllerVars
<1>12. ASSUME CheckMove PROVE NumberTypes'
  BY <1>0, <1>l, <1>12 DEF CheckMove, Check, ProceedTo, Finish, KeepPlan, KeepEffects,
     NumberTypes, desktopVars, controllerVars
<1>13. ASSUME InsertMove PROVE NumberTypes'
  BY <1>0, <1>l, <1>13 DEF InsertMove, ProceedTo, Finish, KeepPlan, NumberTypes, desktopVars,
     controllerVars
<1>14. ASSUME Arrive PROVE NumberTypes'
  BY <1>0, <1>l, <1>14 DEF Arrive, ProceedTo, KeepPlan, NumberTypes, desktopVars, controllerVars
<1>15. ASSUME CheckClick PROVE NumberTypes'
  BY <1>0, <1>l, <1>15 DEF CheckClick, ProceedTo, KeepPlan, KeepEffects, NumberTypes, desktopVars,
     controllerVars
<1>16. ASSUME InsertClick PROVE NumberTypes'
  BY <1>0, <1>l, <1>16 DEF InsertClick, ProceedTo, KeepPlan, NumberTypes, desktopVars,
     controllerVars
<1>17. ASSUME Settle PROVE NumberTypes'
  BY <1>0, <1>l, <1>17 DEF Settle, ProceedTo, KeepPlan, NumberTypes, desktopVars, controllerVars
<1>18. ASSUME CheckRepair PROVE NumberTypes'
  BY <1>0, <1>l, <1>18 DEF CheckRepair, ProceedTo, Finish, KeepPlan, KeepEffects, NumberTypes,
     desktopVars, controllerVars
<1>19. ASSUME InsertRepair PROVE NumberTypes'
  BY <1>0, <1>l, <1>19 DEF InsertRepair, ProceedTo, KeepPlan, NumberTypes, desktopVars,
     controllerVars
<1>20. ASSUME VerifyRepair PROVE NumberTypes'
  BY <1>0, <1>l, <1>20 DEF VerifyRepair, Finish, KeepPlan, KeepEffects, NumberTypes, desktopVars,
     controllerVars
<1>21. ASSUME CheckKeys PROVE NumberTypes'
  BY <1>0, <1>l, <1>21 DEF CheckKeys, Check, ProceedTo, Finish, KeepPlan, KeepEffects,
     NumberTypes, desktopVars, controllerVars
<1>22. ASSUME InsertKeys PROVE NumberTypes'
  BY <1>0, <1>l, <1>22 DEF InsertKeys, ProceedTo, Finish, KeepPlan, NumberTypes, KeyEvents,
     desktopVars, controllerVars
<1>23. ASSUME CheckCall PROVE NumberTypes'
  BY <1>0, <1>l, <1>23 DEF CheckCall, Check, ProceedTo, Finish, KeepPlan, KeepEffects,
     NumberTypes, desktopVars, controllerVars
<1>24. ASSUME CallAnswered PROVE NumberTypes'
  BY <1>0, <1>l, <1>24 DEF CallAnswered, ProceedTo, KeepPlan, NumberTypes, CallInv, Calls,
     desktopVars, controllerVars
<1>25. ASSUME CallFails PROVE NumberTypes'
  BY <1>0, <1>l, <1>25 DEF CallFails, Finish, NumberTypes, desktopVars, controllerVars
<1>26. ASSUME LastValidate PROVE NumberTypes'
  BY <1>0, <1>l, <1>26 DEF LastValidate, Finish, KeepPlan, KeepEffects, NumberTypes, desktopVars,
     controllerVars
<1>27. ASSUME UNCHANGED inputVars PROVE NumberTypes'
  BY <1>0, <1>l, <1>27 DEF NumberTypes, inputVars, desktopVars, controllerVars, effectVars
<1> QED
  BY <1>1, <1>2, <1>3, <1>4, <1>5, <1>6, <1>7, <1>8, <1>9, <1>10, <1>11, <1>12, <1>13, <1>14,
     <1>15, <1>16, <1>17, <1>18, <1>19, <1>20, <1>21, <1>22, <1>23, <1>24, <1>25, <1>26, <1>27 DEF
     InputNext

LEMMA NextFlags == InputInv /\ [InputNext]_inputVars => FlagTypes'
<1> SUFFICES ASSUME InputInv, [InputNext]_inputVars PROVE FlagTypes'
  OBVIOUS
<1>0. /\ NumberTypes /\ FlagTypes /\ PlanTypes /\ CallInv
      /\ Span \in Nat /\ 2 <= Span /\ Span <= Scale + 1 /\ MaxMutations \in Nat /\ MaxEvents \in Nat
      /\ op.times \in 1..2 /\ op.x \in 0..Span
  BY DesktopAssumption, RequestFacts, InputTypes DEF InputInv, PlanTypes
<1>1. ASSUME SwitchWindow PROVE FlagTypes'
  BY <1>0, <1>1 DEF SwitchWindow, Happens, FlagTypes, desktopVars, controllerVars
<1>2. ASSUME LockOrUnlock PROVE FlagTypes'
  BY <1>0, <1>2 DEF LockOrUnlock, Happens, FlagTypes, desktopVars, controllerVars
<1>3. ASSUME MoveMouse PROVE FlagTypes'
  BY <1>0, <1>3 DEF MoveMouse, Happens, FlagTypes, desktopVars, controllerVars
<1>4. ASSUME StopInput PROVE FlagTypes'
  BY <1>0, <1>4 DEF StopInput, Happens, FlagTypes, desktopVars, controllerVars
<1>5. ASSUME Observe PROVE FlagTypes'
  BY <1>0, <1>5 DEF Observe, FlagTypes, desktopVars, controllerVars
<1>6. ASSUME NEW r \in Requests, Begin(r) PROVE FlagTypes'
  BY <1>0, <1>6 DEF Begin, Finish, FlagTypes, desktopVars, controllerVars
<1>7. ASSUME FirstValidate PROVE FlagTypes'
  BY <1>0, <1>7 DEF FirstValidate, Check, ProceedTo, Finish, KeepEffects, FlagTypes, desktopVars,
     controllerVars
<1>8. ASSUME MapPoint PROVE FlagTypes'
  BY <1>0, <1>8 DEF MapPoint, ProceedTo, Finish, KeepEffects, FlagTypes, desktopVars,
     controllerVars
<1>9. ASSUME SecondValidate PROVE FlagTypes'
  BY <1>0, <1>9 DEF SecondValidate, Check, ProceedTo, Finish, KeepPlan, KeepEffects, FlagTypes,
     desktopVars, controllerVars
<1>10. ASSUME Send PROVE FlagTypes'
  BY <1>0, <1>10 DEF Send, ProceedTo, Finish, KeepEffects, FlagTypes, desktopVars, controllerVars
<1>11. ASSUME NoCursor PROVE FlagTypes'
  BY <1>0, <1>11 DEF NoCursor, Finish, KeepPlan, FlagTypes, desktopVars, controllerVars
<1>12. ASSUME CheckMove PROVE FlagTypes'
  BY <1>0, <1>12 DEF CheckMove, Check, ProceedTo, Finish, KeepPlan, KeepEffects, FlagTypes,
     desktopVars, controllerVars
<1>13. ASSUME InsertMove PROVE FlagTypes'
  BY <1>0, <1>13 DEF InsertMove, ProceedTo, Finish, KeepPlan, FlagTypes, desktopVars,
     controllerVars
<1>14. ASSUME Arrive PROVE FlagTypes'
  BY <1>0, <1>14 DEF Arrive, ProceedTo, KeepPlan, FlagTypes, desktopVars, controllerVars
<1>15. ASSUME CheckClick PROVE FlagTypes'
  BY <1>0, <1>15 DEF CheckClick, ProceedTo, KeepPlan, KeepEffects, FlagTypes, desktopVars,
     controllerVars
<1>16. ASSUME InsertClick PROVE FlagTypes'
  BY <1>0, <1>16 DEF InsertClick, ProceedTo, KeepPlan, FlagTypes, desktopVars, controllerVars
<1>17. ASSUME Settle PROVE FlagTypes'
  BY <1>0, <1>17 DEF Settle, ProceedTo, KeepPlan, FlagTypes, desktopVars, controllerVars
<1>18. ASSUME CheckRepair PROVE FlagTypes'
  BY <1>0, <1>18 DEF CheckRepair, ProceedTo, Finish, KeepPlan, KeepEffects, FlagTypes,
     desktopVars, controllerVars
<1>19. ASSUME InsertRepair PROVE FlagTypes'
  BY <1>0, <1>19 DEF InsertRepair, ProceedTo, KeepPlan, FlagTypes, desktopVars, controllerVars
<1>20. ASSUME VerifyRepair PROVE FlagTypes'
  BY <1>0, <1>20 DEF VerifyRepair, Finish, KeepPlan, KeepEffects, FlagTypes, desktopVars,
     controllerVars
<1>21. ASSUME CheckKeys PROVE FlagTypes'
  BY <1>0, <1>21 DEF CheckKeys, Check, ProceedTo, Finish, KeepPlan, KeepEffects, FlagTypes,
     desktopVars, controllerVars
<1>22. ASSUME InsertKeys PROVE FlagTypes'
  <2>1. PICK n \in 0..KeyEvents :
          /\ injected' = (n > 0) /\ interference' = (interference \/ n < KeyEvents)
          /\ IF n = KeyEvents THEN ProceedTo("sent")
             ELSE Finish(IF n = 0 THEN "limitation" ELSE "state_uncertain")
          /\ UNCHANGED <<unlocked, enabled, usable, complete>>
    BY <1>22 DEF InsertKeys, KeepPlan, desktopVars
  <2>2. warned' \in BOOLEAN
    BY <1>0, <2>1 DEF ProceedTo, Finish, FlagTypes
  <2>3. injected' \in BOOLEAN /\ interference' \in BOOLEAN
    BY <1>0, <2>1 DEF FlagTypes
  <2> QED
    BY <1>0, <2>1, <2>2, <2>3 DEF FlagTypes
<1>23. ASSUME CheckCall PROVE FlagTypes'
  BY <1>0, <1>23 DEF CheckCall, Check, ProceedTo, Finish, KeepPlan, KeepEffects, FlagTypes,
     desktopVars, controllerVars
<1>24. ASSUME CallAnswered PROVE FlagTypes'
  BY <1>0, <1>24 DEF CallAnswered, ProceedTo, KeepPlan, FlagTypes, desktopVars, controllerVars
<1>25. ASSUME CallFails PROVE FlagTypes'
  BY <1>0, <1>25 DEF CallFails, Finish, FlagTypes, desktopVars, controllerVars
<1>26. ASSUME LastValidate PROVE FlagTypes'
  BY <1>0, <1>26 DEF LastValidate, Finish, KeepPlan, KeepEffects, FlagTypes, desktopVars,
     controllerVars
<1>27. ASSUME UNCHANGED inputVars PROVE FlagTypes'
  BY <1>0, <1>27 DEF FlagTypes, inputVars, desktopVars, controllerVars, effectVars
<1> QED
  BY <1>1, <1>2, <1>3, <1>4, <1>5, <1>6, <1>7, <1>8, <1>9, <1>10, <1>11, <1>12, <1>13, <1>14,
     <1>15, <1>16, <1>17, <1>18, <1>19, <1>20, <1>21, <1>22, <1>23, <1>24, <1>25, <1>26, <1>27 DEF
     InputNext

LEMMA NextPlans == InputInv /\ [InputNext]_inputVars => PlanTypes'
<1> SUFFICES ASSUME InputInv, [InputNext]_inputVars PROVE PlanTypes'
  OBVIOUS
<1>0. /\ NumberTypes /\ FlagTypes /\ PlanTypes /\ CallInv
      /\ Span \in Nat /\ 2 <= Span /\ Span <= Scale + 1 /\ MaxMutations \in Nat /\ MaxEvents \in Nat
      /\ op.times \in 1..2 /\ op.x \in 0..Span
  BY DesktopAssumption, RequestFacts, InputTypes DEF InputInv, PlanTypes
<1>c. /\ Invalid(TRUE) \in ErrorCodes \cup {"ok"} /\ Invalid(FALSE) \in ErrorCodes \cup {"ok"}
      /\ Boundary \in ErrorCodes \cup {"ok"}
  BY DEF Invalid, Boundary, ErrorCodes
<1>1. ASSUME SwitchWindow PROVE PlanTypes'
  BY <1>0, <1>c, <1>1 DEF SwitchWindow, Happens, PlanTypes, ErrorCodes, desktopVars,
     controllerVars
<1>2. ASSUME LockOrUnlock PROVE PlanTypes'
  BY <1>0, <1>c, <1>2 DEF LockOrUnlock, Happens, PlanTypes, ErrorCodes, desktopVars,
     controllerVars
<1>3. ASSUME MoveMouse PROVE PlanTypes'
  BY <1>0, <1>c, <1>3 DEF MoveMouse, Happens, PlanTypes, ErrorCodes, desktopVars, controllerVars
<1>4. ASSUME StopInput PROVE PlanTypes'
  BY <1>0, <1>c, <1>4 DEF StopInput, Happens, PlanTypes, ErrorCodes, desktopVars, controllerVars
<1>5. ASSUME Observe PROVE PlanTypes'
  <2>1. view' \in Views
    <3>1. CASE view' = NoView
      BY <1>0, <3>1 DEF NoView, Views
    <3>2. ASSUME NEW m \in 0..1, view' = [token |-> foreground, left |-> m, width |-> Span - m]
          PROVE  view' \in Views
      <4>1. m \in Int /\ Span - m \in 0..Span /\ foreground \in Windows
        BY <1>0 DEF PlanTypes
      <4> QED
        BY <3>2, <4>1 DEF Views
    <3> QED
      BY <3>1, <3>2, <1>5 DEF Observe
  <2> QED
    BY <1>0, <2>1, <1>5 DEF Observe, PlanTypes, desktopVars
<1>6. ASSUME NEW r \in Requests, Begin(r) PROVE PlanTypes'
  BY <1>0, <1>c, <1>6 DEF Begin, Finish, PlanTypes, ErrorCodes, desktopVars, controllerVars
<1>7. ASSUME FirstValidate PROVE PlanTypes'
  BY <1>0, <1>c, <1>7 DEF FirstValidate, Check, ProceedTo, Finish, KeepEffects, PlanTypes,
     ErrorCodes, desktopVars, controllerVars
<1>8. ASSUME MapPoint PROVE PlanTypes'
  <2>1. view.token \in Windows \cup {NoToken}
    BY <1>0 DEF PlanTypes, Views
  <2> QED
    BY <1>0, <2>1, <1>8 DEF MapPoint, ProceedTo, Finish, KeepEffects, PlanTypes, ErrorCodes,
       desktopVars
<1>9. ASSUME SecondValidate PROVE PlanTypes'
  BY <1>0, <1>c, <1>9 DEF SecondValidate, Check, ProceedTo, Finish, KeepPlan, KeepEffects,
     PlanTypes, ErrorCodes, desktopVars, controllerVars
<1>10. ASSUME Send PROVE PlanTypes'
  BY <1>0, <1>c, <1>10 DEF Send, ProceedTo, Finish, KeepEffects, PlanTypes, ErrorCodes,
     desktopVars, controllerVars
<1>11. ASSUME NoCursor PROVE PlanTypes'
  BY <1>0, <1>c, <1>11 DEF NoCursor, Finish, KeepPlan, PlanTypes, ErrorCodes, desktopVars,
     controllerVars
<1>12. ASSUME CheckMove PROVE PlanTypes'
  BY <1>0, <1>c, <1>12 DEF CheckMove, Check, ProceedTo, Finish, KeepPlan, KeepEffects, PlanTypes,
     ErrorCodes, desktopVars, controllerVars
<1>13. ASSUME InsertMove PROVE PlanTypes'
  BY <1>0, <1>c, <1>13 DEF InsertMove, ProceedTo, Finish, KeepPlan, PlanTypes, ErrorCodes,
     desktopVars, controllerVars
<1>14. ASSUME Arrive PROVE PlanTypes'
  BY <1>0, <1>c, <1>14 DEF Arrive, ProceedTo, KeepPlan, PlanTypes, ErrorCodes, desktopVars,
     controllerVars
<1>15. ASSUME CheckClick PROVE PlanTypes'
  BY <1>0, <1>c, <1>15 DEF CheckClick, ProceedTo, KeepPlan, KeepEffects, PlanTypes, ErrorCodes,
     desktopVars, controllerVars
<1>16. ASSUME InsertClick PROVE PlanTypes'
  BY <1>0, <1>c, <1>16 DEF InsertClick, ProceedTo, KeepPlan, PlanTypes, ErrorCodes, desktopVars,
     controllerVars
<1>17. ASSUME Settle PROVE PlanTypes'
  BY <1>0, <1>c, <1>17 DEF Settle, ProceedTo, KeepPlan, PlanTypes, ErrorCodes, desktopVars,
     controllerVars
<1>18. ASSUME CheckRepair PROVE PlanTypes'
  BY <1>0, <1>c, <1>18 DEF CheckRepair, ProceedTo, Finish, KeepPlan, KeepEffects, PlanTypes,
     ErrorCodes, desktopVars, controllerVars
<1>19. ASSUME InsertRepair PROVE PlanTypes'
  BY <1>0, <1>c, <1>19 DEF InsertRepair, ProceedTo, KeepPlan, PlanTypes, ErrorCodes, desktopVars,
     controllerVars
<1>20. ASSUME VerifyRepair PROVE PlanTypes'
  BY <1>0, <1>c, <1>20 DEF VerifyRepair, Finish, KeepPlan, KeepEffects, PlanTypes, ErrorCodes,
     desktopVars, controllerVars
<1>21. ASSUME CheckKeys PROVE PlanTypes'
  BY <1>0, <1>c, <1>21 DEF CheckKeys, Check, ProceedTo, Finish, KeepPlan, KeepEffects, PlanTypes,
     ErrorCodes, desktopVars, controllerVars
<1>22. ASSUME InsertKeys PROVE PlanTypes'
  BY <1>0, <1>c, <1>22 DEF InsertKeys, ProceedTo, Finish, KeepPlan, PlanTypes, ErrorCodes,
     desktopVars, controllerVars
<1>23. ASSUME CheckCall PROVE PlanTypes'
  BY <1>0, <1>c, <1>23 DEF CheckCall, Check, ProceedTo, Finish, KeepPlan, KeepEffects, PlanTypes,
     ErrorCodes, desktopVars, controllerVars
<1>24. ASSUME CallAnswered PROVE PlanTypes'
  BY <1>0, <1>c, <1>24 DEF CallAnswered, ProceedTo, KeepPlan, PlanTypes, ErrorCodes, desktopVars,
     controllerVars
<1>25. ASSUME CallFails PROVE PlanTypes'
  BY <1>0, <1>c, <1>25 DEF CallFails, Finish, PlanTypes, ErrorCodes, desktopVars, controllerVars
<1>26. ASSUME LastValidate PROVE PlanTypes'
  BY <1>0, <1>c, <1>26 DEF LastValidate, Finish, KeepPlan, KeepEffects, PlanTypes, ErrorCodes,
     desktopVars, controllerVars
<1>27. ASSUME UNCHANGED inputVars PROVE PlanTypes'
  BY <1>0, <1>c, <1>27 DEF PlanTypes, inputVars, desktopVars, controllerVars, effectVars
<1> QED
  BY <1>1, <1>2, <1>3, <1>4, <1>5, <1>6, <1>7, <1>8, <1>9, <1>10, <1>11, <1>12, <1>13, <1>14,
     <1>15, <1>16, <1>17, <1>18, <1>19, <1>20, <1>21, <1>22, <1>23, <1>24, <1>25, <1>26, <1>27 DEF
     InputNext
LEMMA NextCalls == InputInv /\ [InputNext]_inputVars => CallInv'
<1> SUFFICES ASSUME InputInv, [InputNext]_inputVars PROVE CallInv'
  OBVIOUS
<1>0. /\ NumberTypes /\ FlagTypes /\ PlanTypes /\ CallInv /\ HeldInv /\ SentInv /\ op.times \in 1..2
      /\ ConflictMeansUntouched
  BY RequestFacts, InputTypes DEF InputInv, PlanTypes
<1>1. ASSUME SwitchWindow PROVE CallInv'
  BY <1>0, <1>1 DEF SwitchWindow, Happens, CallInv, Calls, desktopVars, controllerVars
<1>2. ASSUME LockOrUnlock PROVE CallInv'
  BY <1>0, <1>2 DEF LockOrUnlock, Happens, CallInv, Calls, desktopVars, controllerVars
<1>3. ASSUME MoveMouse PROVE CallInv'
  BY <1>0, <1>3 DEF MoveMouse, Happens, CallInv, Calls, desktopVars, controllerVars
<1>4. ASSUME StopInput PROVE CallInv'
  BY <1>0, <1>4 DEF StopInput, Happens, CallInv, Calls, desktopVars, controllerVars
<1>5. ASSUME Observe PROVE CallInv'
  BY <1>0, <1>5 DEF Observe, CallInv, Calls, desktopVars, controllerVars
<1>6. ASSUME NEW r \in Requests, Begin(r) PROVE CallInv'
  BY <1>0, <1>6 DEF Begin, Finish, CallInv, Calls, desktopVars, controllerVars
<1>7. ASSUME FirstValidate PROVE CallInv'
  BY <1>0, <1>7 DEF FirstValidate, Check, ProceedTo, Finish, KeepEffects, CallInv, Calls,
     desktopVars, controllerVars
<1>8. ASSUME MapPoint PROVE CallInv'
  BY <1>0, <1>8 DEF MapPoint, ProceedTo, Finish, KeepEffects, CallInv, Calls, desktopVars,
     controllerVars
<1>9. ASSUME SecondValidate PROVE CallInv'
  BY <1>0, <1>9 DEF SecondValidate, Check, ProceedTo, Finish, KeepPlan, KeepEffects, CallInv,
     Calls, desktopVars, controllerVars
<1>10. ASSUME Send PROVE CallInv'
  BY <1>0, <1>10 DEF Send, ProceedTo, Finish, KeepEffects, CallInv, Calls, SentInv, NumberTypes,
     PointerKinds, desktopVars, controllerVars
<1>11. ASSUME NoCursor PROVE CallInv'
  BY <1>0, <1>11 DEF NoCursor, Finish, KeepPlan, CallInv, Calls, desktopVars, controllerVars
<1>12. ASSUME CheckMove PROVE CallInv'
  BY <1>0, <1>12 DEF CheckMove, Check, ProceedTo, Finish, KeepPlan, KeepEffects, CallInv, Calls,
     desktopVars, controllerVars
<1>13. ASSUME InsertMove PROVE CallInv'
  BY <1>0, <1>13 DEF InsertMove, ProceedTo, Finish, KeepPlan, CallInv, Calls, desktopVars,
     controllerVars
<1>14. ASSUME Arrive PROVE CallInv'
  BY <1>0, <1>14 DEF Arrive, ProceedTo, KeepPlan, CallInv, Calls, desktopVars, controllerVars
<1>15. ASSUME CheckClick PROVE CallInv'
  BY <1>0, <1>15 DEF CheckClick, ProceedTo, KeepPlan, KeepEffects, CallInv, Calls, desktopVars,
     controllerVars
<1>16. ASSUME InsertClick PROVE CallInv'
  BY <1>0, <1>16 DEF InsertClick, ProceedTo, KeepPlan, CallInv, Calls, desktopVars, controllerVars
<1>17. ASSUME Settle PROVE CallInv'
  BY <1>0, <1>17 DEF Settle, ProceedTo, KeepPlan, CallInv, Calls, desktopVars, controllerVars
<1>18. ASSUME CheckRepair PROVE CallInv'
  BY <1>0, <1>18 DEF CheckRepair, ProceedTo, Finish, KeepPlan, KeepEffects, CallInv, Calls,
     desktopVars, controllerVars
<1>19. ASSUME InsertRepair PROVE CallInv'
  BY <1>0, <1>19 DEF InsertRepair, ProceedTo, KeepPlan, CallInv, Calls, desktopVars,
     controllerVars
<1>20. ASSUME VerifyRepair PROVE CallInv'
  BY <1>0, <1>20 DEF VerifyRepair, Finish, KeepPlan, KeepEffects, CallInv, Calls, desktopVars,
     controllerVars
<1>21. ASSUME CheckKeys PROVE CallInv'
  BY <1>0, <1>21 DEF CheckKeys, Check, ProceedTo, Finish, KeepPlan, KeepEffects, CallInv, Calls,
     desktopVars, controllerVars
<1>22. ASSUME InsertKeys PROVE CallInv'
  BY <1>0, <1>22 DEF InsertKeys, ProceedTo, Finish, KeepPlan, CallInv, Calls, desktopVars,
     controllerVars
<1>23. ASSUME CheckCall PROVE CallInv'
  BY <1>0, <1>23 DEF CheckCall, Check, ProceedTo, Finish, KeepPlan, KeepEffects, CallInv, Calls,
     desktopVars, controllerVars
<1>24. ASSUME CallAnswered PROVE CallInv'
  BY <1>0, <1>24 DEF CallAnswered, ProceedTo, KeepPlan, CallInv, Calls, NumberTypes, desktopVars,
     controllerVars
<1>25. ASSUME CallFails PROVE CallInv'
  BY <1>0, <1>25 DEF CallFails, Finish, CallInv, Calls, desktopVars, controllerVars
<1>26. ASSUME LastValidate PROVE CallInv'
  BY <1>0, <1>26 DEF LastValidate, Finish, KeepPlan, KeepEffects, CallInv, Calls, desktopVars,
     controllerVars
<1>27. ASSUME UNCHANGED inputVars PROVE CallInv'
  BY <1>0, <1>27 DEF CallInv, Calls, inputVars, desktopVars, controllerVars, effectVars
<1> QED
  BY <1>1, <1>2, <1>3, <1>4, <1>5, <1>6, <1>7, <1>8, <1>9, <1>10, <1>11, <1>12, <1>13, <1>14,
     <1>15, <1>16, <1>17, <1>18, <1>19, <1>20, <1>21, <1>22, <1>23, <1>24, <1>25, <1>26, <1>27 DEF
     InputNext

LEMMA NextHeld == InputInv /\ [InputNext]_inputVars => HeldInv'
<1> SUFFICES ASSUME InputInv, [InputNext]_inputVars PROVE HeldInv'
  OBVIOUS
<1>0. /\ NumberTypes /\ FlagTypes /\ PlanTypes /\ CallInv /\ HeldInv /\ SentInv /\ op.times \in 1..2
      /\ ConflictMeansUntouched
  BY RequestFacts, InputTypes DEF InputInv, PlanTypes
<1>1. ASSUME SwitchWindow PROVE HeldInv'
  BY <1>0, <1>1 DEF SwitchWindow, Happens, HeldInv, desktopVars, controllerVars
<1>2. ASSUME LockOrUnlock PROVE HeldInv'
  BY <1>0, <1>2 DEF LockOrUnlock, Happens, HeldInv, desktopVars, controllerVars
<1>3. ASSUME MoveMouse PROVE HeldInv'
  BY <1>0, <1>3 DEF MoveMouse, Happens, HeldInv, desktopVars, controllerVars
<1>4. ASSUME StopInput PROVE HeldInv'
  BY <1>0, <1>4 DEF StopInput, Happens, HeldInv, desktopVars, controllerVars
<1>5. ASSUME Observe PROVE HeldInv'
  BY <1>0, <1>5 DEF Observe, HeldInv, desktopVars, controllerVars
<1>6. ASSUME NEW r \in Requests, Begin(r) PROVE HeldInv'
  BY <1>0, <1>6 DEF Begin, Finish, HeldInv, desktopVars, controllerVars
<1>7. ASSUME FirstValidate PROVE HeldInv'
  BY <1>0, <1>7 DEF FirstValidate, Check, ProceedTo, Finish, KeepEffects, HeldInv, desktopVars,
     controllerVars
<1>8. ASSUME MapPoint PROVE HeldInv'
  BY <1>0, <1>8 DEF MapPoint, ProceedTo, Finish, KeepEffects, HeldInv, desktopVars, controllerVars
<1>9. ASSUME SecondValidate PROVE HeldInv'
  BY <1>0, <1>9 DEF SecondValidate, Check, ProceedTo, Finish, KeepPlan, KeepEffects, HeldInv,
     desktopVars, controllerVars
<1>10. ASSUME Send PROVE HeldInv'
  BY <1>0, <1>10 DEF Send, ProceedTo, Finish, KeepEffects, HeldInv, desktopVars, controllerVars
<1>11. ASSUME NoCursor PROVE HeldInv'
  BY <1>0, <1>11 DEF NoCursor, Finish, KeepPlan, HeldInv, desktopVars, controllerVars
<1>12. ASSUME CheckMove PROVE HeldInv'
  BY <1>0, <1>12 DEF CheckMove, Check, ProceedTo, Finish, KeepPlan, KeepEffects, HeldInv,
     desktopVars, controllerVars
<1>13. ASSUME InsertMove PROVE HeldInv'
  BY <1>0, <1>13 DEF InsertMove, ProceedTo, Finish, KeepPlan, HeldInv, desktopVars, controllerVars
<1>14. ASSUME Arrive PROVE HeldInv'
  BY <1>0, <1>14 DEF Arrive, ProceedTo, KeepPlan, HeldInv, desktopVars, controllerVars
<1>15. ASSUME CheckClick PROVE HeldInv'
  BY <1>0, <1>15 DEF CheckClick, ProceedTo, KeepPlan, KeepEffects, HeldInv, desktopVars,
     controllerVars
<1>16. ASSUME InsertClick PROVE HeldInv'
  BY <1>0, <1>16 DEF InsertClick, ProceedTo, KeepPlan, HeldInv, NumberTypes, desktopVars,
     controllerVars
<1>17. ASSUME Settle PROVE HeldInv'
  BY <1>0, <1>17 DEF Settle, ProceedTo, KeepPlan, HeldInv, desktopVars, controllerVars
<1>18. ASSUME CheckRepair PROVE HeldInv'
  BY <1>0, <1>18 DEF CheckRepair, ProceedTo, Finish, KeepPlan, KeepEffects, HeldInv, desktopVars,
     controllerVars
<1>19. ASSUME InsertRepair PROVE HeldInv'
  <2>1. PICK odd : odd = inserted % 2
    OBVIOUS
  <2>2. odd \in 0..1
    BY <1>0, <2>1 DEF NumberTypes
  <2>3. PICK n \in 0..odd + 1 :
          /\ dpc = "repairing" /\ dpc' = "verify" /\ complete' = (n = odd + 1)
          /\ held' = IF odd = 1 /\ n > 0 THEN held \ {"button"} ELSE held
          /\ UNCHANGED warned
    BY <1>19, <2>1 DEF InsertRepair, ProceedTo
  <2>4. ~warned /\ "button" \in held => odd = 1
    BY <1>0, <2>1, <2>3 DEF HeldInv
  <2>5. n = 0 /\ odd = 1 => n # odd + 1
    OBVIOUS
  <2>6. ~warned /\ "button" \in held' => n = 0 /\ odd = 1
    BY <2>2, <2>3, <2>4
  <2>7. ~warned => "keys" \notin held'
    BY <1>0, <2>3 DEF HeldInv
  <2> QED
    BY <2>3, <2>5, <2>6, <2>7 DEF HeldInv
<1>20. ASSUME VerifyRepair PROVE HeldInv'
  BY <1>0, <1>20 DEF VerifyRepair, Finish, KeepPlan, KeepEffects, HeldInv, desktopVars,
     controllerVars
<1>21. ASSUME CheckKeys PROVE HeldInv'
  BY <1>0, <1>21 DEF CheckKeys, Check, ProceedTo, Finish, KeepPlan, KeepEffects, HeldInv,
     desktopVars, controllerVars
<1>22. ASSUME InsertKeys PROVE HeldInv'
  <2>1. PICK n \in 0..KeyEvents :
          /\ dpc = "typing"
          /\ held' = IF KeysDown(n) THEN held \cup {"keys"}
                     ELSE IF n > 0 THEN held \ {"keys"} ELSE held
          /\ IF n = KeyEvents THEN ProceedTo("sent")
             ELSE Finish(IF n = 0 THEN "limitation" ELSE "state_uncertain")
    BY <1>22 DEF InsertKeys
  <2>2. ~warned => held \cap {"button", "keys"} = {}
    BY <1>0, <2>1 DEF HeldInv
  <2>3. CASE n = KeyEvents \/ n = 0
    <3>1. ~KeysDown(n)
      BY <1>0, <2>3 DEF KeysDown, KeyEvents
    <3>2. warned' = warned
      BY <1>0, <2>1, <2>3 DEF ProceedTo, Finish, FlagTypes
    <3> QED
      BY <2>1, <2>2, <3>1, <3>2 DEF HeldInv
  <2>4. CASE n # KeyEvents /\ n # 0
    BY <2>1, <2>4 DEF Finish, HeldInv
  <2> QED
    BY <2>3, <2>4
<1>23. ASSUME CheckCall PROVE HeldInv'
  BY <1>0, <1>23 DEF CheckCall, Check, ProceedTo, Finish, KeepPlan, KeepEffects, HeldInv,
     desktopVars, controllerVars
<1>24. ASSUME CallAnswered PROVE HeldInv'
  BY <1>0, <1>24 DEF CallAnswered, ProceedTo, KeepPlan, HeldInv, desktopVars, controllerVars
<1>25. ASSUME CallFails PROVE HeldInv'
  BY <1>0, <1>25 DEF CallFails, Finish, HeldInv, desktopVars, controllerVars
<1>26. ASSUME LastValidate PROVE HeldInv'
  BY <1>0, <1>26 DEF LastValidate, Finish, KeepPlan, KeepEffects, HeldInv, desktopVars,
     controllerVars
<1>27. ASSUME UNCHANGED inputVars PROVE HeldInv'
  BY <1>0, <1>27 DEF HeldInv, inputVars, desktopVars, controllerVars, effectVars
<1> QED
  BY <1>1, <1>2, <1>3, <1>4, <1>5, <1>6, <1>7, <1>8, <1>9, <1>10, <1>11, <1>12, <1>13, <1>14,
     <1>15, <1>16, <1>17, <1>18, <1>19, <1>20, <1>21, <1>22, <1>23, <1>24, <1>25, <1>26, <1>27 DEF
     InputNext

LEMMA NextSent == InputInv /\ [InputNext]_inputVars => SentInv'
<1> SUFFICES ASSUME InputInv, [InputNext]_inputVars PROVE SentInv'
  OBVIOUS
<1>0. /\ NumberTypes /\ FlagTypes /\ PlanTypes /\ CallInv /\ HeldInv /\ SentInv /\ op.times \in 1..2
      /\ ConflictMeansUntouched
  BY RequestFacts, InputTypes DEF InputInv, PlanTypes
<1>1. ASSUME SwitchWindow PROVE SentInv'
  BY <1>0, <1>1 DEF SwitchWindow, Happens, SentInv, desktopVars, controllerVars
<1>2. ASSUME LockOrUnlock PROVE SentInv'
  BY <1>0, <1>2 DEF LockOrUnlock, Happens, SentInv, desktopVars, controllerVars
<1>3. ASSUME MoveMouse PROVE SentInv'
  BY <1>0, <1>3 DEF MoveMouse, Happens, SentInv, desktopVars, controllerVars
<1>4. ASSUME StopInput PROVE SentInv'
  BY <1>0, <1>4 DEF StopInput, Happens, SentInv, desktopVars, controllerVars
<1>5. ASSUME Observe PROVE SentInv'
  BY <1>0, <1>5 DEF Observe, SentInv, desktopVars, controllerVars
<1>6. ASSUME NEW r \in Requests, Begin(r) PROVE SentInv'
  BY <1>0, <1>6 DEF Begin, Finish, SentInv, desktopVars, controllerVars
<1>7. ASSUME FirstValidate PROVE SentInv'
  BY <1>0, <1>7 DEF FirstValidate, Check, ProceedTo, Finish, KeepEffects, SentInv, desktopVars,
     controllerVars
<1>8. ASSUME MapPoint PROVE SentInv'
  BY <1>0, <1>8 DEF MapPoint, ProceedTo, Finish, KeepEffects, SentInv, desktopVars, controllerVars
<1>9. ASSUME SecondValidate PROVE SentInv'
  BY <1>0, <1>9 DEF SecondValidate, Check, ProceedTo, Finish, KeepPlan, KeepEffects, SentInv,
     desktopVars, controllerVars
<1>10. ASSUME Send PROVE SentInv'
  BY <1>0, <1>10 DEF Send, ProceedTo, Finish, KeepEffects, SentInv, desktopVars, controllerVars
<1>11. ASSUME NoCursor PROVE SentInv'
  BY <1>0, <1>11 DEF NoCursor, Finish, KeepPlan, SentInv, desktopVars, controllerVars
<1>12. ASSUME CheckMove PROVE SentInv'
  BY <1>0, <1>12 DEF CheckMove, Check, ProceedTo, Finish, KeepPlan, KeepEffects, SentInv,
     desktopVars, controllerVars
<1>13. ASSUME InsertMove PROVE SentInv'
  BY <1>0, <1>13 DEF InsertMove, ProceedTo, Finish, KeepPlan, SentInv, desktopVars, controllerVars
<1>14. ASSUME Arrive PROVE SentInv'
  BY <1>0, <1>14 DEF Arrive, ProceedTo, KeepPlan, SentInv, desktopVars, controllerVars
<1>15. ASSUME CheckClick PROVE SentInv'
  BY <1>0, <1>15 DEF CheckClick, ProceedTo, KeepPlan, KeepEffects, SentInv, desktopVars,
     controllerVars
<1>16. ASSUME InsertClick PROVE SentInv'
  BY <1>0, <1>16 DEF InsertClick, ProceedTo, KeepPlan, SentInv, desktopVars, controllerVars
<1>17. ASSUME Settle PROVE SentInv'
  BY <1>0, <1>17 DEF Settle, ProceedTo, KeepPlan, SentInv, desktopVars, controllerVars
<1>18. ASSUME CheckRepair PROVE SentInv'
  BY <1>0, <1>18 DEF CheckRepair, ProceedTo, Finish, KeepPlan, KeepEffects, SentInv, desktopVars,
     controllerVars
<1>19. ASSUME InsertRepair PROVE SentInv'
  BY <1>0, <1>19 DEF InsertRepair, ProceedTo, KeepPlan, SentInv, desktopVars, controllerVars
<1>20. ASSUME VerifyRepair PROVE SentInv'
  BY <1>0, <1>20 DEF VerifyRepair, Finish, KeepPlan, KeepEffects, SentInv, desktopVars,
     controllerVars
<1>21. ASSUME CheckKeys PROVE SentInv'
  BY <1>0, <1>21 DEF CheckKeys, Check, ProceedTo, Finish, KeepPlan, KeepEffects, SentInv,
     desktopVars, controllerVars
<1>22. ASSUME InsertKeys PROVE SentInv'
  BY <1>0, <1>22 DEF InsertKeys, ProceedTo, Finish, KeepPlan, SentInv, desktopVars, controllerVars
<1>23. ASSUME CheckCall PROVE SentInv'
  BY <1>0, <1>23 DEF CheckCall, Check, ProceedTo, Finish, KeepPlan, KeepEffects, SentInv,
     desktopVars, controllerVars
<1>24. ASSUME CallAnswered PROVE SentInv'
  BY <1>0, <1>24 DEF CallAnswered, ProceedTo, KeepPlan, SentInv, desktopVars, controllerVars
<1>25. ASSUME CallFails PROVE SentInv'
  BY <1>0, <1>25 DEF CallFails, Finish, SentInv, desktopVars, controllerVars
<1>26. ASSUME LastValidate PROVE SentInv'
  BY <1>0, <1>26 DEF LastValidate, Finish, KeepPlan, KeepEffects, SentInv, desktopVars,
     controllerVars
<1>27. ASSUME UNCHANGED inputVars PROVE SentInv'
  BY <1>0, <1>27 DEF SentInv, inputVars, desktopVars, controllerVars, effectVars
<1> QED
  BY <1>1, <1>2, <1>3, <1>4, <1>5, <1>6, <1>7, <1>8, <1>9, <1>10, <1>11, <1>12, <1>13, <1>14,
     <1>15, <1>16, <1>17, <1>18, <1>19, <1>20, <1>21, <1>22, <1>23, <1>24, <1>25, <1>26, <1>27 DEF
     InputNext

LEMMA NextConflict == InputInv /\ [InputNext]_inputVars => ConflictMeansUntouched'
<1> SUFFICES ASSUME InputInv, [InputNext]_inputVars PROVE ConflictMeansUntouched'
  OBVIOUS
<1>0. /\ NumberTypes /\ FlagTypes /\ PlanTypes /\ CallInv /\ HeldInv /\ SentInv /\ op.times \in 1..2
      /\ ConflictMeansUntouched
  BY RequestFacts, InputTypes DEF InputInv, PlanTypes
<1>1. ASSUME SwitchWindow PROVE ConflictMeansUntouched'
  BY <1>0, <1>1 DEF SwitchWindow, Happens, ConflictMeansUntouched, Untouched, SentInv, CallInv,
     Invalid, Boundary, desktopVars, controllerVars
<1>2. ASSUME LockOrUnlock PROVE ConflictMeansUntouched'
  BY <1>0, <1>2 DEF LockOrUnlock, Happens, ConflictMeansUntouched, Untouched, SentInv, CallInv,
     Invalid, Boundary, desktopVars, controllerVars
<1>3. ASSUME MoveMouse PROVE ConflictMeansUntouched'
  BY <1>0, <1>3 DEF MoveMouse, Happens, ConflictMeansUntouched, Untouched, SentInv, CallInv,
     Invalid, Boundary, desktopVars, controllerVars
<1>4. ASSUME StopInput PROVE ConflictMeansUntouched'
  BY <1>0, <1>4 DEF StopInput, Happens, ConflictMeansUntouched, Untouched, SentInv, CallInv,
     Invalid, Boundary, desktopVars, controllerVars
<1>5. ASSUME Observe PROVE ConflictMeansUntouched'
  BY <1>0, <1>5 DEF Observe, ConflictMeansUntouched, Untouched, SentInv, CallInv, Invalid,
     Boundary, desktopVars, controllerVars
<1>6. ASSUME NEW r \in Requests, Begin(r) PROVE ConflictMeansUntouched'
  BY <1>0, <1>6 DEF Begin, Finish, ConflictMeansUntouched, Untouched, SentInv, CallInv, Invalid,
     Boundary, desktopVars, controllerVars
<1>7. ASSUME FirstValidate PROVE ConflictMeansUntouched'
  BY <1>0, <1>7 DEF FirstValidate, Check, ProceedTo, Finish, KeepEffects, ConflictMeansUntouched,
     Untouched, SentInv, CallInv, Invalid, Boundary, desktopVars, controllerVars
<1>8. ASSUME MapPoint PROVE ConflictMeansUntouched'
  BY <1>0, <1>8 DEF MapPoint, ProceedTo, Finish, KeepEffects, ConflictMeansUntouched, Untouched,
     SentInv, CallInv, Invalid, Boundary, desktopVars, controllerVars
<1>9. ASSUME SecondValidate PROVE ConflictMeansUntouched'
  BY <1>0, <1>9 DEF SecondValidate, Check, ProceedTo, Finish, KeepPlan, KeepEffects,
     ConflictMeansUntouched, Untouched, SentInv, CallInv, Invalid, Boundary, desktopVars,
     controllerVars
<1>10. ASSUME Send PROVE ConflictMeansUntouched'
  BY <1>0, <1>10 DEF Send, ProceedTo, Finish, KeepEffects, ConflictMeansUntouched, Untouched,
     SentInv, CallInv, Invalid, Boundary, desktopVars, controllerVars
<1>11. ASSUME NoCursor PROVE ConflictMeansUntouched'
  BY <1>0, <1>11 DEF NoCursor, Finish, KeepPlan, ConflictMeansUntouched, Untouched, SentInv,
     CallInv, Invalid, Boundary, desktopVars, controllerVars
<1>12. ASSUME CheckMove PROVE ConflictMeansUntouched'
  BY <1>0, <1>12 DEF CheckMove, Check, ProceedTo, Finish, KeepPlan, KeepEffects,
     ConflictMeansUntouched, Untouched, SentInv, CallInv, Invalid, Boundary, desktopVars,
     controllerVars
<1>13. ASSUME InsertMove PROVE ConflictMeansUntouched'
  BY <1>0, <1>13 DEF InsertMove, ProceedTo, Finish, KeepPlan, ConflictMeansUntouched, Untouched,
     SentInv, CallInv, Invalid, Boundary, desktopVars, controllerVars
<1>14. ASSUME Arrive PROVE ConflictMeansUntouched'
  BY <1>0, <1>14 DEF Arrive, ProceedTo, KeepPlan, ConflictMeansUntouched, Untouched, SentInv,
     CallInv, Invalid, Boundary, desktopVars, controllerVars
<1>15. ASSUME CheckClick PROVE ConflictMeansUntouched'
  BY <1>0, <1>15 DEF CheckClick, ProceedTo, KeepPlan, KeepEffects, ConflictMeansUntouched,
     Untouched, SentInv, CallInv, Invalid, Boundary, desktopVars, controllerVars
<1>16. ASSUME InsertClick PROVE ConflictMeansUntouched'
  BY <1>0, <1>16 DEF InsertClick, ProceedTo, KeepPlan, ConflictMeansUntouched, Untouched, SentInv,
     CallInv, Invalid, Boundary, desktopVars, controllerVars
<1>17. ASSUME Settle PROVE ConflictMeansUntouched'
  BY <1>0, <1>17 DEF Settle, ProceedTo, KeepPlan, ConflictMeansUntouched, Untouched, SentInv,
     CallInv, Invalid, Boundary, desktopVars, controllerVars
<1>18. ASSUME CheckRepair PROVE ConflictMeansUntouched'
  BY <1>0, <1>18 DEF CheckRepair, ProceedTo, Finish, KeepPlan, KeepEffects,
     ConflictMeansUntouched, Untouched, SentInv, CallInv, Invalid, Boundary, desktopVars,
     controllerVars
<1>19. ASSUME InsertRepair PROVE ConflictMeansUntouched'
  BY <1>0, <1>19 DEF InsertRepair, ProceedTo, KeepPlan, ConflictMeansUntouched, Untouched,
     SentInv, CallInv, Invalid, Boundary, desktopVars, controllerVars
<1>20. ASSUME VerifyRepair PROVE ConflictMeansUntouched'
  BY <1>0, <1>20 DEF VerifyRepair, Finish, KeepPlan, KeepEffects, ConflictMeansUntouched,
     Untouched, SentInv, CallInv, Invalid, Boundary, desktopVars, controllerVars
<1>21. ASSUME CheckKeys PROVE ConflictMeansUntouched'
  BY <1>0, <1>21 DEF CheckKeys, Check, ProceedTo, Finish, KeepPlan, KeepEffects,
     ConflictMeansUntouched, Untouched, SentInv, CallInv, Invalid, Boundary, desktopVars,
     controllerVars
<1>22. ASSUME InsertKeys PROVE ConflictMeansUntouched'
  BY <1>0, <1>22 DEF InsertKeys, ProceedTo, Finish, KeepPlan, ConflictMeansUntouched, Untouched,
     SentInv, CallInv, Invalid, Boundary, desktopVars, controllerVars
<1>23. ASSUME CheckCall PROVE ConflictMeansUntouched'
  BY <1>0, <1>23 DEF CheckCall, Check, ProceedTo, Finish, KeepPlan, KeepEffects,
     ConflictMeansUntouched, Untouched, SentInv, CallInv, Invalid, Boundary, desktopVars,
     controllerVars
<1>24. ASSUME CallAnswered PROVE ConflictMeansUntouched'
  BY <1>0, <1>24 DEF CallAnswered, ProceedTo, KeepPlan, ConflictMeansUntouched, Untouched,
     SentInv, CallInv, Invalid, Boundary, desktopVars, controllerVars
<1>25. ASSUME CallFails PROVE ConflictMeansUntouched'
  BY <1>0, <1>25 DEF CallFails, Finish, ConflictMeansUntouched, Untouched, SentInv, CallInv,
     Invalid, Boundary, desktopVars, controllerVars
<1>26. ASSUME LastValidate PROVE ConflictMeansUntouched'
  BY <1>0, <1>26 DEF LastValidate, Finish, KeepPlan, KeepEffects, ConflictMeansUntouched,
     Untouched, SentInv, CallInv, Invalid, Boundary, desktopVars, controllerVars
<1>27. ASSUME UNCHANGED inputVars PROVE ConflictMeansUntouched'
  BY <1>0, <1>27 DEF ConflictMeansUntouched, Untouched, SentInv, inputVars, desktopVars,
     controllerVars, effectVars
<1> QED
  BY <1>1, <1>2, <1>3, <1>4, <1>5, <1>6, <1>7, <1>8, <1>9, <1>10, <1>11, <1>12, <1>13, <1>14,
     <1>15, <1>16, <1>17, <1>18, <1>19, <1>20, <1>21, <1>22, <1>23, <1>24, <1>25, <1>26, <1>27 DEF
     InputNext

LEMMA NextView == InputInv /\ [InputNext]_inputVars => ViewInv'
<1> SUFFICES ASSUME InputInv, [InputNext]_inputVars PROVE ViewInv'
  OBVIOUS
<1>0. /\ NumberTypes /\ FlagTypes /\ PlanTypes /\ SentInv /\ ViewInv /\ SoundInv
      /\ UndisturbedSucceeds /\ Span \in Nat /\ 2 <= Span
  BY InputTypes, DesktopAssumption DEF InputInv
<1>1. ASSUME SwitchWindow PROVE ViewInv'
  BY <1>0, <1>1 DEF SwitchWindow, Happens, ViewInv, desktopVars, controllerVars
<1>2. ASSUME LockOrUnlock PROVE ViewInv'
  BY <1>0, <1>2 DEF LockOrUnlock, Happens, ViewInv, desktopVars, controllerVars
<1>3. ASSUME MoveMouse PROVE ViewInv'
  BY <1>0, <1>3 DEF MoveMouse, Happens, ViewInv, desktopVars, controllerVars
<1>4. ASSUME StopInput PROVE ViewInv'
  BY <1>0, <1>4 DEF StopInput, Happens, ViewInv, desktopVars, controllerVars
<1>5. ASSUME Observe PROVE ViewInv'
  <2>1. CASE view' = NoView
    BY <1>0, <2>1 DEF NoView, ViewInv
  <2>2. ASSUME NEW m \in 0..1, view' = [token |-> foreground, left |-> m, width |-> Span - m]
        PROVE  ViewInv'
    BY <1>0, <2>2 DEF ViewInv
  <2> QED
    BY <2>1, <2>2, <1>5 DEF Observe
<1>6. ASSUME NEW r \in Requests, Begin(r) PROVE ViewInv'
  BY <1>0, <1>6 DEF Begin, Finish, ViewInv, desktopVars, controllerVars
<1>7. ASSUME FirstValidate PROVE ViewInv'
  BY <1>0, <1>7 DEF FirstValidate, Check, ProceedTo, Finish, KeepEffects, ViewInv, desktopVars,
     controllerVars
<1>8. ASSUME MapPoint PROVE ViewInv'
  BY <1>0, <1>8 DEF MapPoint, ProceedTo, Finish, KeepEffects, ViewInv, desktopVars, controllerVars
<1>9. ASSUME SecondValidate PROVE ViewInv'
  BY <1>0, <1>9 DEF SecondValidate, Check, ProceedTo, Finish, KeepPlan, KeepEffects, ViewInv,
     desktopVars, controllerVars
<1>10. ASSUME Send PROVE ViewInv'
  BY <1>0, <1>10 DEF Send, ProceedTo, Finish, KeepEffects, ViewInv, desktopVars, controllerVars
<1>11. ASSUME NoCursor PROVE ViewInv'
  BY <1>0, <1>11 DEF NoCursor, Finish, KeepPlan, ViewInv, desktopVars, controllerVars
<1>12. ASSUME CheckMove PROVE ViewInv'
  BY <1>0, <1>12 DEF CheckMove, Check, ProceedTo, Finish, KeepPlan, KeepEffects, ViewInv,
     desktopVars, controllerVars
<1>13. ASSUME InsertMove PROVE ViewInv'
  BY <1>0, <1>13 DEF InsertMove, ProceedTo, Finish, KeepPlan, ViewInv, desktopVars, controllerVars
<1>14. ASSUME Arrive PROVE ViewInv'
  BY <1>0, <1>14 DEF Arrive, ProceedTo, KeepPlan, ViewInv, desktopVars, controllerVars
<1>15. ASSUME CheckClick PROVE ViewInv'
  BY <1>0, <1>15 DEF CheckClick, ProceedTo, KeepPlan, KeepEffects, ViewInv, desktopVars,
     controllerVars
<1>16. ASSUME InsertClick PROVE ViewInv'
  BY <1>0, <1>16 DEF InsertClick, ProceedTo, KeepPlan, ViewInv, desktopVars, controllerVars
<1>17. ASSUME Settle PROVE ViewInv'
  BY <1>0, <1>17 DEF Settle, ProceedTo, KeepPlan, ViewInv, desktopVars, controllerVars
<1>18. ASSUME CheckRepair PROVE ViewInv'
  BY <1>0, <1>18 DEF CheckRepair, ProceedTo, Finish, KeepPlan, KeepEffects, ViewInv, desktopVars,
     controllerVars
<1>19. ASSUME InsertRepair PROVE ViewInv'
  BY <1>0, <1>19 DEF InsertRepair, ProceedTo, KeepPlan, ViewInv, desktopVars, controllerVars
<1>20. ASSUME VerifyRepair PROVE ViewInv'
  BY <1>0, <1>20 DEF VerifyRepair, Finish, KeepPlan, KeepEffects, ViewInv, desktopVars,
     controllerVars
<1>21. ASSUME CheckKeys PROVE ViewInv'
  BY <1>0, <1>21 DEF CheckKeys, Check, ProceedTo, Finish, KeepPlan, KeepEffects, ViewInv,
     desktopVars, controllerVars
<1>22. ASSUME InsertKeys PROVE ViewInv'
  BY <1>0, <1>22 DEF InsertKeys, ProceedTo, Finish, KeepPlan, ViewInv, desktopVars, controllerVars
<1>23. ASSUME CheckCall PROVE ViewInv'
  BY <1>0, <1>23 DEF CheckCall, Check, ProceedTo, Finish, KeepPlan, KeepEffects, ViewInv,
     desktopVars, controllerVars
<1>24. ASSUME CallAnswered PROVE ViewInv'
  BY <1>0, <1>24 DEF CallAnswered, ProceedTo, KeepPlan, ViewInv, desktopVars, controllerVars
<1>25. ASSUME CallFails PROVE ViewInv'
  BY <1>0, <1>25 DEF CallFails, Finish, ViewInv, desktopVars, controllerVars
<1>26. ASSUME LastValidate PROVE ViewInv'
  BY <1>0, <1>26 DEF LastValidate, Finish, KeepPlan, KeepEffects, ViewInv, desktopVars,
     controllerVars
<1>27. ASSUME UNCHANGED inputVars PROVE ViewInv'
  BY <1>0, <1>27 DEF ViewInv, inputVars, desktopVars, controllerVars, effectVars
<1> QED
  BY <1>1, <1>2, <1>3, <1>4, <1>5, <1>6, <1>7, <1>8, <1>9, <1>10, <1>11, <1>12, <1>13, <1>14,
     <1>15, <1>16, <1>17, <1>18, <1>19, <1>20, <1>21, <1>22, <1>23, <1>24, <1>25, <1>26, <1>27 DEF
     InputNext

LEMMA NextSound == InputInv /\ [InputNext]_inputVars => SoundInv'
<1> SUFFICES ASSUME InputInv, [InputNext]_inputVars PROVE SoundInv'
  OBVIOUS
<1>0. /\ NumberTypes /\ FlagTypes /\ PlanTypes /\ SentInv /\ ViewInv /\ SoundInv
      /\ UndisturbedSucceeds /\ Span \in Nat /\ 2 <= Span
  BY InputTypes, DesktopAssumption DEF InputInv
<1>k. /\ op.x \in 0..Span /\ (op.space = "observation" => op.token # NoToken)
      /\ op.token \in Windows \cup {NoToken} /\ op.times \in 1..2
  BY <1>0, RequestFacts DEF PlanTypes
<1>v. /\ view.left \in 0..1 /\ view.width \in 0..Span /\ view.left + view.width <= Span
      /\ view.token # NoToken => view # NoView
  BY <1>0 DEF PlanTypes, Views, NoView, ViewInv
<1>l. target \in Pixels => Landing(target) = target
  <2>1. Pixels \subseteq Nat /\ \A p \in Pixels : ~(p > Span - 1)
    BY <1>0 DEF Pixels
  <2> QED
    BY <2>1, LandsThere
<1>i. ASSUME ~interference, dpc # "idle"
      PROVE  Invalid(TRUE) = "ok" /\ Invalid(FALSE) = "ok" /\ Boundary = "ok"
  BY <1>0, <1>i DEF SoundInv, Invalid, Boundary
<1>e. \A n \in 0..2 * op.times : n # 2 * op.times => n < 2 * op.times
  BY <1>k
<1>f. \A n \in 0..KeyEvents : n # KeyEvents => n < KeyEvents
  BY <1>k DEF KeyEvents
<1>1. ASSUME SwitchWindow PROVE SoundInv'
  BY <1>0, <1>i, <1>l, <1>1 DEF SwitchWindow, Happens, SoundInv, desktopVars, controllerVars
<1>2. ASSUME LockOrUnlock PROVE SoundInv'
  BY <1>0, <1>i, <1>l, <1>2 DEF LockOrUnlock, Happens, SoundInv, desktopVars, controllerVars
<1>3. ASSUME MoveMouse PROVE SoundInv'
  BY <1>0, <1>i, <1>l, <1>3 DEF MoveMouse, Happens, SoundInv, desktopVars, controllerVars
<1>4. ASSUME StopInput PROVE SoundInv'
  BY <1>0, <1>i, <1>l, <1>4 DEF StopInput, Happens, SoundInv, desktopVars, controllerVars
<1>5. ASSUME Observe PROVE SoundInv'
  BY <1>0, <1>i, <1>l, <1>5 DEF Observe, SoundInv, desktopVars, controllerVars
<1>6. ASSUME NEW r \in Requests, Begin(r) PROVE SoundInv'
  <2>1. r.x \in 0..Span /\ (r.space = "observation" => r.token # NoToken)
    BY RequestFacts
  <2> QED
    BY <1>0, <1>6, <2>1 DEF Begin, Sound, Finish, SoundInv, desktopVars
<1>7. ASSUME FirstValidate PROVE SoundInv'
  BY <1>0, <1>i, <1>l, <1>7 DEF FirstValidate, Check, ProceedTo, Finish, KeepEffects, SoundInv,
     desktopVars, controllerVars
<1>8. ASSUME MapPoint PROVE SoundInv'
  <2>1. op.space = "observation" => view.left + op.x \in Pixels \/ op.x >= view.width
    BY <1>0, <1>k, <1>v DEF Pixels
  <2>2. op.x \in Pixels \/ ~(op.x < Span)
    BY <1>0, <1>k DEF Pixels
  <2> QED
    BY <1>0, <1>8, <2>1, <2>2 DEF MapPoint, SoundInv, ProceedTo, Finish, KeepEffects, desktopVars
<1>9. ASSUME SecondValidate PROVE SoundInv'
  BY <1>0, <1>i, <1>l, <1>9 DEF SecondValidate, Check, ProceedTo, Finish, KeepPlan, KeepEffects,
     SoundInv, desktopVars, controllerVars
<1>10. ASSUME Send PROVE SoundInv'
  BY <1>0, <1>i, <1>l, <1>10 DEF Send, ProceedTo, Finish, KeepEffects, SoundInv, desktopVars,
     controllerVars
<1>11. ASSUME NoCursor PROVE SoundInv'
  BY <1>0, <1>i, <1>l, <1>11 DEF NoCursor, Finish, KeepPlan, SoundInv, desktopVars, controllerVars
<1>12. ASSUME CheckMove PROVE SoundInv'
  BY <1>0, <1>i, <1>l, <1>12 DEF CheckMove, Check, ProceedTo, Finish, KeepPlan, KeepEffects,
     SoundInv, desktopVars, controllerVars
<1>13. ASSUME InsertMove PROVE SoundInv'
  BY <1>0, <1>i, <1>l, <1>13 DEF InsertMove, ProceedTo, Finish, KeepPlan, SoundInv, desktopVars,
     controllerVars
<1>14. ASSUME Arrive PROVE SoundInv'
  BY <1>0, <1>i, <1>l, <1>14 DEF Arrive, ProceedTo, KeepPlan, SoundInv, desktopVars,
     controllerVars
<1>15. ASSUME CheckClick PROVE SoundInv'
  BY <1>0, <1>i, <1>l, <1>15 DEF CheckClick, ProceedTo, KeepPlan, KeepEffects, SoundInv,
     desktopVars, controllerVars
<1>16. ASSUME InsertClick PROVE SoundInv'
  <2>1. /\ ~interference' => ~interference /\ dpc' = "settle"
        /\ dpc = "pressed" /\ UNCHANGED <<desktopVars, usable, first, op, target>>
    BY <1>16, <1>e DEF InsertClick, ProceedTo, KeepPlan
  <2> QED
    BY <1>0, <2>1 DEF SoundInv, desktopVars
<1>17. ASSUME Settle PROVE SoundInv'
  BY <1>0, <1>i, <1>l, <1>17 DEF Settle, ProceedTo, KeepPlan, SoundInv, desktopVars,
     controllerVars
<1>18. ASSUME CheckRepair PROVE SoundInv'
  BY <1>0, <1>i, <1>l, <1>18 DEF CheckRepair, ProceedTo, Finish, KeepPlan, KeepEffects, SoundInv,
     desktopVars, controllerVars
<1>19. ASSUME InsertRepair PROVE SoundInv'
  BY <1>0, <1>i, <1>l, <1>19 DEF InsertRepair, ProceedTo, KeepPlan, SoundInv, desktopVars,
     controllerVars
<1>20. ASSUME VerifyRepair PROVE SoundInv'
  BY <1>0, <1>i, <1>l, <1>20 DEF VerifyRepair, Finish, KeepPlan, KeepEffects, SoundInv,
     desktopVars, controllerVars
<1>21. ASSUME CheckKeys PROVE SoundInv'
  BY <1>0, <1>i, <1>l, <1>21 DEF CheckKeys, Check, ProceedTo, Finish, KeepPlan, KeepEffects,
     SoundInv, desktopVars, controllerVars
<1>22. ASSUME InsertKeys PROVE SoundInv'
  <2>1. /\ ~interference' => ~interference /\ dpc' = "sent"
        /\ dpc = "typing" /\ UNCHANGED <<desktopVars, usable, first, op, target>>
    BY <1>22, <1>f DEF InsertKeys, ProceedTo, KeepPlan
  <2> QED
    BY <1>0, <2>1 DEF SoundInv, desktopVars
<1>23. ASSUME CheckCall PROVE SoundInv'
  BY <1>0, <1>i, <1>l, <1>23 DEF CheckCall, Check, ProceedTo, Finish, KeepPlan, KeepEffects,
     SoundInv, desktopVars, controllerVars
<1>24. ASSUME CallAnswered PROVE SoundInv'
  BY <1>0, <1>i, <1>l, <1>24 DEF CallAnswered, ProceedTo, KeepPlan, SoundInv, desktopVars,
     controllerVars
<1>25. ASSUME CallFails PROVE SoundInv'
  BY <1>0, <1>i, <1>l, <1>25 DEF CallFails, Finish, SoundInv, desktopVars, controllerVars
<1>26. ASSUME LastValidate PROVE SoundInv'
  BY <1>0, <1>i, <1>l, <1>26 DEF LastValidate, Finish, KeepPlan, KeepEffects, SoundInv,
     desktopVars, controllerVars
<1>27. ASSUME UNCHANGED inputVars PROVE SoundInv'
  BY <1>0, <1>i, <1>l, <1>27 DEF SoundInv, inputVars, desktopVars, controllerVars, effectVars
<1> QED
  BY <1>1, <1>2, <1>3, <1>4, <1>5, <1>6, <1>7, <1>8, <1>9, <1>10, <1>11, <1>12, <1>13, <1>14,
     <1>15, <1>16, <1>17, <1>18, <1>19, <1>20, <1>21, <1>22, <1>23, <1>24, <1>25, <1>26, <1>27 DEF
     InputNext

LEMMA NextSucceeds == InputInv /\ [InputNext]_inputVars => UndisturbedSucceeds'
<1> SUFFICES ASSUME InputInv, [InputNext]_inputVars PROVE UndisturbedSucceeds'
  OBVIOUS
<1>0. /\ NumberTypes /\ FlagTypes /\ PlanTypes /\ SentInv /\ ViewInv /\ SoundInv
      /\ UndisturbedSucceeds /\ Span \in Nat /\ 2 <= Span
  BY InputTypes, DesktopAssumption DEF InputInv
<1>k. /\ op.x \in 0..Span /\ (op.space = "observation" => op.token # NoToken)
      /\ op.token \in Windows \cup {NoToken} /\ op.times \in 1..2
  BY <1>0, RequestFacts DEF PlanTypes
<1>v. /\ view.left \in 0..1 /\ view.width \in 0..Span /\ view.left + view.width <= Span
      /\ view.token # NoToken => view # NoView
  BY <1>0 DEF PlanTypes, Views, NoView, ViewInv
<1>l. target \in Pixels => Landing(target) = target
  <2>1. Pixels \subseteq Nat /\ \A p \in Pixels : ~(p > Span - 1)
    BY <1>0 DEF Pixels
  <2> QED
    BY <2>1, LandsThere
<1>i. ASSUME ~interference, dpc # "idle"
      PROVE  Invalid(TRUE) = "ok" /\ Invalid(FALSE) = "ok" /\ Boundary = "ok"
  BY <1>0, <1>i DEF SoundInv, Invalid, Boundary
<1>e. \A n \in 0..2 * op.times : n # 2 * op.times => n < 2 * op.times
  BY <1>k
<1>f. \A n \in 0..KeyEvents : n # KeyEvents => n < KeyEvents
  BY <1>k DEF KeyEvents
<1>1. ASSUME SwitchWindow PROVE UndisturbedSucceeds'
  BY <1>0, <1>f, <1>i, <1>1 DEF SwitchWindow, Happens, UndisturbedSucceeds, SoundInv, SentInv,
     desktopVars, controllerVars
<1>2. ASSUME LockOrUnlock PROVE UndisturbedSucceeds'
  BY <1>0, <1>f, <1>i, <1>2 DEF LockOrUnlock, Happens, UndisturbedSucceeds, SoundInv, SentInv,
     desktopVars, controllerVars
<1>3. ASSUME MoveMouse PROVE UndisturbedSucceeds'
  BY <1>0, <1>f, <1>i, <1>3 DEF MoveMouse, Happens, UndisturbedSucceeds, SoundInv, SentInv,
     desktopVars, controllerVars
<1>4. ASSUME StopInput PROVE UndisturbedSucceeds'
  BY <1>0, <1>f, <1>i, <1>4 DEF StopInput, Happens, UndisturbedSucceeds, SoundInv, SentInv,
     desktopVars, controllerVars
<1>5. ASSUME Observe PROVE UndisturbedSucceeds'
  BY <1>0, <1>f, <1>i, <1>5 DEF Observe, UndisturbedSucceeds, SoundInv, SentInv, desktopVars,
     controllerVars
<1>6. ASSUME NEW r \in Requests, Begin(r) PROVE UndisturbedSucceeds'
  BY <1>0, <1>f, <1>i, <1>6 DEF Begin, Finish, UndisturbedSucceeds, SoundInv, SentInv, Sound,
     desktopVars, controllerVars
<1>7. ASSUME FirstValidate PROVE UndisturbedSucceeds'
  BY <1>0, <1>f, <1>i, <1>7 DEF FirstValidate, Check, ProceedTo, Finish, KeepEffects,
     UndisturbedSucceeds, SoundInv, SentInv, desktopVars, controllerVars
<1>8. ASSUME MapPoint PROVE UndisturbedSucceeds'
  <2>1. ~interference /\ op.space = "observation" =>
          op.token = view.token /\ view # NoView /\ op.x < view.width
    BY <1>0, <1>k, <1>v, <1>8 DEF MapPoint, SoundInv
  <2>2. op.x < view.width => ~(op.x >= view.width)
    BY <1>k, <1>v
  <2> QED
    BY <1>0, <1>8, <2>1, <2>2 DEF MapPoint, UndisturbedSucceeds, ProceedTo, Finish, KeepEffects
<1>9. ASSUME SecondValidate PROVE UndisturbedSucceeds'
  BY <1>0, <1>f, <1>i, <1>9 DEF SecondValidate, Check, ProceedTo, Finish, KeepPlan, KeepEffects,
     UndisturbedSucceeds, SoundInv, SentInv, desktopVars, controllerVars
<1>10. ASSUME Send PROVE UndisturbedSucceeds'
  BY <1>0, <1>f, <1>i, <1>10 DEF Send, ProceedTo, Finish, KeepEffects, UndisturbedSucceeds,
     SoundInv, SentInv, desktopVars, controllerVars
<1>11. ASSUME NoCursor PROVE UndisturbedSucceeds'
  BY <1>0, <1>f, <1>i, <1>11 DEF NoCursor, Finish, KeepPlan, UndisturbedSucceeds, SoundInv,
     SentInv, desktopVars, controllerVars
<1>12. ASSUME CheckMove PROVE UndisturbedSucceeds'
  BY <1>0, <1>f, <1>i, <1>12 DEF CheckMove, Check, ProceedTo, Finish, KeepPlan, KeepEffects,
     UndisturbedSucceeds, SoundInv, SentInv, desktopVars, controllerVars
<1>13. ASSUME InsertMove PROVE UndisturbedSucceeds'
  BY <1>0, <1>f, <1>i, <1>13 DEF InsertMove, ProceedTo, Finish, KeepPlan, UndisturbedSucceeds,
     SoundInv, SentInv, desktopVars, controllerVars
<1>14. ASSUME Arrive PROVE UndisturbedSucceeds'
  BY <1>0, <1>f, <1>i, <1>14 DEF Arrive, ProceedTo, KeepPlan, UndisturbedSucceeds, SoundInv,
     SentInv, desktopVars, controllerVars
<1>15. ASSUME CheckClick PROVE UndisturbedSucceeds'
  BY <1>0, <1>f, <1>i, <1>15 DEF CheckClick, ProceedTo, KeepPlan, KeepEffects,
     UndisturbedSucceeds, SoundInv, SentInv, desktopVars, controllerVars
<1>16. ASSUME InsertClick PROVE UndisturbedSucceeds'
  BY <1>0, <1>f, <1>i, <1>16 DEF InsertClick, ProceedTo, KeepPlan, UndisturbedSucceeds, SoundInv,
     SentInv, desktopVars, controllerVars
<1>17. ASSUME Settle PROVE UndisturbedSucceeds'
  BY <1>0, <1>f, <1>i, <1>17 DEF Settle, ProceedTo, KeepPlan, UndisturbedSucceeds, SoundInv,
     SentInv, desktopVars, controllerVars
<1>18. ASSUME CheckRepair PROVE UndisturbedSucceeds'
  BY <1>0, <1>f, <1>i, <1>18 DEF CheckRepair, ProceedTo, Finish, KeepPlan, KeepEffects,
     UndisturbedSucceeds, SoundInv, SentInv, desktopVars, controllerVars
<1>19. ASSUME InsertRepair PROVE UndisturbedSucceeds'
  BY <1>0, <1>f, <1>i, <1>19 DEF InsertRepair, ProceedTo, KeepPlan, UndisturbedSucceeds, SoundInv,
     SentInv, desktopVars, controllerVars
<1>20. ASSUME VerifyRepair PROVE UndisturbedSucceeds'
  BY <1>0, <1>f, <1>i, <1>20 DEF VerifyRepair, Finish, KeepPlan, KeepEffects, UndisturbedSucceeds,
     SoundInv, SentInv, desktopVars, controllerVars
<1>21. ASSUME CheckKeys PROVE UndisturbedSucceeds'
  BY <1>0, <1>f, <1>i, <1>21 DEF CheckKeys, Check, ProceedTo, Finish, KeepPlan, KeepEffects,
     UndisturbedSucceeds, SoundInv, SentInv, desktopVars, controllerVars
<1>22. ASSUME InsertKeys PROVE UndisturbedSucceeds'
  BY <1>0, <1>f, <1>i, <1>22 DEF InsertKeys, ProceedTo, Finish, KeepPlan, UndisturbedSucceeds,
     SoundInv, SentInv, desktopVars, controllerVars
<1>23. ASSUME CheckCall PROVE UndisturbedSucceeds'
  BY <1>0, <1>f, <1>i, <1>23 DEF CheckCall, Check, ProceedTo, Finish, KeepPlan, KeepEffects,
     UndisturbedSucceeds, SoundInv, SentInv, desktopVars, controllerVars
<1>24. ASSUME CallAnswered PROVE UndisturbedSucceeds'
  BY <1>0, <1>f, <1>i, <1>24 DEF CallAnswered, ProceedTo, KeepPlan, UndisturbedSucceeds, SoundInv,
     SentInv, desktopVars, controllerVars
<1>25. ASSUME CallFails PROVE UndisturbedSucceeds'
  BY <1>0, <1>f, <1>i, <1>25 DEF CallFails, Finish, UndisturbedSucceeds, SoundInv, SentInv,
     desktopVars, controllerVars
<1>26. ASSUME LastValidate PROVE UndisturbedSucceeds'
  BY <1>0, <1>f, <1>i, <1>26 DEF LastValidate, Finish, KeepPlan, KeepEffects, UndisturbedSucceeds,
     SoundInv, SentInv, desktopVars, controllerVars
<1>27. ASSUME UNCHANGED inputVars PROVE UndisturbedSucceeds'
  BY <1>0, <1>f, <1>i, <1>27 DEF UndisturbedSucceeds, SoundInv, SentInv, inputVars, desktopVars,
     controllerVars, effectVars
<1> QED
  BY <1>1, <1>2, <1>3, <1>4, <1>5, <1>6, <1>7, <1>8, <1>9, <1>10, <1>11, <1>12, <1>13, <1>14,
     <1>15, <1>16, <1>17, <1>18, <1>19, <1>20, <1>21, <1>22, <1>23, <1>24, <1>25, <1>26, <1>27 DEF
     InputNext

LEMMA InputInvariant == Spec => []InputInv
<1>1. Init => InputInv
  BY InitInput DEF Init
<1>t. (DesktopTypeOK <=> NumberTypes /\ FlagTypes /\ PlanTypes)'
  BY InputTypes, PTL
<1>2. InputInv /\ [Next]_vars => InputInv'
  <2> SUFFICES ASSUME InputInv, [InputNext]_inputVars PROVE InputInv'
    BY AdapterSteps
  <2>1. DesktopTypeOK'
    BY NextNumbers, NextFlags, NextPlans, <1>t
  <2> QED
    BY <2>1, NextCalls, NextHeld, NextSent, NextConflict, NextView, NextSound, NextSucceeds
       DEF InputInv
<1> QED
  BY <1>1, <1>2, PTL DEF Spec

(* The answer does not hide what reached the desktop: a button or a key    *)
(* that may be down has been reported, and after a conflict nothing was    *)
(* sent (_repair_failed_click, _failure, DesktopInputController.mutate).   *)
THEOREM InputIsReported == Spec => []InputReported
<1>1. InputInv => InputReported
  <2> SUFFICES ASSUME InputInv PROVE InputReported
    OBVIOUS
  <2>1. HeldInv /\ ConflictMeansUntouched /\ held \subseteq {"button", "keys"}
    BY DEF InputInv, DesktopTypeOK
  <2> QED
    BY <2>1 DEF HeldInv, InputReported, HeldMeansUncertain
<1> QED
  BY <1>1, InputInvariant, PTL

(* A sound request that nothing interferes with succeeds, on a screen of   *)
(* any width that SendInput can address (_absolute_coordinate, _validate). *)
THEOREM UndisturbedMutations == Spec => []UndisturbedSucceeds
<1>1. InputInv => UndisturbedSucceeds
  BY DEF InputInv
<1> QED
  BY <1>1, InputInvariant, PTL
-----------------------------------------------------------------------------
LoopTypes ==
    /\ bpc \in [BrowserCalls -> {"new", "sweeping", "submitted", "active", "done"}]
    /\ task \in [BrowserCalls -> {"none", "queued", "starting", "launching",
                   "onPage", "collecting", "closing", "stopping", "over"}]
    /\ mine \in [BrowserCalls -> BrowserCalls \cup {NoCall}]
    /\ struck \subseteq BrowserCalls /\ alive \subseteq BrowserCalls
    /\ {lock, active, context} \subseteq BrowserCalls \cup {NoCall}

(* The lock belongs to the thread that has submitted, and to its task as   *)
(* long as that is not cancelled.                                          *)
LockInv ==
    \A c \in BrowserCalls :
        /\ OnLoop(c) /\ c \notin struck => lock = c
        /\ bpc[c] \in {"submitted", "active"} => lock = c
        /\ bpc[c] \in {"new", "sweeping"} => task[c] = "none"

ErrandInv ==
    \A c \in BrowserCalls :
        /\ task[c] \in {"starting", "launching"} => errand[c] = "open"
        /\ task[c] \in {"closing", "stopping"} => errand[c] = "close"

Smooth == ~brokenOff /\ \A c \in struck : errand[c] # "close"

(* While nothing is broken off, a task that opens or closes has the fields *)
(* of the context for itself.                                              *)
FieldInv ==
    Smooth => \A c \in BrowserCalls \ struck :
        /\ task[c] \in {"starting", "launching"} => context = NoCall /\ guard
        /\ task[c] \in {"closing", "stopping"} => context = NoCall

BrowserInv == LoopTypes /\ LockInv /\ ErrandInv /\ FieldInv /\ GuardedBrowser /\ CancelsOwn

LEMMA OneOnLoop == LockInv => Serialized
<1> SUFFICES ASSUME LockInv, NEW c \in BrowserCalls, NEW d \in BrowserCalls, c # d,
                    OnLoop(c), OnLoop(d)
             PROVE  {c, d} \cap struck # {}
  BY DEF Serialized
<1> QED
  BY DEF LockInv

LEMMA InitBrowser == BrowserInit => BrowserInv
  BY BrowserAssumption DEF BrowserInit, BrowserInv, LoopTypes, LockInv, OnLoop, ErrandInv,
     FieldInv, GuardedBrowser, CancelsOwn

LEMMA NextLoopTypes == BrowserInv /\ [BrowserNext]_browserVars => LoopTypes'
<1> SUFFICES ASSUME BrowserInv, [BrowserNext]_browserVars PROVE LoopTypes'
  OBVIOUS
<1>0. LoopTypes /\ LockInv /\ ErrandInv /\ FieldInv /\ GuardedBrowser /\ CancelsOwn
  BY DEF BrowserInv
<1>a. NoCall \notin BrowserCalls
  BY BrowserAssumption
<1>1. ASSUME NEW c \in BrowserCalls, CancelCall(c) PROVE LoopTypes'
  BY <1>0, <1>1 DEF CancelCall, Strike, LoopTypes, threadVars, contextVars
<1>2. ASSUME NEW c \in BrowserCalls, Sweep(c) PROVE LoopTypes'
  BY <1>0, <1>2 DEF Sweep, Strike, LoopTypes, threadVars, contextVars
<1>3. ASSUME NEW c \in BrowserCalls, Submit(c) PROVE LoopTypes'
  BY <1>0, <1>3 DEF Submit, InLine, LoopTypes, threadVars, contextVars
<1>4. ASSUME NEW c \in BrowserCalls, Activate(c) PROVE LoopTypes'
  BY <1>0, <1>4 DEF Activate, LoopTypes, threadVars, contextVars
<1>5. ASSUME NEW c \in BrowserCalls, Return(c) PROVE LoopTypes'
  BY <1>0, <1>5 DEF Return, LoopTypes, threadVars, contextVars
<1>6. ASSUME NEW c \in BrowserCalls, OpenBegin(c) PROVE LoopTypes'
  BY <1>0, <1>6 DEF OpenBegin, Advance, LoopTypes, threadVars, contextVars
<1>7. ASSUME NEW c \in BrowserCalls, PlaywrightStarts(c) PROVE LoopTypes'
  BY <1>0, <1>7 DEF PlaywrightStarts, Advance, LoopTypes, threadVars, contextVars
<1>8. ASSUME NEW c \in BrowserCalls, ContextLaunches(c) PROVE LoopTypes'
  BY <1>0, <1>8 DEF ContextLaunches, Advance, LoopTypes, threadVars, contextVars
<1>9. ASSUME NEW c \in BrowserCalls, Navigate(c) PROVE LoopTypes'
  BY <1>0, <1>9 DEF Navigate, Advance, LoopTypes, threadVars, contextVars
<1>10. ASSUME NEW c \in BrowserCalls, UsePage(c) PROVE LoopTypes'
  BY <1>0, <1>10 DEF UsePage, Advance, LoopTypes, threadVars, contextVars
<1>11. ASSUME NEW c \in BrowserCalls, CollectSecrets(c) PROVE LoopTypes'
  BY <1>0, <1>11 DEF CollectSecrets, Advance, LoopTypes, threadVars, contextVars
<1>12. ASSUME NEW c \in BrowserCalls, TakeContext(c) PROVE LoopTypes'
  BY <1>0, <1>12 DEF TakeContext, Advance, LoopTypes, threadVars, contextVars
<1>13. ASSUME NEW c \in BrowserCalls, ContextCloses(c) PROVE LoopTypes'
  BY <1>0, <1>13 DEF ContextCloses, Advance, LoopTypes, threadVars, contextVars
<1>14. ASSUME NEW c \in BrowserCalls, PlaywrightStops(c) PROVE LoopTypes'
  BY <1>0, <1>14 DEF PlaywrightStops, Advance, LoopTypes, threadVars, contextVars
<1>15. ASSUME Rotate PROVE LoopTypes'
  BY <1>0, <1>15 DEF Rotate, LoopTypes, threadVars, contextVars
<1>16. ASSUME UNCHANGED browserVars PROVE LoopTypes'
  BY <1>0, <1>16 DEF browserVars, LoopTypes, threadVars, contextVars
<1> QED
  BY <1>1, <1>2, <1>3, <1>4, <1>5, <1>6, <1>7, <1>8, <1>9, <1>10, <1>11, <1>12, <1>13, <1>14,
     <1>15, <1>16 DEF BrowserNext, TaskStep

LEMMA NextLock == BrowserInv /\ [BrowserNext]_browserVars => LockInv'
<1> SUFFICES ASSUME BrowserInv, [BrowserNext]_browserVars PROVE LockInv'
  OBVIOUS
<1>0. LoopTypes /\ LockInv /\ ErrandInv /\ FieldInv /\ GuardedBrowser /\ CancelsOwn
  BY DEF BrowserInv
<1>a. NoCall \notin BrowserCalls
  BY BrowserAssumption
<1>1. ASSUME NEW c \in BrowserCalls, CancelCall(c) PROVE LockInv'
  BY <1>0, <1>a, <1>1 DEF CancelCall, Strike, LoopTypes, LockInv, OnLoop, threadVars, contextVars
<1>2. ASSUME NEW c \in BrowserCalls, Sweep(c) PROVE LockInv'
  BY <1>0, <1>a, <1>2 DEF Sweep, Strike, LoopTypes, LockInv, OnLoop, threadVars, contextVars
<1>3. ASSUME NEW c \in BrowserCalls, Submit(c) PROVE LockInv'
  BY <1>0, <1>a, <1>3 DEF Submit, InLine, LoopTypes, LockInv, OnLoop, threadVars, contextVars
<1>4. ASSUME NEW c \in BrowserCalls, Activate(c) PROVE LockInv'
  BY <1>0, <1>a, <1>4 DEF Activate, LoopTypes, LockInv, OnLoop, threadVars, contextVars
<1>5. ASSUME NEW c \in BrowserCalls, Return(c) PROVE LockInv'
  BY <1>0, <1>a, <1>5 DEF Return, LoopTypes, LockInv, OnLoop, threadVars, contextVars
<1>6. ASSUME NEW c \in BrowserCalls, OpenBegin(c) PROVE LockInv'
  BY <1>0, <1>a, <1>6 DEF OpenBegin, Advance, LoopTypes, LockInv, OnLoop, threadVars, contextVars
<1>7. ASSUME NEW c \in BrowserCalls, PlaywrightStarts(c) PROVE LockInv'
  BY <1>0, <1>a, <1>7 DEF PlaywrightStarts, Advance, LoopTypes, LockInv, OnLoop, threadVars,
     contextVars
<1>8. ASSUME NEW c \in BrowserCalls, ContextLaunches(c) PROVE LockInv'
  BY <1>0, <1>a, <1>8 DEF ContextLaunches, Advance, LoopTypes, LockInv, OnLoop, threadVars,
     contextVars
<1>9. ASSUME NEW c \in BrowserCalls, Navigate(c) PROVE LockInv'
  BY <1>0, <1>a, <1>9 DEF Navigate, Advance, LoopTypes, LockInv, OnLoop, threadVars, contextVars
<1>10. ASSUME NEW c \in BrowserCalls, UsePage(c) PROVE LockInv'
  BY <1>0, <1>a, <1>10 DEF UsePage, Advance, LoopTypes, LockInv, OnLoop, threadVars, contextVars
<1>11. ASSUME NEW c \in BrowserCalls, CollectSecrets(c) PROVE LockInv'
  BY <1>0, <1>a, <1>11 DEF CollectSecrets, Advance, LoopTypes, LockInv, OnLoop, threadVars,
     contextVars
<1>12. ASSUME NEW c \in BrowserCalls, TakeContext(c) PROVE LockInv'
  BY <1>0, <1>a, <1>12 DEF TakeContext, Advance, LoopTypes, LockInv, OnLoop, threadVars,
     contextVars
<1>13. ASSUME NEW c \in BrowserCalls, ContextCloses(c) PROVE LockInv'
  BY <1>0, <1>a, <1>13 DEF ContextCloses, Advance, LoopTypes, LockInv, OnLoop, threadVars,
     contextVars
<1>14. ASSUME NEW c \in BrowserCalls, PlaywrightStops(c) PROVE LockInv'
  BY <1>0, <1>a, <1>14 DEF PlaywrightStops, Advance, LoopTypes, LockInv, OnLoop, threadVars,
     contextVars
<1>15. ASSUME Rotate PROVE LockInv'
  BY <1>0, <1>a, <1>15 DEF Rotate, LoopTypes, LockInv, OnLoop, threadVars, contextVars
<1>16. ASSUME UNCHANGED browserVars PROVE LockInv'
  BY <1>0, <1>a, <1>16 DEF browserVars, LoopTypes, LockInv, OnLoop, threadVars, contextVars
<1> QED
  BY <1>1, <1>2, <1>3, <1>4, <1>5, <1>6, <1>7, <1>8, <1>9, <1>10, <1>11, <1>12, <1>13, <1>14,
     <1>15, <1>16 DEF BrowserNext, TaskStep

LEMMA NextErrand == BrowserInv /\ [BrowserNext]_browserVars => ErrandInv'
<1> SUFFICES ASSUME BrowserInv, [BrowserNext]_browserVars PROVE ErrandInv'
  OBVIOUS
<1>0. LoopTypes /\ LockInv /\ ErrandInv /\ FieldInv /\ GuardedBrowser /\ CancelsOwn
  BY DEF BrowserInv
<1>a. NoCall \notin BrowserCalls
  BY BrowserAssumption
<1>1. ASSUME NEW c \in BrowserCalls, CancelCall(c) PROVE ErrandInv'
  BY <1>0, <1>1 DEF CancelCall, Strike, LoopTypes, ErrandInv, threadVars, contextVars
<1>2. ASSUME NEW c \in BrowserCalls, Sweep(c) PROVE ErrandInv'
  BY <1>0, <1>2 DEF Sweep, Strike, LoopTypes, ErrandInv, threadVars, contextVars
<1>3. ASSUME NEW c \in BrowserCalls, Submit(c) PROVE ErrandInv'
  BY <1>0, <1>3 DEF Submit, InLine, LoopTypes, ErrandInv, LockInv, threadVars, contextVars
<1>4. ASSUME NEW c \in BrowserCalls, Activate(c) PROVE ErrandInv'
  BY <1>0, <1>4 DEF Activate, LoopTypes, ErrandInv, threadVars, contextVars
<1>5. ASSUME NEW c \in BrowserCalls, Return(c) PROVE ErrandInv'
  BY <1>0, <1>5 DEF Return, LoopTypes, ErrandInv, threadVars, contextVars
<1>6. ASSUME NEW c \in BrowserCalls, OpenBegin(c) PROVE ErrandInv'
  BY <1>0, <1>6 DEF OpenBegin, Advance, LoopTypes, ErrandInv, threadVars, contextVars
<1>7. ASSUME NEW c \in BrowserCalls, PlaywrightStarts(c) PROVE ErrandInv'
  BY <1>0, <1>7 DEF PlaywrightStarts, Advance, LoopTypes, ErrandInv, threadVars, contextVars
<1>8. ASSUME NEW c \in BrowserCalls, ContextLaunches(c) PROVE ErrandInv'
  BY <1>0, <1>8 DEF ContextLaunches, Advance, LoopTypes, ErrandInv, threadVars, contextVars
<1>9. ASSUME NEW c \in BrowserCalls, Navigate(c) PROVE ErrandInv'
  BY <1>0, <1>9 DEF Navigate, Advance, LoopTypes, ErrandInv, threadVars, contextVars
<1>10. ASSUME NEW c \in BrowserCalls, UsePage(c) PROVE ErrandInv'
  BY <1>0, <1>10 DEF UsePage, Advance, LoopTypes, ErrandInv, threadVars, contextVars
<1>11. ASSUME NEW c \in BrowserCalls, CollectSecrets(c) PROVE ErrandInv'
  BY <1>0, <1>11 DEF CollectSecrets, Advance, LoopTypes, ErrandInv, threadVars, contextVars
<1>12. ASSUME NEW c \in BrowserCalls, TakeContext(c) PROVE ErrandInv'
  BY <1>0, <1>12 DEF TakeContext, Advance, LoopTypes, ErrandInv, threadVars, contextVars
<1>13. ASSUME NEW c \in BrowserCalls, ContextCloses(c) PROVE ErrandInv'
  BY <1>0, <1>13 DEF ContextCloses, Advance, LoopTypes, ErrandInv, threadVars, contextVars
<1>14. ASSUME NEW c \in BrowserCalls, PlaywrightStops(c) PROVE ErrandInv'
  BY <1>0, <1>14 DEF PlaywrightStops, Advance, LoopTypes, ErrandInv, threadVars, contextVars
<1>15. ASSUME Rotate PROVE ErrandInv'
  BY <1>0, <1>15 DEF Rotate, LoopTypes, ErrandInv, threadVars, contextVars
<1>16. ASSUME UNCHANGED browserVars PROVE ErrandInv'
  BY <1>0, <1>16 DEF browserVars, LoopTypes, ErrandInv, threadVars, contextVars
<1> QED
  BY <1>1, <1>2, <1>3, <1>4, <1>5, <1>6, <1>7, <1>8, <1>9, <1>10, <1>11, <1>12, <1>13, <1>14,
     <1>15, <1>16 DEF BrowserNext, TaskStep

LEMMA NextCancelsOwn == BrowserInv /\ [BrowserNext]_browserVars => CancelsOwn'
<1> SUFFICES ASSUME BrowserInv, [BrowserNext]_browserVars PROVE CancelsOwn'
  OBVIOUS
<1>0. LoopTypes /\ LockInv /\ ErrandInv /\ FieldInv /\ GuardedBrowser /\ CancelsOwn
  BY DEF BrowserInv
<1>a. NoCall \notin BrowserCalls
  BY BrowserAssumption
<1>1. ASSUME NEW c \in BrowserCalls, CancelCall(c) PROVE CancelsOwn'
  BY <1>0, <1>1 DEF CancelCall, Strike, CancelsOwn, threadVars, contextVars
<1>2. ASSUME NEW c \in BrowserCalls, Sweep(c) PROVE CancelsOwn'
  BY <1>0, <1>2 DEF Sweep, Strike, CancelsOwn, threadVars, contextVars
<1>3. ASSUME NEW c \in BrowserCalls, Submit(c) PROVE CancelsOwn'
  BY <1>0, <1>3 DEF Submit, InLine, CancelsOwn, threadVars, contextVars
<1>4. ASSUME NEW c \in BrowserCalls, Activate(c) PROVE CancelsOwn'
  BY <1>0, <1>4 DEF Activate, CancelsOwn, threadVars, contextVars
<1>5. ASSUME NEW c \in BrowserCalls, Return(c) PROVE CancelsOwn'
  BY <1>0, <1>5 DEF Return, CancelsOwn, threadVars, contextVars
<1>6. ASSUME NEW c \in BrowserCalls, OpenBegin(c) PROVE CancelsOwn'
  BY <1>0, <1>6 DEF OpenBegin, Advance, CancelsOwn, threadVars, contextVars
<1>7. ASSUME NEW c \in BrowserCalls, PlaywrightStarts(c) PROVE CancelsOwn'
  BY <1>0, <1>7 DEF PlaywrightStarts, Advance, CancelsOwn, threadVars, contextVars
<1>8. ASSUME NEW c \in BrowserCalls, ContextLaunches(c) PROVE CancelsOwn'
  BY <1>0, <1>8 DEF ContextLaunches, Advance, CancelsOwn, threadVars, contextVars
<1>9. ASSUME NEW c \in BrowserCalls, Navigate(c) PROVE CancelsOwn'
  BY <1>0, <1>9 DEF Navigate, Advance, CancelsOwn, threadVars, contextVars
<1>10. ASSUME NEW c \in BrowserCalls, UsePage(c) PROVE CancelsOwn'
  BY <1>0, <1>10 DEF UsePage, Advance, CancelsOwn, threadVars, contextVars
<1>11. ASSUME NEW c \in BrowserCalls, CollectSecrets(c) PROVE CancelsOwn'
  BY <1>0, <1>11 DEF CollectSecrets, Advance, CancelsOwn, threadVars, contextVars
<1>12. ASSUME NEW c \in BrowserCalls, TakeContext(c) PROVE CancelsOwn'
  BY <1>0, <1>12 DEF TakeContext, Advance, CancelsOwn, threadVars, contextVars
<1>13. ASSUME NEW c \in BrowserCalls, ContextCloses(c) PROVE CancelsOwn'
  BY <1>0, <1>13 DEF ContextCloses, Advance, CancelsOwn, threadVars, contextVars
<1>14. ASSUME NEW c \in BrowserCalls, PlaywrightStops(c) PROVE CancelsOwn'
  BY <1>0, <1>14 DEF PlaywrightStops, Advance, CancelsOwn, threadVars, contextVars
<1>15. ASSUME Rotate PROVE CancelsOwn'
  BY <1>0, <1>15 DEF Rotate, CancelsOwn, threadVars, contextVars
<1>16. ASSUME UNCHANGED browserVars PROVE CancelsOwn'
  BY <1>0, <1>16 DEF browserVars, CancelsOwn, threadVars, contextVars
<1> QED
  BY <1>1, <1>2, <1>3, <1>4, <1>5, <1>6, <1>7, <1>8, <1>9, <1>10, <1>11, <1>12, <1>13, <1>14,
     <1>15, <1>16 DEF BrowserNext, TaskStep

(* Trouble is never forgotten.                                             *)
LEMMA SmoothBefore == [BrowserNext]_browserVars => (Smooth' => Smooth)
<1> SUFFICES ASSUME [BrowserNext]_browserVars PROVE Smooth' => Smooth
  OBVIOUS
<1>1. ASSUME NEW c \in BrowserCalls, CancelCall(c) \/ Sweep(c) PROVE Smooth' => Smooth
  BY <1>1 DEF CancelCall, Sweep, Strike, Smooth
<1>2. ASSUME NEW c \in BrowserCalls, Submit(c) \/ Activate(c) \/ Return(c) PROVE Smooth' => Smooth
  BY <1>2 DEF Submit, Activate, Return, Smooth
<1>3. ASSUME NEW c \in BrowserCalls, TaskStep(c) PROVE Smooth' => Smooth
  BY <1>3 DEF TaskStep, OpenBegin, PlaywrightStarts, ContextLaunches, Navigate, UsePage,
     CollectSecrets, TakeContext, ContextCloses, PlaywrightStops, Advance, Smooth
<1>4. ASSUME Rotate \/ UNCHANGED browserVars PROVE Smooth' => Smooth
  BY <1>4 DEF Rotate, browserVars, Smooth
<1> QED
  BY <1>1, <1>2, <1>3, <1>4 DEF BrowserNext

(* A task on its way has the loop for itself, apart from cancelled ones,   *)
(* and no close is cancelled while all is smooth.                          *)
LEMMA AloneOnLoop ==
  ASSUME BrowserInv, Smooth, NEW c \in BrowserCalls, OnLoop(c), c \notin struck
  PROVE  /\ \A d \in BrowserCalls \ {c} : OnLoop(d) => d \in struck
         /\ \A d \in BrowserCalls \ {c} : task[d] \notin {"closing", "stopping"}
<1>1. Serialized /\ ErrandInv
  BY OneOnLoop DEF BrowserInv
<1>2. \A d \in BrowserCalls \ {c} : OnLoop(d) => d \in struck
  BY <1>1 DEF Serialized
<1>3. ASSUME NEW d \in BrowserCalls \ {c}, task[d] \in {"closing", "stopping"} PROVE FALSE
  BY <1>1, <1>2, <1>3 DEF ErrandInv, OnLoop, Smooth
<1> QED
  BY <1>2, <1>3

(* Where the fields and the browser stay as they are and no task comes to  *)
(* open or leaves its close, nothing changes.                              *)
LEMMA FieldsKept ==
  ASSUME BrowserInv, Smooth' => Smooth, struck \subseteq struck',
         UNCHANGED <<guard, context, mine, alive>>,
         \A d \in BrowserCalls :
           /\ task'[d] = task[d] \/ {task[d], task'[d]} \cap {"closing", "stopping"} = {}
           /\ task'[d] \in {"starting", "launching"} => task[d] \in {"starting", "launching"}
  PROVE  FieldInv' /\ GuardedBrowser'
<1>0. FieldInv /\ GuardedBrowser
  BY DEF BrowserInv
<1>1. FieldInv'
  BY <1>0 DEF FieldInv
<1>2. Smooth' => \A b \in alive :
        /\ guard
        /\ \/ context = b
           \/ \E d \in BrowserCalls : task'[d] \in {"closing", "stopping"} /\ mine[d] = b
  BY <1>0 DEF GuardedBrowser, Smooth
<1>3. GuardedBrowser'
  BY <1>2 DEF GuardedBrowser, Smooth
<1> QED
  BY <1>1, <1>3

LEMMA NextFields ==
  BrowserInv /\ [BrowserNext]_browserVars => FieldInv' /\ GuardedBrowser'
<1> SUFFICES ASSUME BrowserInv, [BrowserNext]_browserVars PROVE FieldInv' /\ GuardedBrowser'
  OBVIOUS
<1>0. /\ LoopTypes /\ LockInv /\ ErrandInv /\ FieldInv /\ GuardedBrowser
      /\ Smooth' => Smooth
  BY SmoothBefore DEF BrowserInv
<1>a. NoCall \notin BrowserCalls
  BY BrowserAssumption
<1>g. Smooth => \A b \in alive :
        /\ guard
        /\ \/ context = b
           \/ \E d \in BrowserCalls : task[d] \in {"closing", "stopping"} /\ mine[d] = b
  BY <1>0 DEF GuardedBrowser, Smooth
<1>h. ASSUME Smooth' => \A b \in alive' :
        /\ guard'
        /\ \/ context' = b
           \/ \E d \in BrowserCalls : task'[d] \in {"closing", "stopping"} /\ mine'[d] = b
      PROVE  GuardedBrowser'
  BY <1>h DEF GuardedBrowser, Smooth
<1>i. ASSUME ~Smooth' PROVE FieldInv' /\ GuardedBrowser'
  BY <1>i DEF FieldInv, GuardedBrowser, Smooth
<1>j. ASSUME NEW c \in BrowserCalls, Smooth, OnLoop(c), c \notin struck,
             UNCHANGED struck, \A d \in BrowserCalls \ {c} : task'[d] = task[d],
             task'[c] \notin {"starting", "launching", "closing", "stopping"}
      PROVE  FieldInv'
  <2>1. \A d \in BrowserCalls \ {c} : OnLoop(d) => d \in struck
    BY <1>j, AloneOnLoop
  <2> QED
    BY <1>j, <2>1 DEF FieldInv, OnLoop
<1>1. ASSUME NEW c \in BrowserCalls,
             \/ CancelCall(c) \/ Sweep(c) \/ Activate(c) \/ Return(c) \/ Submit(c)
             \/ Navigate(c) \/ UsePage(c) \/ CollectSecrets(c)
      PROVE  FieldInv' /\ GuardedBrowser'
  <2>1. UNCHANGED <<guard, context, mine, alive>> /\ struck \subseteq struck'
    BY <1>1 DEF CancelCall, Sweep, Strike, Activate, Return, Submit, Navigate, UsePage,
       CollectSecrets, Advance, contextVars
  <2>2. \A d \in BrowserCalls :
          /\ task'[d] = task[d] \/ {task[d], task'[d]} \cap {"closing", "stopping"} = {}
          /\ task'[d] \in {"starting", "launching"} => task[d] \in {"starting", "launching"}
    <3>1. CASE CancelCall(c) \/ Sweep(c) \/ Activate(c) \/ Return(c)
      BY <3>1 DEF CancelCall, Sweep, Activate, Return
    <3>2. CASE Submit(c)
      <4>1. task[c] = "none" /\ task'[c] = "queued" /\ \A d \in BrowserCalls \ {c} : task'[d] = task[d]
        BY <1>0, <3>2 DEF Submit, InLine, LockInv, LoopTypes
      <4> QED
        BY <4>1
    <3>3. CASE Navigate(c) \/ UsePage(c) \/ CollectSecrets(c)
      <4>1. /\ task[c] \in {"queued", "onPage", "collecting"} /\ task'[c] \in {"onPage", "collecting", "over"}
            /\ \A d \in BrowserCalls \ {c} : task'[d] = task[d]
        BY <1>0, <3>3 DEF Navigate, UsePage, CollectSecrets, Advance, LoopTypes
      <4> QED
        BY <4>1
    <3> QED
      BY <1>1, <3>1, <3>2, <3>3
  <2> QED
    BY <1>0, <2>1, <2>2, FieldsKept
<1>2. ASSUME NEW c \in BrowserCalls, OpenBegin(c) PROVE FieldInv' /\ GuardedBrowser'
  <2>1. /\ task[c] = "queued" /\ UNCHANGED <<context, mine, alive, struck>>
        /\ \A d \in BrowserCalls \ {c} : task'[d] = task[d]
        /\ \/ context = NoCall /\ task'[c] = "starting" /\ guard'
           \/ task'[c] \in {"over", "onPage"} /\ UNCHANGED guard
    BY <1>0, <1>2 DEF OpenBegin, Advance, LoopTypes
  <2>2. guard => guard'
    BY <2>1
  <2>3. FieldInv'
    BY <1>0, <2>1, <2>2 DEF FieldInv
  <2>4. \A d \in BrowserCalls : task[d] \in {"closing", "stopping"} => task'[d] = task[d]
    BY <2>1
  <2>5. GuardedBrowser'
    BY <1>0, <1>g, <1>h, <2>1, <2>2, <2>4
  <2> QED
    BY <2>3, <2>5
<1>3. ASSUME NEW c \in BrowserCalls, PlaywrightStarts(c) \/ ContextLaunches(c), Smooth'
      PROVE  FieldInv' /\ GuardedBrowser'
  <2>1. /\ task[c] \in {"starting", "launching"} /\ c \notin struck /\ UNCHANGED <<mine, struck>>
        /\ \A d \in BrowserCalls \ {c} : task'[d] = task[d]
        /\ \/ task'[c] = "launching" /\ UNCHANGED <<guard, context, alive>>
           \/ task'[c] = "over" /\ ~guard' /\ UNCHANGED <<context, alive>>
           \/ task'[c] = "onPage" /\ alive' = {c} /\ context' = c /\ UNCHANGED guard
    BY <1>0, <1>3 DEF PlaywrightStarts, ContextLaunches, Advance, LoopTypes, Smooth
  <2>2. Smooth /\ OnLoop(c) /\ context = NoCall /\ guard
    BY <1>0, <1>3, <2>1 DEF OnLoop, FieldInv
  <2>3. \A d \in BrowserCalls \ {c} : task[d] \notin {"closing", "stopping"}
    BY <2>1, <2>2, AloneOnLoop
  <2>4. alive = {}
    BY <1>0, <1>a, <1>g, <2>1, <2>2, <2>3 DEF LoopTypes
  <2>5. GuardedBrowser'
    BY <1>h, <2>1, <2>2, <2>4
  <2>6. CASE task'[c] = "launching"
    <3>1. FieldInv'
      BY <1>0, <2>1, <2>2, <2>6 DEF FieldInv
    <3> QED
      BY <2>5, <3>1
  <2>7. CASE task'[c] # "launching"
    <3>1. FieldInv'
      BY <1>j, <2>1, <2>2, <2>7
    <3> QED
      BY <2>5, <3>1
  <2> QED
    BY <2>6, <2>7
<1>4. ASSUME NEW c \in BrowserCalls, TakeContext(c), Smooth' PROVE FieldInv' /\ GuardedBrowser'
  <2>1. /\ task[c] = "queued" /\ c \notin struck /\ UNCHANGED <<alive, struck>>
        /\ \A d \in BrowserCalls \ {c} : task'[d] = task[d]
        /\ task'[c] = (IF context = NoCall THEN "over" ELSE "closing")
        /\ mine'[c] = context /\ context' = NoCall
        /\ context # NoCall /\ guard => guard'
    BY <1>0, <1>4 DEF TakeContext, Advance, LoopTypes, Smooth
  <2>2. Smooth /\ OnLoop(c)
    BY <1>0, <1>4, <2>1 DEF OnLoop
  <2>3. /\ \A d \in BrowserCalls \ {c} : OnLoop(d) => d \in struck
        /\ \A d \in BrowserCalls \ {c} : task[d] \notin {"closing", "stopping"}
    BY <2>1, <2>2, AloneOnLoop
  <2>4. \A b \in alive : guard /\ context = b /\ b # NoCall
    BY <1>0, <1>a, <1>g, <2>1, <2>2, <2>3 DEF LoopTypes
  <2>5. FieldInv'
    BY <2>1, <2>3 DEF FieldInv, OnLoop
  <2>6. GuardedBrowser'
    BY <1>h, <2>1, <2>4
  <2> QED
    BY <2>5, <2>6
<1>5. ASSUME NEW c \in BrowserCalls, ContextCloses(c) PROVE FieldInv' /\ GuardedBrowser'
  <2>1. /\ task[c] = "closing" /\ task'[c] = "stopping" /\ alive' \subseteq alive
        /\ UNCHANGED <<guard, context, mine, struck>>
        /\ \A d \in BrowserCalls \ {c} : task'[d] = task[d]
    BY <1>0, <1>5 DEF ContextCloses, Advance, LoopTypes
  <2>2. FieldInv'
    BY <1>0, <2>1 DEF FieldInv
  <2>3. \A d \in BrowserCalls :
          task[d] \in {"closing", "stopping"} => task'[d] \in {"closing", "stopping"}
    BY <2>1
  <2>4. GuardedBrowser'
    BY <1>0, <1>g, <1>h, <2>1, <2>3
  <2> QED
    BY <2>2, <2>4
<1>6. ASSUME NEW c \in BrowserCalls, PlaywrightStops(c), Smooth' PROVE FieldInv' /\ GuardedBrowser'
  <2>1. /\ task[c] = "stopping" /\ task'[c] = "over" /\ alive' = alive \ {mine[c]}
        /\ UNCHANGED <<context, mine, struck>>
        /\ \A d \in BrowserCalls \ {c} : task'[d] = task[d]
    BY <1>0, <1>6 DEF PlaywrightStops, Advance, LoopTypes, Smooth
  <2>2. Smooth /\ OnLoop(c) /\ c \notin struck
    BY <1>0, <1>6, <2>1 DEF OnLoop, Smooth, ErrandInv
  <2>3. context = NoCall
    BY <1>0, <2>1, <2>2 DEF FieldInv
  <2>4. \A d \in BrowserCalls \ {c} : task[d] \notin {"closing", "stopping"}
    BY <2>2, AloneOnLoop
  <2>5. alive' = {}
    BY <1>0, <1>a, <1>g, <2>1, <2>2, <2>3, <2>4 DEF LoopTypes
  <2>6. GuardedBrowser'
    BY <1>h, <2>5
  <2>7. FieldInv'
    BY <1>j, <2>1, <2>2
  <2> QED
    BY <2>6, <2>7
<1>7. ASSUME Rotate \/ UNCHANGED browserVars PROVE FieldInv' /\ GuardedBrowser'
  BY <1>0, <1>7, FieldsKept DEF Rotate, browserVars, contextVars
<1> QED
  BY <1>1, <1>2, <1>3, <1>4, <1>5, <1>6, <1>7, <1>i DEF BrowserNext, TaskStep

LEMMA BrowserInvariant == Spec => []BrowserInv
<1>1. Init => BrowserInv
  BY InitBrowser DEF Init
<1>2. BrowserInv /\ [Next]_vars => BrowserInv'
  BY AdapterSteps, NextLoopTypes, NextLock, NextErrand, NextCancelsOwn, NextFields DEF BrowserInv
<1> QED
  BY <1>1, <1>2, PTL DEF Spec

(* Browser calls take turns, and a cancel ends the call it names and no    *)
(* other (BrowserWorker._run, cancel).                                     *)
THEOREM CallsTakeTurns == Spec => []BrowserTurns
<1>1. BrowserInv => BrowserTurns
  BY OneOnLoop DEF BrowserInv, BrowserTurns
<1> QED
  BY <1>1, BrowserInvariant, PTL

(* Unless a launch was broken off or a close was struck or failed, every   *)
(* browser process is the current one or is being closed, and the profile  *)
(* is guarded while it lives (_open, _close, BrowserProfileGuard).         *)
THEOREM BrowserIsGuarded == Spec => []GuardedBrowser
<1>1. BrowserInv => GuardedBrowser
  BY DEF BrowserInv
<1> QED
  BY <1>1, BrowserInvariant, PTL
-----------------------------------------------------------------------------
(* What a redaction leaves of a text: no letter of a replaced secret.      *)
LEMMA RedactionHides ==
  ASSUME NEW text, Len(text) \in Nat, NEW t \in Redact(text),
         \A r, q \in Found(text) : Overlap(r, q) => Covers(r, q) \/ Covers(q, r)
  PROVE  /\ t \in Seq(Nat)
         /\ \A i \in DOMAIN t, r \in Found(text) : ~(r[1] <= t[i] /\ t[i] <= r[2])
<1>1. PICK R \in Replaced(text) : \E f \in InOrder(Kept(text, R)) : t = Marked(f, R)
  BY DEF Redact
<1>2. PICK f \in InOrder(Kept(text, R)) : t = Marked(f, R)
  BY <1>1
<1> DEFINE n == Cardinality(Kept(text, R))
<1>3. f \in [1..n -> Kept(text, R)]
  BY DEF InOrder
<1>4. n \in Nat
  <2>1. IsFiniteSet(1..Len(text))
    BY FS_Interval
  <2>2. IsFiniteSet(Kept(text, R))
    BY <2>1, FS_Subset DEF Kept
  <2> QED  BY <2>2, FS_CardinalityType
<1> HIDE DEF n
<1>5. \A r \in Found(text) : r \in Nat \X Nat /\ 1 <= r[1] /\ r[1] <= r[2]
  BY DEF Found
<1>6. R \subseteq Found(text)
  BY DEF Replaced
<1>7. ASSUME NEW i \in 1..n
      PROVE  /\ t[i] \in Nat
             /\ t[i] = 0 \/ \A r \in R : ~(r[1] <= t[i] /\ t[i] <= r[2])
  <2>1. /\ f[i] \in 1..Len(text) /\ \A r \in R : ~(r[1] < f[i] /\ f[i] <= r[2])
        /\ t[i] = IF \E r \in R : r[1] = f[i] THEN 0 ELSE f[i]
    BY <1>2, <1>3 DEF Marked, Kept, Redacted
  <2> QED  BY <2>1, <1>5, <1>6
<1>8. DOMAIN t = 1..n /\ t \in Seq(Nat)
  <2>1. t \in [1..n -> Nat]
    BY <1>2, <1>3, <1>7 DEF Marked
  <2> QED  BY <2>1, <1>4
<1>9. ASSUME NEW i \in 1..n, NEW r \in Found(text)
      PROVE  ~(r[1] <= t[i] /\ t[i] <= r[2])
  <2>0. r \in Nat \X Nat /\ 1 <= r[1] /\ t[i] \in Nat
    BY <1>5, <1>7
  <2>1. CASE t[i] = 0
    BY <2>0, <2>1
  <2>2. CASE t[i] # 0
    <3>1. PICK q \in R : q[1] <= r[1] /\ r[2] <= q[2]
      <4>1. CASE r \in R
        BY <4>1, <2>0
      <4>2. CASE r \notin R
        <5>1. PICK q \in R : Overlap(q, r) /\ Before(q, r)
          BY <4>2 DEF Replaced
        <5>2. Covers(q, r) \/ Covers(r, q)
          BY <5>1, <1>6
        <5>3. q \in Nat \X Nat
          BY <1>5, <1>6
        <5> QED  BY <5>1, <5>2, <5>3, <2>0 DEF Before, Covers
      <4> QED  BY <4>1, <4>2
    <3>2. q \in Nat \X Nat
      BY <1>5, <1>6
    <3>3. ~(q[1] <= t[i] /\ t[i] <= q[2])
      BY <1>7, <2>2
    <3> QED  BY <3>1, <3>2, <3>3, <2>0
  <2> QED  BY <2>1, <2>2
<1> QED  BY <1>8, <1>9

(* A result keeps that, cut or not.                                        *)
LEMMA ResultHides ==
  ASSUME NEW text, Len(text) \in Nat,
         NEW t \in ContentResult(text) \cup EvaluateResult(text),
         \A r, q \in Found(text) : Overlap(r, q) => Covers(r, q) \/ Covers(q, r)
  PROVE  \A i \in DOMAIN t, r \in Found(text) : ~(r[1] <= t[i] /\ t[i] <= r[2])
<1>1. CASE t \in Redact(text)
  BY <1>1, RedactionHides
<1>2. CASE t = <<>>
  BY <1>2
<1>3. ASSUME NEW u \in Redact(text), t = Bound(u)
      PROVE  \A i \in DOMAIN t, r \in Found(text) : ~(r[1] <= t[i] /\ t[i] <= r[2])
  <2>1. u \in Seq(Nat) /\ \A i \in DOMAIN u, r \in Found(text) : ~(r[1] <= u[i] /\ u[i] <= r[2])
    BY RedactionHides
  <2> DEFINE m == IF Len(u) < MaxContent THEN Len(u) ELSE MaxContent
  <2>2. m \in Nat /\ m <= Len(u) /\ Len(u) \in Nat /\ DOMAIN u = 1..Len(u)
    BY <2>1, BrowserAssumption
  <2>3. t = SubSeq(u, 1, m)
    BY <1>3 DEF Bound
  <2> HIDE DEF m
  <2>4. DOMAIN t = 1..m /\ \A i \in 1..m : t[i] = u[i]
    BY <2>1, <2>2, <2>3
  <2>5. \A i \in 1..m : i \in DOMAIN u
    BY <2>2
  <2> QED  BY <2>1, <2>4, <2>5
<1> QED  BY <1>1, <1>2, <1>3 DEF ContentResult, EvaluateResult

(* The outputs so far, and what they were made from.                       *)
TextInv ==
    /\ secrets \in {SessionSecrets, NewSecrets} /\ shown \in Pages
    /\ DOMAIN output = BrowserCalls
    /\ SecretsStay

(* What hides a page's letters depends on the secrets and the page only.   *)
LEMMA SecretKept ==
  ASSUME UNCHANGED <<shown, secrets>>
  PROVE  \A p : Secret(p)' <=> Secret(p)
  BY DEF Secret, Found, Overlap, Covers

LEMMA NextText ==
  ASSUME TextInv, [BrowserNext]_browserVars
  PROVE  TextInv'
<1>1. ASSUME UNCHANGED textVars PROVE TextInv'
  BY <1>1, SecretKept DEF textVars, TextInv, SecretsStay
<1>2. ASSUME Rotate PROVE TextInv'
  <2>1. UNCHANGED <<shown, output>> /\ secrets' = NewSecrets /\ secrets # NewSecrets
    BY <1>2 DEF Rotate
  <2>2. secrets' # SessionSecrets
    BY <2>1 DEF TextInv
  <2>3. \A p : ~Secret(p)'
    BY <2>2 DEF Secret
  <2> QED  BY <2>1, <2>3 DEF TextInv, SecretsStay
<1>3. ASSUME NEW c \in BrowserCalls, CollectSecrets(c) PROVE TextInv'
  <2>1. UNCHANGED <<shown, secrets>>
    BY <1>3 DEF CollectSecrets
  <2>2. PICK t \in ContentResult(shown) \cup EvaluateResult(shown) :
          output' = IF c \in struck THEN output ELSE [output EXCEPT ![c] = t]
    BY <1>3 DEF CollectSecrets
  <2>3. Len(shown) \in Nat
    BY BrowserAssumption DEF TextInv
  <2>4. \A i \in DOMAIN t : ~Secret(t[i])
    BY <2>3, ResultHides DEF Secret
  <2>5. DOMAIN output' = BrowserCalls
        /\ \A d \in BrowserCalls : output'[d] = output[d] \/ output'[d] = t
    BY <2>2 DEF TextInv
  <2> QED  BY <2>1, <2>4, <2>5, SecretKept DEF TextInv, SecretsStay
<1>4. ASSUME NEW c \in BrowserCalls,
             CancelCall(c) \/ Sweep(c) \/ Submit(c) \/ Activate(c) \/ Return(c)
      PROVE  TextInv'
  BY <1>1, <1>4 DEF CancelCall, Sweep, Submit, Activate, Return
<1>5. ASSUME NEW c \in BrowserCalls, TaskStep(c) PROVE TextInv'
  BY <1>1, <1>3, <1>5 DEF TaskStep, OpenBegin, PlaywrightStarts, ContextLaunches, Navigate, UsePage,
     TakeContext, ContextCloses, PlaywrightStops
<1>6. ASSUME UNCHANGED browserVars PROVE TextInv'
  BY <1>1, <1>6 DEF browserVars, textVars
<1> QED
  BY <1>2, <1>4, <1>5, <1>6 DEF BrowserNext

(* No letter of a secret of the session leaves the Worker, for every page, *)
(* every limit and all secrets of which no two overlap but where one is    *)
(* part of the other (redact_browser_text's order, _content_result's cut). *)
THEOREM SecretsAreKept == Spec => []SecretsStay
<1>1. Init => TextInv
  BY DEF Init, BrowserInit, TextInv, SecretsStay
<1>2. TextInv /\ [Next]_vars => TextInv'
  BY AdapterSteps, NextText
<1>3. TextInv => SecretsStay
  BY DEF TextInv
<1> QED
  BY <1>1, <1>2, <1>3, PTL DEF Spec
-----------------------------------------------------------------------------
OneTarget == Len(matches) = 1 /\ ActionTarget[1] \notin elevated

(* An action that has passed its guard has one target, which stays.        *)
TargetInv ==
    /\ upc = "guard" /\ uiaCall # "find" => Len(matches) = 1
    /\ upc \in {"revalidate", "apply", "focused", "set"} => OneTarget
    /\ value = "changed" => OneTarget /\ upc \in {"set", "end"}

LEMMA NextTarget == TargetInv /\ [UiaNext]_uiaVars => TargetInv'
<1> SUFFICES ASSUME TargetInv, [UiaNext]_uiaVars PROVE TargetInv'
  OBVIOUS
<1>k. ASSUME UNCHANGED <<elevated, matches>> PROVE OneTarget' <=> OneTarget
  BY <1>k DEF OneTarget, ActionTarget
<1>1. ASSUME NEW c \in Controls, Rebuild(c) PROVE TargetInv'
  BY <1>1, <1>k DEF Rebuild, TargetInv
<1>2. ASSUME GiveUp \/ GuardWorker PROVE TargetInv'
  BY <1>2, <1>k DEF GiveUp, GuardWorker, Ends, Step, KeepWalk, KeepScene, TargetInv
<1>3. ASSUME FindRoot PROVE TargetInv'
  BY <1>3, <1>k DEF FindRoot, Ends, Step, KeepScene, TargetInv
<1>4. ASSUME Visit PROVE TargetInv'
  <2>1. upc = "walk" /\ UNCHANGED <<upc, value>>
    BY <1>4 DEF Visit
  <2> QED
    BY <2>1 DEF TargetInv
<1>5. ASSUME Resolved PROVE TargetInv'
  BY <1>5, <1>k DEF Resolved, Ends, Step, KeepWalk, KeepScene, TargetInv
<1>6. ASSUME GuardTarget PROVE TargetInv'
  <2>1. /\ upc = "guard" /\ UNCHANGED <<uiaCall, matches, elevated, value>>
        /\ upc' = "end" \/ (upc' = "revalidate" /\ uiaCall # "find")
        /\ upc' = "revalidate" => ~\E i \in 1..Len(matches) : matches[i][1] \in elevated
    BY <1>6 DEF GuardTarget, Ends, Step, KeepWalk, KeepScene
  <2>2. upc' = "revalidate" => OneTarget
    <3>1. upc' = "revalidate" => Len(matches) = 1
      BY <2>1 DEF TargetInv
    <3>2. Len(matches) = 1 => 1 \in 1..Len(matches)
      OBVIOUS
    <3> QED
      BY <2>1, <3>1, <3>2 DEF OneTarget, ActionTarget
  <2> QED
    BY <1>k, <2>1, <2>2 DEF TargetInv
<1>7. ASSUME Revalidate \/ Invoke \/ Focus \/ SetValue \/ Publish PROVE TargetInv'
  BY <1>7, <1>k DEF Revalidate, Invoke, Focus, SetValue, Publish, Ends, Step, KeepWalk, KeepScene,
     TargetInv
<1>8. ASSUME UNCHANGED uiaVars PROVE TargetInv'
  BY <1>8, <1>k DEF uiaVars, TargetInv
<1> QED
  BY <1>1, <1>2, <1>3, <1>4, <1>5, <1>6, <1>7, <1>8 DEF UiaNext

(* UI Automation never changes a control of an elevated process, however   *)
(* the application rebuilds its tree (_resolve_action_target, apply).      *)
THEOREM ElevatedLeftAlone == Spec => []NeverElevated
<1>1. Init => TargetInv
  BY DEF Init, UiaInit, TargetInv
<1>2. TargetInv /\ [Next]_vars => TargetInv'
  BY AdapterSteps, NextTarget
<1>3. TargetInv => NeverElevated
  BY DEF TargetInv, OneTarget, NeverElevated
<1> QED
  BY <1>1, <1>2, <1>3, PTL DEF Spec
-----------------------------------------------------------------------------
(* The breadth-first search over a tree that fits and is left alone.  V is *)
(* the set of controls visited: they and the queue are different controls, *)
(* each but the root a child of one of V, with all children of V, and no   *)
(* control is queued deeper than the number of visits.                     *)
Queued == {queue[i][1] : i \in 1..Len(queue)}

Search(V) ==
    /\ V \subseteq InTree /\ Cardinality(V) = visited
    /\ \A i \in 1..Len(queue) : queue[i][1] \in InTree /\ queue[i][1] \notin V
                                /\ queue[i][2] <= visited
    /\ \A i, j \in 1..Len(queue) : queue[i][1] = queue[j][1] => i = j
    /\ Root \in V \cup Queued
    /\ \A v \in V : Kids(tree, v) \subseteq V \cup Queued
    /\ \A x \in V \cup Queued : x = Root \/ \E v \in V : x \in Kids(tree, v)
    /\ \A i \in 1..Len(matches) : matches[i][1] \in V \cap matching
    /\ \A x \in V \cap matching : \E i \in 1..Len(matches) : matches[i][1] = x

SearchTypes ==
    /\ tree \in Trees /\ matching \subseteq Controls
    /\ queue \in Seq(Controls \X Nat) /\ visited \in Nat
    /\ matches \in Seq(Controls \X Nat) /\ rebuilds \in Nat
    /\ identity \in [Controls -> Nat]
    /\ upc \in {"start", "root"} => visited = 0 /\ matches = <<>>
    /\ upc \in {"revalidate", "apply", "focused", "set"} \/ value = "changed" =>
         uiaCall # "find"

Undisturbed == TreeFits /\ rebuilds = 0 /\ uiaCall # "find"

SearchInv ==
    /\ SearchTypes
    /\ Undisturbed /\ upc = "walk" => \E V \in SUBSET Controls : Search(V)
    /\ Undisturbed /\ (upc \in {"guard", "revalidate", "apply", "focused", "set"}
                       \/ value = "changed") =>
         matching \cap InTree = {ActionTarget[1]}

(* As many elements as places, if all are different.                       *)
LEMMA CountPlaces ==
  ASSUME NEW n \in Nat, NEW f, \A i, j \in 1..n : f[i] = f[j] => i = j,
         NEW T, \A i \in 1..n : f[i] \in T, \A t \in T : \E i \in 1..n : f[i] = t
  PROVE  IsFiniteSet(T) /\ Cardinality(T) = n
<1> DEFINE g == [i \in 1..n |-> f[i]]
<1>1. IsFiniteSet(1..n) /\ Cardinality(1..n) = n
  <2>1. 1 \in Int /\ n \in Int
    OBVIOUS
  <2> QED  BY <2>1, FS_Interval
<1>2. g \in [1..n -> T] /\ (\A i, j \in 1..n : g[i] = g[j] => i = j)
      /\ \A t \in T : \E i \in 1..n : g[i] = t
  OBVIOUS
<1>3. g \in Bijection(1..n, T)
  BY <1>2 DEF Bijection, Injection, Surjection, IsInjective
<1>4. ExistsBijection(1..n, T)
  BY <1>3 DEF ExistsBijection
<1> QED  BY <1>1, <1>4, FS_Bijection

(* What UiaAssumption says of the current tree.                            *)
LEMMA TreeFacts ==
  ASSUME SearchTypes
  PROVE  /\ IsTree(tree) /\ tree \in [Controls -> Seq(Controls)]
         /\ Root \in Controls /\ InTree \subseteq Controls /\ Root \in InTree
         /\ \A c \in Controls : Kids(tree, c) \subseteq InTree
         /\ IsFiniteSet(InTree) /\ Cardinality(InTree) \in Nat
         /\ \A S \in SUBSET InTree : IsFiniteSet(S) /\ Cardinality(S) <= Cardinality(InTree)
                                     /\ (Cardinality(S) >= Cardinality(InTree) => S = InTree)
<1>1. /\ IsTree(tree) /\ tree \in [Controls -> Seq(Controls)] /\ Root \in Controls
      /\ IsFiniteSet(Controls)
  BY UiaAssumption DEF SearchTypes
<1>2. ASSUME NEW c \in Controls PROVE Kids(tree, c) \subseteq Controls
  <2>1. tree[c] \in Seq(Controls)
    BY <1>1
  <2>2. \A i \in 1..Len(tree[c]) : tree[c][i] \in Controls
    BY <2>1, ElementOfSeq
  <2> QED  BY <2>2 DEF Kids
<1>3. InTree \subseteq Controls /\ Root \in InTree /\ \A c \in Controls : Kids(tree, c) \subseteq InTree
  BY <1>1, <1>2 DEF InTree
<1>4. IsFiniteSet(InTree) /\ Cardinality(InTree) \in Nat
  BY <1>1, <1>3, FS_Subset, FS_CardinalityType
<1>5. ASSUME NEW S \in SUBSET InTree
      PROVE  IsFiniteSet(S) /\ Cardinality(S) <= Cardinality(InTree)
             /\ (Cardinality(S) >= Cardinality(InTree) => S = InTree)
  <2>1. /\ IsFiniteSet(S) /\ Cardinality(S) <= Cardinality(InTree)
        /\ (Cardinality(InTree) = Cardinality(S) => InTree = S) /\ Cardinality(S) \in Nat
    BY <1>4, FS_Subset, FS_CardinalityType
  <2> QED  BY <1>4, <2>1
<1> QED  BY <1>1, <1>3, <1>4, <1>5

(* The children of the next control are new, so that there is room for     *)
(* all of them.                                                            *)
LEMMA Room ==
  ASSUME SearchTypes, NEW V, Search(V), Len(queue) > 0, NEW c, c = queue[1][1]
  PROVE  /\ c \in Controls /\ tree[c] \in Seq(Controls) /\ Len(tree[c]) \in Nat
         /\ \A x \in Kids(tree, c) : x \notin V /\ x \notin Queued /\ x # Root
         /\ \A i, j \in 1..Len(tree[c]) : tree[c][i] = tree[c][j] => i = j
         /\ visited + Len(queue) + Len(tree[c]) <= Cardinality(InTree)
<1>0. /\ IsTree(tree) /\ tree \in [Controls -> Seq(Controls)] /\ InTree \subseteq Controls
      /\ IsFiniteSet(InTree) /\ Cardinality(InTree) \in Nat
      /\ \A d \in Controls : Kids(tree, d) \subseteq InTree
      /\ \A S \in SUBSET InTree : IsFiniteSet(S) /\ Cardinality(S) <= Cardinality(InTree)
  BY TreeFacts
<1>1. /\ queue \in Seq(Controls \X Nat) /\ visited \in Nat /\ Len(queue) \in Nat
      /\ 1 \in 1..Len(queue)
  BY DEF SearchTypes
<1>2. c \in InTree /\ c \in Controls /\ c \notin V /\ V \subseteq InTree
  BY <1>0, <1>1 DEF Search
<1>3. tree[c] \in Seq(Controls) /\ Len(tree[c]) \in Nat
  BY <1>0, <1>2
<1>4. ASSUME NEW x \in Kids(tree, c) PROVE x \notin V /\ x \notin Queued /\ x # Root
  <2>1. x # Root
    BY <1>0, <1>2 DEF IsTree
  <2>2. ASSUME x \in V \cup Queued PROVE FALSE
    <3>1. PICK v \in V : x \in Kids(tree, v)
      BY <2>1, <2>2 DEF Search
    <3>2. PICK i \in 1..Len(tree[c]) : x = tree[c][i]
      BY DEF Kids
    <3>3. PICK j \in 1..Len(tree[v]) : x = tree[v][j]
      BY <3>1 DEF Kids
    <3>4. v \in Controls
      BY <1>0, <1>2, <3>1
    <3>5. v = c
      <4>1. \A d \in Controls : \A p \in 1..Len(tree[c]), q \in 1..Len(tree[d]) :
              tree[c][p] = tree[d][q] => c = d
        BY <1>0, <1>2 DEF IsTree
      <4> QED  BY <3>2, <3>3, <3>4, <4>1
    <3> QED  BY <3>1, <3>5, <1>2
  <2> QED  BY <2>1, <2>2
<1>5. ASSUME NEW i \in 1..Len(tree[c]), NEW j \in 1..Len(tree[c]), tree[c][i] = tree[c][j]
      PROVE  i = j
  BY <1>5, <1>0, <1>2 DEF IsTree
<1>6. IsFiniteSet(Kids(tree, c)) /\ Cardinality(Kids(tree, c)) = Len(tree[c])
  <2>1. /\ \A i \in 1..Len(tree[c]) : tree[c][i] \in Kids(tree, c)
        /\ \A t \in Kids(tree, c) : \E i \in 1..Len(tree[c]) : tree[c][i] = t
    BY DEF Kids
  <2> QED  BY ONLY <1>3, <1>5, <2>1, CountPlaces
<1>7. IsFiniteSet(Queued) /\ Cardinality(Queued) = Len(queue)
  <2> DEFINE f == [i \in 1..Len(queue) |-> queue[i][1]]
  <2>1. \A i, j \in 1..Len(queue) : f[i] = f[j] => i = j
    BY DEF Search
  <2>2. /\ \A i \in 1..Len(queue) : f[i] \in Queued
        /\ \A t \in Queued : \E i \in 1..Len(queue) : f[i] = t
    BY DEF Queued
  <2> HIDE DEF f
  <2> QED  BY ONLY <1>1, <2>1, <2>2, CountPlaces
<1>8. IsFiniteSet(V) /\ Cardinality(V) = visited
  BY <1>0, <1>2 DEF Search
<1>9. V \cap Queued = {} /\ Queued \subseteq InTree
  BY DEF Search, Queued
<1>10. IsFiniteSet(V \cup Queued) /\ Cardinality(V \cup Queued) = visited + Len(queue)
  <2>1. /\ IsFiniteSet(V \cup Queued)
        /\ Cardinality(V \cup Queued) = Cardinality(V) + Cardinality(Queued) - Cardinality(V \cap Queued)
    BY <1>7, <1>8, FS_Union
  <2>2. Cardinality(V \cap Queued) = 0
    BY <1>9, FS_EmptySet
  <2> QED  BY <2>1, <2>2, <1>1, <1>7, <1>8
<1>11. (V \cup Queued) \cap Kids(tree, c) = {}
  BY <1>4
<1>12. Cardinality((V \cup Queued) \cup Kids(tree, c)) = visited + Len(queue) + Len(tree[c])
  <2>1. Cardinality((V \cup Queued) \cup Kids(tree, c)) =
          Cardinality(V \cup Queued) + Cardinality(Kids(tree, c))
            - Cardinality((V \cup Queued) \cap Kids(tree, c))
    BY <1>6, <1>10, FS_Union
  <2>2. Cardinality((V \cup Queued) \cap Kids(tree, c)) = 0
    BY <1>11, FS_EmptySet
  <2> DEFINE a == Cardinality(V \cup Queued)
             b == Cardinality(Kids(tree, c))
  <2>3. a = visited + Len(queue) /\ b = Len(tree[c])
    BY <1>6, <1>10
  <2>4. Cardinality((V \cup Queued) \cup Kids(tree, c)) = a + b - 0
    BY <2>1, <2>2
  <2> HIDE DEF a, b
  <2> QED  BY ONLY <2>3, <2>4, <1>1, <1>3
<1>13. (V \cup Queued) \cup Kids(tree, c) \in SUBSET InTree
  BY <1>0, <1>2, <1>9
<1> QED  BY <1>0, <1>2, <1>3, <1>4, <1>5, <1>12, <1>13


(* A visit takes the first control off the queue and puts all its children *)
(* at the end.                                                             *)
LEMMA VisitTakesAll ==
  ASSUME SearchTypes, NEW V, Search(V), TreeFits, Visit, NEW c, c = queue[1][1]
  PROVE  /\ Len(queue) > 0
         /\ queue' \in Seq(Controls \X Nat)
         /\ Len(queue') = (Len(queue) - 1) + Len(tree[c])
         /\ \A i \in 1..(Len(queue) - 1) : queue'[i] = queue[i + 1]
         /\ \A i \in 1..Len(tree[c]) :
              queue'[(Len(queue) - 1) + i] = <<tree[c][i], queue[1][2] + 1>>
<1>1. queue \in Seq(Controls \X Nat) /\ queue # <<>> /\ visited \in Nat
  BY DEF SearchTypes, Visit, Walking
<1>2. Len(queue) \in Nat /\ Len(queue) > 0 /\ 1 \in 1..Len(queue)
  BY <1>1, EmptySeq
<1>3. queue[1] \in Controls \X Nat /\ Head(queue) = queue[1]
  BY <1>1, <1>2, ElementOfSeq
<1>4. /\ Tail(queue) \in Seq(Controls \X Nat) /\ Len(Tail(queue)) = Len(queue) - 1
      /\ \A i \in 1..(Len(queue) - 1) : Tail(queue)[i] = queue[i + 1]
  BY <1>1, HeadTailProperties
<1> DEFINE depth == queue[1][2]
           kids == tree[c]
           room == IF depth < MaxTreeDepth /\ Capacity > 0 THEN Capacity ELSE 0
           taken == SubSeq(kids, 1, IF room < Len(kids) THEN room ELSE Len(kids))
           extra == [i \in 1..Len(taken) |-> <<taken[i], depth + 1>>]
<1>5. queue' = Tail(queue) \o extra
  BY <1>3 DEF Visit
<1>6. /\ c \in Controls /\ kids \in Seq(Controls) /\ Len(kids) \in Nat
      /\ visited + Len(queue) + Len(kids) <= Cardinality(InTree)
      /\ depth \in Nat /\ depth <= visited
  BY <1>2, <1>3, Room DEF Search
<1>7. /\ Cardinality(InTree) \in Nat /\ Cardinality(InTree) <= MaxTreeControls
      /\ Cardinality(InTree) <= MaxTreeDepth + 1
      /\ MaxTreeControls \in Nat /\ MaxTreeDepth \in Nat
  BY TreeFacts, UiaAssumption DEF TreeFits
<1>8. Capacity = MaxTreeControls - (visited + 1) - (Len(queue) - 1)
  BY <1>4 DEF Capacity
<1>9. (IF room < Len(kids) THEN room ELSE Len(kids)) = Len(kids)
  <2> DEFINE k == Len(kids)
             q == Len(queue)
             size == Cardinality(InTree)
  <2>0. /\ visited \in Nat /\ q \in Nat /\ q > 0 /\ k \in Nat /\ size \in Nat
        /\ depth \in Nat /\ depth <= visited /\ visited + q + k <= size
        /\ size <= MaxTreeControls /\ size <= MaxTreeDepth + 1
        /\ MaxTreeControls \in Nat /\ MaxTreeDepth \in Nat
        /\ Capacity = MaxTreeControls - (visited + 1) - (q - 1)
    BY <1>1, <1>2, <1>6, <1>7, <1>8
  <2> HIDE DEF k, q, size, depth
  <2>1. Capacity \in Int /\ Capacity >= k
    BY ONLY <2>0
  <2>2. k > 0 => depth < MaxTreeDepth
    BY ONLY <2>0
  <2>3. k > 0 => room = Capacity
    BY ONLY <2>0, <2>1, <2>2
  <2>4. room \in Int /\ room >= 0
    BY ONLY <2>0, <2>1
  <2> HIDE DEF room
  <2>5. (IF room < k THEN room ELSE k) = k
    BY ONLY <2>0, <2>1, <2>3, <2>4
  <2> QED  BY <2>5 DEF k
<1>10. taken \in Seq(Controls) /\ Len(taken) = Len(kids) /\ \A i \in 1..Len(kids) : taken[i] = kids[i]
  <2>1. taken = SubSeq(kids, 1, Len(kids))
    BY <1>9
  <2> HIDE DEF taken, kids
  <2>2. \A i \in 1..Len(kids) : kids[i] \in Controls
    BY <1>6, ElementOfSeq
  <2>3. 1 \in Int /\ Len(kids) \in Int
    BY <1>6
  <2>4. /\ SubSeq(kids, 1, Len(kids)) \in Seq(Controls)
        /\ Len(SubSeq(kids, 1, Len(kids))) = IF 1 <= Len(kids) THEN Len(kids) - 1 + 1 ELSE 0
        /\ \A i \in 1..(Len(kids) - 1 + 1) : SubSeq(kids, 1, Len(kids))[i] = kids[1 + i - 1]
    BY <2>2, <2>3, SubSeqProperties
  <2> QED  BY <1>6, <2>1, <2>4
<1> HIDE DEF taken, room
<1>11. /\ extra \in Seq(Controls \X Nat) /\ Len(extra) = Len(kids)
       /\ \A i \in 1..Len(kids) : extra[i] = <<kids[i], depth + 1>>
  <2>1. \A i \in 1..Len(kids) : taken[i] \in Controls
    BY <1>10, ElementOfSeq
  <2>2. extra \in [1..Len(kids) -> Controls \X Nat]
    BY <2>1, <1>6, <1>10
  <2>3. \A i \in 1..Len(kids) : extra[i] = <<kids[i], depth + 1>>
    BY <1>10
  <2> HIDE DEF extra, kids
  <2> QED  BY <2>2, <2>3, <1>6
<1> HIDE DEF extra
<1>12. /\ queue' \in Seq(Controls \X Nat) /\ Len(queue') = (Len(queue) - 1) + Len(kids)
       /\ \A i \in 1..((Len(queue) - 1) + Len(kids)) :
            queue'[i] = IF i <= Len(queue) - 1 THEN Tail(queue)[i] ELSE extra[i - (Len(queue) - 1)]
  <2> DEFINE t == Tail(queue)
  <2>1. t \in Seq(Controls \X Nat) /\ Len(t) = Len(queue) - 1 /\ queue' = t \o extra
    BY <1>4, <1>5
  <2> HIDE DEF t
  <2>2. /\ t \o extra \in Seq(Controls \X Nat) /\ Len(t \o extra) = Len(t) + Len(extra)
        /\ \A i \in 1..(Len(t) + Len(extra)) :
             (t \o extra)[i] = IF i <= Len(t) THEN t[i] ELSE extra[i - Len(t)]
    <3> DEFINE Entries == Controls \X Nat
    <3>1. t \in Seq(Entries) /\ extra \in Seq(Entries)
      BY <2>1, <1>11
    <3> HIDE DEF Entries
    <3>2. /\ t \o extra \in Seq(Entries) /\ Len(t \o extra) = Len(t) + Len(extra)
          /\ \A i \in 1..(Len(t) + Len(extra)) :
               (t \o extra)[i] = IF i <= Len(t) THEN t[i] ELSE extra[i - Len(t)]
      BY ONLY <3>1, ConcatProperties
    <3> QED  BY <3>2 DEF Entries
  <2>3. /\ queue' \in Seq(Controls \X Nat) /\ Len(queue') = (Len(queue) - 1) + Len(kids)
        /\ \A i \in 1..((Len(queue) - 1) + Len(kids)) :
             queue'[i] = IF i <= Len(queue) - 1 THEN t[i] ELSE extra[i - (Len(queue) - 1)]
    BY <2>1, <2>2, <1>11
  <2> QED  BY <2>3 DEF t
<1>13. \A i \in 1..(Len(queue) - 1) : queue'[i] = queue[i + 1]
  <2>1. \A i \in 1..(Len(queue) - 1) : i \in 1..((Len(queue) - 1) + Len(kids)) /\ i <= Len(queue) - 1
    BY <1>2, <1>6
  <2> QED  BY <2>1, <1>4, <1>12
<1>14. ASSUME NEW i \in 1..Len(kids)
       PROVE  queue'[(Len(queue) - 1) + i] = <<kids[i], depth + 1>>
  <2>1. /\ (Len(queue) - 1) + i \in 1..((Len(queue) - 1) + Len(kids))
        /\ ~((Len(queue) - 1) + i <= Len(queue) - 1)
        /\ (Len(queue) - 1) + i - (Len(queue) - 1) = i
    BY <1>2, <1>6
  <2>2. queue'[(Len(queue) - 1) + i] = extra[(Len(queue) - 1) + i - (Len(queue) - 1)]
    BY <2>1, <1>12
  <2> QED  BY <2>1, <2>2, <1>11
<1> QED  BY <1>2, <1>12, <1>13, <1>14


(* The visited controls with the next one.                                 *)
LEMMA VisitSearch ==
  ASSUME SearchTypes, NEW V, Search(V), TreeFits, Visit, NEW c, c = queue[1][1],
         NEW W, W = V \cup {c}
  PROVE  W \in SUBSET Controls /\ Search(W)'
<1>0. Len(queue) > 0
  BY VisitTakesAll
<1>1. /\ queue' \in Seq(Controls \X Nat) /\ Len(queue') = (Len(queue) - 1) + Len(tree[c])
      /\ \A i \in 1..(Len(queue) - 1) : queue'[i] = queue[i + 1]
      /\ \A i \in 1..Len(tree[c]) :
           queue'[(Len(queue) - 1) + i] = <<tree[c][i], queue[1][2] + 1>>
  BY VisitTakesAll
<1>2. /\ c \in Controls /\ tree[c] \in Seq(Controls) /\ Len(tree[c]) \in Nat
      /\ \A x \in Kids(tree, c) : x \notin V /\ x \notin Queued /\ x # Root
      /\ \A i, j \in 1..Len(tree[c]) : tree[c][i] = tree[c][j] => i = j
  BY <1>0, Room
<1>3. /\ InTree \subseteq Controls /\ \A d \in Controls : Kids(tree, d) \subseteq InTree
      /\ \A S \in SUBSET InTree : IsFiniteSet(S)
  BY TreeFacts
<1>4. /\ queue \in Seq(Controls \X Nat) /\ visited \in Nat /\ Len(queue) \in Nat
      /\ matches \in Seq(Controls \X Nat) /\ visited' = visited + 1
      /\ UNCHANGED <<tree, matching>> /\ 1 \in 1..Len(queue) /\ queue[1] \in Controls \X Nat
      /\ identity \in [Controls -> Nat] /\ Head(queue) = queue[1]
  <2>1. queue \in Seq(Controls \X Nat) /\ Len(queue) \in Nat /\ 1 \in 1..Len(queue)
    BY <1>0 DEF SearchTypes
  <2>2. queue[1] \in Controls \X Nat /\ Head(queue) = queue[1]
    BY <2>1, ElementOfSeq
  <2>3. visited' = visited + 1 /\ UNCHANGED <<tree, matching>>
    BY DEF Visit, KeepScene
  <2> QED  BY <2>1, <2>2, <2>3 DEF SearchTypes
<1>5. matches' = IF c \in matching THEN Append(matches, <<c, identity[c]>>) ELSE matches
  BY <1>4 DEF Visit
<1>6. InTree' = InTree
  BY <1>4 DEF InTree, Kids
<1>7. c \in InTree /\ c \notin V /\ V \subseteq InTree /\ queue[1][1] = c
  BY <1>4 DEF Search
<1>8. W \in SUBSET InTree /\ W \in SUBSET Controls
  BY <1>3, <1>7
<1>9. Cardinality(W) = visited + 1
  <2>1. IsFiniteSet(V) /\ Cardinality(V) = visited
    BY <1>3, <1>7 DEF Search
  <2> QED  BY <2>1, <1>7, FS_AddElement
<1>10. ASSUME NEW i \in 1..Len(queue')
       PROVE  \/ i \in 1..(Len(queue) - 1) /\ i + 1 \in 1..Len(queue) /\ queue'[i] = queue[i + 1]
              \/ \E j \in 1..Len(tree[c]) : /\ i = (Len(queue) - 1) + j
                                            /\ queue'[i] = <<tree[c][j], queue[1][2] + 1>>
  <2>1. CASE i <= Len(queue) - 1
    <3>1. i \in 1..(Len(queue) - 1) /\ i + 1 \in 1..Len(queue)
      BY <2>1, <1>4
    <3> QED  BY <3>1, <1>1
  <2>2. CASE ~(i <= Len(queue) - 1)
    <3>1. /\ i - (Len(queue) - 1) \in 1..Len(tree[c])
          /\ i = (Len(queue) - 1) + (i - (Len(queue) - 1))
      BY <2>2, <1>1, <1>2, <1>4
    <3> QED  BY <3>1, <1>1
  <2> QED  BY <2>1, <2>2
<1>11. \A j \in 1..Len(tree[c]) : tree[c][j] \in Kids(tree, c)
  BY DEF Kids
<1>12. ASSUME NEW i \in 1..Len(queue')
       PROVE  queue'[i][1] \in InTree /\ queue'[i][1] \notin W /\ queue'[i][2] <= visited + 1
  <2>1. CASE i + 1 \in 1..Len(queue) /\ queue'[i] = queue[i + 1]
    <3>1. /\ queue[i + 1][1] \in InTree /\ queue[i + 1][1] \notin V /\ queue[i + 1][2] <= visited
          /\ queue[i + 1] \in Controls \X Nat
      BY <2>1, <1>4, ElementOfSeq DEF Search
    <3>2. queue[i + 1][1] # c
      <4>1. i + 1 # 1
        OBVIOUS
      <4> QED  BY <4>1, <2>1, <1>4, <1>7 DEF Search
    <3>3. queue[i + 1][2] \in Nat
      BY <3>1
    <3>4. queue[i + 1][2] <= visited + 1
      BY <3>1, <3>3, <1>4
    <3> QED  BY <2>1, <3>1, <3>2, <3>4
  <2>2. ASSUME NEW j \in 1..Len(tree[c]), queue'[i] = <<tree[c][j], queue[1][2] + 1>>
        PROVE  queue'[i][1] \in InTree /\ queue'[i][1] \notin W /\ queue'[i][2] <= visited + 1
    <3>1. tree[c][j] \in Kids(tree, c)
      BY <1>11
    <3>2. tree[c][j] \in InTree /\ tree[c][j] \notin V /\ tree[c][j] \notin Queued
      BY <3>1, <1>2, <1>3
    <3>3. c \in Queued
      BY <1>4, <1>7 DEF Queued
    <3>4. queue[1][2] \in Nat /\ queue[1][2] <= visited
      BY <1>4 DEF Search
    <3> QED  BY <2>2, <3>2, <3>3, <3>4, <1>4
  <2> QED  BY <1>10, <2>1, <2>2
<1>13. ASSUME NEW i \in 1..Len(queue'), NEW j \in 1..Len(queue'), queue'[i][1] = queue'[j][1]
       PROVE  i = j
  <2>0. ASSUME NEW x \in 1..Len(queue), NEW y \in 1..Len(tree[c]) PROVE queue[x][1] # tree[c][y]
    <3>1. queue[x][1] \in Queued
      BY DEF Queued
    <3> QED  BY <3>1, <1>2, <1>11
  <2>1. CASE i + 1 \in 1..Len(queue) /\ queue'[i] = queue[i + 1]
    <3>1. CASE j + 1 \in 1..Len(queue) /\ queue'[j] = queue[j + 1]
      <4>1. i + 1 = j + 1
        BY <1>13, <2>1, <3>1 DEF Search
      <4> QED  BY <4>1
    <3>2. CASE \E z \in 1..Len(tree[c]) : queue'[j] = <<tree[c][z], queue[1][2] + 1>>
      BY <1>13, <2>0, <2>1, <3>2
    <3> QED  BY <1>10, <3>1, <3>2
  <2>2. ASSUME NEW y \in 1..Len(tree[c]), i = (Len(queue) - 1) + y,
               queue'[i] = <<tree[c][y], queue[1][2] + 1>>
        PROVE  i = j
    <3>1. CASE j + 1 \in 1..Len(queue) /\ queue'[j] = queue[j + 1]
      BY <1>13, <2>0, <2>2, <3>1
    <3>2. ASSUME NEW z \in 1..Len(tree[c]), j = (Len(queue) - 1) + z,
                 queue'[j] = <<tree[c][z], queue[1][2] + 1>>
          PROVE  i = j
      <4>1. tree[c][y] = tree[c][z]
        BY <1>13, <2>2, <3>2
      <4>2. y = z
        BY <4>1, <1>2
      <4> QED  BY <4>2, <2>2, <3>2
    <3> QED  BY <1>10, <3>1, <3>2
  <2> QED  BY <1>10, <2>1, <2>2
<1>14. /\ \A x \in Queued : x = c \/ x \in Queued'
       /\ Kids(tree, c) \subseteq Queued'
  <2>1. ASSUME NEW x \in Queued, x # c PROVE x \in Queued'
    <3>1. PICK i \in 1..Len(queue) : queue[i][1] = x
      BY DEF Queued
    <3>2. i # 1
      BY <2>1, <3>1, <1>7
    <3>3. i - 1 \in 1..(Len(queue) - 1) /\ (i - 1) + 1 = i /\ i - 1 \in 1..Len(queue')
      BY <3>2, <1>1, <1>2, <1>4
    <3>4. queue'[i - 1] = queue[i]
      BY <3>3, <1>1
    <3> QED  BY <3>1, <3>3, <3>4 DEF Queued
  <2>2. ASSUME NEW x \in Kids(tree, c) PROVE x \in Queued'
    <3>1. PICK j \in 1..Len(tree[c]) : tree[c][j] = x
      BY DEF Kids
    <3>2. (Len(queue) - 1) + j \in 1..Len(queue')
      <4> DEFINE n == Len(tree[c])
                 q == Len(queue)
      <4>1. j \in 1..n /\ n \in Nat /\ q \in Nat /\ q > 0
        BY <1>0, <1>2, <1>4
      <4>2. Len(queue') = (q - 1) + n
        BY <1>1
      <4> HIDE DEF n, q
      <4>3. (q - 1) + j \in 1..((q - 1) + n)
        BY ONLY <4>1
      <4> QED  BY <4>2, <4>3 DEF q
    <3>3. queue'[(Len(queue) - 1) + j][1] = x
      BY <3>1, <1>1
    <3> QED  BY <3>2, <3>3 DEF Queued
  <2> QED  BY <2>1, <2>2
<1>15. \A x \in Queued' : x \in Queued \/ x \in Kids(tree, c)
  <2> SUFFICES ASSUME NEW x \in Queued' PROVE x \in Queued \/ x \in Kids(tree, c)
    OBVIOUS
  <2>1. PICK i \in 1..Len(queue') : queue'[i][1] = x
    BY DEF Queued
  <2>2. CASE i + 1 \in 1..Len(queue) /\ queue'[i] = queue[i + 1]
    BY <2>1, <2>2 DEF Queued
  <2>3. CASE \E j \in 1..Len(tree[c]) : queue'[i] = <<tree[c][j], queue[1][2] + 1>>
    BY <2>1, <2>3, <1>11
  <2> QED  BY <1>10, <2>2, <2>3
<1>16. Root \in W \cup Queued'
  BY <1>14 DEF Search
<1>17. ASSUME NEW v \in W PROVE Kids(tree, v) \subseteq W \cup Queued'
  BY <1>14 DEF Search
<1>18. ASSUME NEW x \in W \cup Queued' PROVE x = Root \/ \E v \in W : x \in Kids(tree, v)
  <2>1. CASE x \in Kids(tree, c)
    BY <2>1
  <2>2. CASE x \in V \cup Queued
    BY <2>2 DEF Search
  <2>3. c \in Queued
    BY <1>4, <1>7 DEF Queued
  <2> QED  BY <1>15, <2>1, <2>2, <2>3
<1>19. /\ \A i \in 1..Len(matches') : matches'[i][1] \in W \cap matching
       /\ \A x \in W \cap matching : \E i \in 1..Len(matches') : matches'[i][1] = x
  <2>0. /\ \A i \in 1..Len(matches) : matches[i][1] \in V \cap matching
        /\ \A x \in V \cap matching : \E i \in 1..Len(matches) : matches[i][1] = x
    BY DEF Search
  <2>1. CASE c \in matching
    <3> DEFINE e == <<c, identity[c]>>
    <3>1. e \in Controls \X Nat /\ e[1] = c
      BY <1>2, <1>4
    <3>2. matches' = Append(matches, e) /\ Len(matches) \in Nat
      BY <1>4, <1>5, <2>1
    <3> HIDE DEF e
    <3>3. /\ Len(matches') = Len(matches) + 1
          /\ \A i \in 1..Len(matches) : matches'[i] = matches[i]
          /\ matches'[Len(matches) + 1] = e
      BY <1>4, <3>1, <3>2, AppendProperties
    <3>4. ASSUME NEW i \in 1..Len(matches') PROVE matches'[i][1] \in W \cap matching
      <4>1. CASE i = Len(matches) + 1
        BY <4>1, <3>1, <3>3, <2>1
      <4>2. CASE i # Len(matches) + 1
        <5>1. i \in 1..Len(matches)
          BY <4>2, <3>2, <3>3
        <5> QED  BY <5>1, <3>3, <2>0
      <4> QED  BY <4>1, <4>2
    <3>5. ASSUME NEW x \in W \cap matching PROVE \E i \in 1..Len(matches') : matches'[i][1] = x
      <4>1. CASE x = c
        <5>1. Len(matches) + 1 \in 1..Len(matches')
          BY <3>2, <3>3
        <5> QED  BY <4>1, <5>1, <3>1, <3>3
      <4>2. CASE x # c
        <5>1. PICK i \in 1..Len(matches) : matches[i][1] = x
          BY <4>2, <2>0
        <5>2. i \in 1..Len(matches')
          BY <3>2, <3>3
        <5> QED  BY <5>1, <5>2, <3>3
      <4> QED  BY <4>1, <4>2
    <3> QED  BY <3>4, <3>5
  <2>2. CASE c \notin matching
    BY <2>0, <2>2, <1>5
  <2> QED  BY <2>1, <2>2
<1>20. Search(W)'
  BY <1>4, <1>6, <1>8, <1>9, <1>12, <1>13, <1>16, <1>17, <1>18, <1>19 DEF Search
<1> QED  BY <1>8, <1>20

(* A search that is over with one match has found the only one there is.   *)
LEMMA FoundSingle ==
  ASSUME SearchTypes, NEW V, Search(V), TreeFits, uiaCall # "find",
         ~Walking, Len(matches) = 1
  PROVE  matching \cap InTree = {ActionTarget[1]}
<1>1. /\ queue \in Seq(Controls \X Nat) /\ visited \in Nat /\ matching \subseteq Controls
  BY DEF SearchTypes
<1>2. /\ IsTree(tree) /\ InTree \subseteq Controls /\ V \subseteq InTree
      /\ Cardinality(InTree) \in Nat /\ Cardinality(V) = visited
      /\ (Cardinality(V) >= Cardinality(InTree) => V = InTree)
  BY TreeFacts DEF Search
<1>3. queue = <<>> \/ visited >= MaxTreeControls
  BY <1>1, UiaAssumption DEF Walking, MatchLimit
<1>4. ASSUME queue = <<>> PROVE V = InTree
  <2>1. Queued = {}
    BY <1>4 DEF Queued
  <2>2. Root \in V /\ \A v \in V : Kids(tree, v) \subseteq V
    BY <2>1 DEF Search
  <2>3. V \in SUBSET Controls
    BY <1>2
  <2>4. \A c \in Controls : Kids(tree, c) \subseteq V
    BY <1>2, <2>2, <2>3 DEF IsTree
  <2>5. InTree \subseteq V
    BY <2>2, <2>4 DEF InTree
  <2> QED  BY <1>2, <2>5
<1>5. ASSUME visited >= MaxTreeControls PROVE V = InTree
  <2>1. Cardinality(V) >= Cardinality(InTree)
    BY <1>1, <1>2, <1>5, UiaAssumption DEF TreeFits
  <2> QED  BY <1>2, <2>1
<1>6. V = InTree
  BY <1>2, <1>3, <1>4, <1>5
<1>7. /\ matches[1][1] \in V \cap matching
      /\ \A x \in V \cap matching : matches[1][1] = x
  <2>1. \A i \in 1..Len(matches) : i = 1
    OBVIOUS
  <2>2. 1 \in 1..Len(matches)
    OBVIOUS
  <2> QED  BY <2>1, <2>2 DEF Search
<1> QED  BY <1>6, <1>7 DEF ActionTarget

(* The types over any visit, of a tree that fits or not.                   *)
LEMMA VisitTypes ==
  ASSUME SearchTypes, Visit
  PROVE  SearchTypes'
<1>1. /\ queue \in Seq(Controls \X Nat) /\ queue # <<>> /\ visited \in Nat
      /\ matches \in Seq(Controls \X Nat) /\ identity \in [Controls -> Nat]
      /\ tree \in [Controls -> Seq(Controls)] /\ upc = "walk"
  BY UiaAssumption DEF SearchTypes, Visit, Walking
<1>2. Len(queue) \in Nat /\ Len(queue) > 0 /\ 1 \in 1..Len(queue)
  BY <1>1, EmptySeq
<1>3. queue[1] \in Controls \X Nat /\ Head(queue) = queue[1]
  BY <1>1, <1>2, ElementOfSeq
<1>4. Tail(queue) \in Seq(Controls \X Nat) /\ Len(Tail(queue)) = Len(queue) - 1
  BY <1>1, HeadTailProperties
<1> DEFINE c == queue[1][1]
           depth == queue[1][2]
           kids == tree[c]
           room == IF depth < MaxTreeDepth /\ Capacity > 0 THEN Capacity ELSE 0
           most == IF room < Len(kids) THEN room ELSE Len(kids)
           taken == SubSeq(kids, 1, most)
           extra == [i \in 1..Len(taken) |-> <<taken[i], depth + 1>>]
<1>5. queue' = Tail(queue) \o extra
  BY <1>3 DEF Visit
<1>6. c \in Controls /\ depth \in Nat /\ kids \in Seq(Controls) /\ Len(kids) \in Nat
  BY <1>1, <1>3
<1>7. Capacity \in Int
  BY <1>1, <1>2, <1>4, UiaAssumption DEF Capacity
<1>8. room \in Nat
  BY <1>7
<1> HIDE DEF kids, room
<1>9. most \in Nat /\ most <= Len(kids)
  BY <1>6, <1>8
<1> HIDE DEF most
<1>10. taken \in Seq(Controls)
  <2>1. \A i \in 1..Len(kids) : kids[i] \in Controls
    BY <1>6, ElementOfSeq
  <2>2. \A i \in 1..most : kids[i] \in Controls
    BY <2>1, <1>6, <1>9
  <2>3. 1 \in Int /\ most \in Int
    BY <1>9
  <2> QED  BY <2>2, <2>3, SubSeqProperties
<1> HIDE DEF taken
<1>11. extra \in Seq(Controls \X Nat)
  <2>1. Len(taken) \in Nat /\ \A i \in 1..Len(taken) : taken[i] \in Controls
    BY <1>10, ElementOfSeq
  <2>2. extra \in [1..Len(taken) -> Controls \X Nat]
    BY <2>1, <1>6
  <2> HIDE DEF extra
  <2> QED  BY <2>1, <2>2
<1> HIDE DEF extra
<1>12. queue' \in Seq(Controls \X Nat)
  <2> DEFINE Entries == Controls \X Nat
             t == Tail(queue)
  <2>1. t \in Seq(Entries) /\ extra \in Seq(Entries) /\ queue' = t \o extra
    BY <1>4, <1>5, <1>11
  <2> HIDE DEF Entries, t
  <2>2. queue' \in Seq(Entries)
    BY ONLY <2>1, ConcatProperties
  <2> QED  BY <2>2 DEF Entries
<1>13. matches' \in Seq(Controls \X Nat)
  <2> DEFINE Entries == Controls \X Nat
             e == <<c, identity[c]>>
  <2>1. e \in Entries /\ matches \in Seq(Entries)
    BY <1>1, <1>6
  <2>2. matches' = Append(matches, e) \/ matches' = matches
    BY <1>3 DEF Visit
  <2> HIDE DEF Entries, e
  <2>3. matches' \in Seq(Entries)
    BY ONLY <2>1, <2>2, AppendProperties
  <2> QED  BY <2>3 DEF Entries
<1>14. /\ UNCHANGED <<upc, value, tree, matching, identity, uiaCall, rebuilds>>
       /\ visited' = visited + 1
  BY DEF Visit, KeepScene
<1> QED  BY <1>1, <1>12, <1>13, <1>14 DEF SearchTypes

(* The search of an undisturbed tree over every step.                      *)
LEMMA NextSearch ==
  ASSUME SearchInv, TargetInv, [UiaNext]_uiaVars
  PROVE  SearchInv'
<1> DEFINE Single == matching \cap InTree = {ActionTarget[1]}
           Late == upc \in {"guard", "revalidate", "apply", "focused", "set"} \/ value = "changed"
<1>0. SearchTypes
  BY DEF SearchInv
<1>k. ASSUME KeepScene PROVE (InTree' = InTree) /\ (TreeFits' <=> TreeFits)
                             /\ (Undisturbed' <=> Undisturbed)
  BY <1>k DEF KeepScene, InTree, Kids, TreeFits, Undisturbed
<1>l. ASSUME KeepScene, KeepWalk PROVE (Single' <=> Single) /\ \A V : Search(V)' <=> Search(V)
  <2>1. /\ UNCHANGED <<tree, matching, elevated, identity, uiaCall, rebuilds>>
        /\ UNCHANGED <<queue, visited, matches>> /\ InTree' = InTree
    BY <1>k, <1>l DEF KeepScene, KeepWalk
  <2> QED  BY <2>1 DEF Search, Queued, ActionTarget
<1>1. ASSUME NEW c \in Controls, Rebuild(c) PROVE SearchInv'
  <2>1. rebuilds' = rebuilds + 1 /\ rebuilds' \in Nat /\ rebuilds' # 0
    BY <1>0, <1>1 DEF Rebuild, SearchTypes
  <2>2. ~Undisturbed'
    BY <2>1 DEF Undisturbed
  <2>3. SearchTypes'
    BY <1>0, <1>1, <2>1 DEF Rebuild, SearchTypes
  <2> QED  BY <2>2, <2>3 DEF SearchInv
(* Every step but the first and the search itself.                         *)
<1>m. ASSUME KeepScene, KeepWalk, SearchTypes',
             upc' = "walk" => upc = "walk", Late' => Late PROVE SearchInv'
  BY <1>k, <1>l, <1>m DEF SearchInv
<1>2. ASSUME GiveUp \/ GuardWorker PROVE SearchInv'
  <2>1. KeepScene /\ KeepWalk /\ SearchTypes' /\ (upc' = "walk" => upc = "walk") /\ (Late' => Late)
    BY <1>0, <1>2 DEF GiveUp, GuardWorker, Ends, Step, KeepWalk, KeepScene, SearchTypes
  <2> QED  BY <2>1, <1>m
<1>3. ASSUME FindRoot PROVE SearchInv'
  <2>1. SearchTypes' /\ KeepScene /\ value' = value /\ visited' = 0 /\ matches' = <<>>
        /\ ((upc' = "walk" /\ queue' = <<<<Root, 0>>>>) \/ upc' = "end")
    <3>1. KeepScene /\ UNCHANGED <<visited, matches, value>> /\ upc = "root"
          /\ ((upc' = "walk" /\ queue' = <<<<Root, 0>>>>) \/ (upc' = "end" /\ queue' = queue))
      BY <1>3 DEF FindRoot, Ends, Step
    <3>2. <<<<Root, 0>>>> \in Seq(Controls \X Nat)
      BY UiaAssumption
    <3>3. queue' \in Seq(Controls \X Nat) /\ visited = 0 /\ matches = <<>>
      BY <1>0, <3>1, <3>2 DEF SearchTypes
    <3>4. SearchTypes'
      BY <1>0, <3>1, <3>3 DEF SearchTypes, KeepScene
    <3> QED  BY <3>1, <3>3, <3>4
  <2>2. value # "changed"
    BY <1>3 DEF TargetInv, FindRoot
  <2>3. upc' = "walk" => Search({})'
    <3> SUFFICES ASSUME upc' = "walk" PROVE Search({})'
      OBVIOUS
    <3>0. Len(queue') = 1 /\ queue'[1] = <<Root, 0>>
      BY <2>1
    <3>1. Len(queue') = 1 /\ queue'[1] = <<Root, 0>> /\ Queued' = {Root}
      BY <3>0 DEF Queued
    <3>2. Root \in InTree'
      BY DEF InTree
    <3>3. Cardinality({}) = 0
      BY FS_EmptySet
    <3> QED  BY <2>1, <3>1, <3>2, <3>3 DEF Search
  <2> QED  BY <2>1, <2>2, <2>3 DEF SearchInv
<1>4. ASSUME Visit PROVE SearchInv'
  <2>1. KeepScene /\ UNCHANGED <<upc, value, answer>> /\ upc = "walk" /\ value # "changed"
    BY <1>4 DEF Visit, TargetInv
  <2>2. ASSUME Undisturbed' PROVE \E V \in SUBSET Controls : Search(V)'
    <3>1. Undisturbed
      BY <2>1, <2>2, <1>k
    <3>2. PICK V \in SUBSET Controls : Search(V)
      BY <2>1, <3>1 DEF SearchInv
    <3>3. PICK c : c = queue[1][1]
      OBVIOUS
    <3>4. PICK W : W = V \cup {c}
      OBVIOUS
    <3>5. W \in SUBSET Controls /\ Search(W)'
      BY <1>0, <1>4, <3>1, <3>2, <3>3, <3>4, VisitSearch DEF Undisturbed
    <3> QED  BY <3>5
  <2>3. SearchTypes'
    BY <1>0, <1>4, VisitTypes
  <2> QED  BY <2>1, <2>2, <2>3 DEF SearchInv
<1>5. ASSUME Resolved PROVE SearchInv'
  <2>1. KeepScene /\ KeepWalk /\ upc = "walk" /\ value' = value /\ value # "changed"
        /\ ~Walking /\ (upc' = "end" \/ (upc' = "guard" /\ (uiaCall = "find" \/ Len(matches) = 1)))
    <3>1. value # "changed"
      BY <1>5 DEF Resolved, TargetInv
    <3> QED  BY <1>5, <3>1 DEF Resolved, Step, Ends
  <2>2. SearchTypes'
    BY <2>1, <1>0 DEF SearchTypes, KeepScene, KeepWalk
  <2>3. ASSUME Undisturbed', upc' = "guard" PROVE Single'
    <3>1. Undisturbed
      BY <2>1, <2>3, <1>k
    <3>2. PICK V \in SUBSET Controls : Search(V)
      BY <2>1, <3>1 DEF SearchInv
    <3>3. Single
      BY <1>0, <2>1, <2>3, <3>1, <3>2, FoundSingle DEF Undisturbed
    <3> QED  BY <2>1, <3>3, <1>l
  <2> QED  BY <2>1, <2>2, <2>3 DEF SearchInv
<1>6. ASSUME GuardTarget PROVE SearchInv'
  <2>1. KeepScene /\ KeepWalk /\ SearchTypes' /\ (upc' = "walk" => upc = "walk") /\ (Late' => Late)
    BY <1>0, <1>6 DEF GuardTarget, Ends, Step, KeepWalk, KeepScene, SearchTypes
  <2> QED  BY <2>1, <1>m
<1>7. ASSUME Revalidate \/ Invoke \/ Focus \/ SetValue \/ Publish PROVE SearchInv'
  <2>1. KeepScene /\ KeepWalk /\ SearchTypes' /\ (upc' = "walk" => upc = "walk") /\ (Late' => Late)
    BY <1>0, <1>7 DEF Revalidate, Invoke, Focus, SetValue, Publish, Ends, Step, KeepWalk,
       KeepScene, SearchTypes
  <2> QED  BY <2>1, <1>m
<1>8. ASSUME UNCHANGED uiaVars PROVE SearchInv'
  <2>1. KeepScene /\ KeepWalk /\ SearchTypes' /\ (upc' = "walk" => upc = "walk") /\ (Late' => Late)
    BY <1>0, <1>8 DEF uiaVars, KeepWalk, KeepScene, SearchTypes
  <2> QED  BY <2>1, <1>m
<1> QED
  BY <1>1, <1>2, <1>3, <1>4, <1>5, <1>6, <1>7, <1>8 DEF UiaNext

(* A control is changed only if it is the single match of the whole tree,  *)
(* for every tree within the search limits that the application leaves     *)
(* alone, and never one of an elevated process (_resolve_action_target,    *)
(* resolve).                                                               *)
THEOREM SingleTarget == Spec => []UniqueTarget
<1>1. Init => TargetInv /\ SearchInv
  BY UiaAssumption DEF Init, UiaInit, TargetInv, SearchInv, SearchTypes
<1>2. TargetInv /\ SearchInv /\ [Next]_vars => TargetInv' /\ SearchInv'
  BY AdapterSteps, NextTarget, NextSearch
<1>3. TargetInv /\ SearchInv => UniqueTarget
  <2> SUFFICES ASSUME TargetInv, SearchInv PROVE UniqueTarget
    OBVIOUS
  <2>1. NeverElevated
    BY DEF TargetInv, OneTarget, NeverElevated
  <2>2. value = "changed" => uiaCall # "find"
    BY DEF SearchInv, SearchTypes
  <2> QED
    BY <2>1, <2>2 DEF SearchInv, Undisturbed, UniqueTarget
<1> QED
  BY <1>1, <1>2, <1>3, PTL DEF Spec
=============================================================================
