----------------------------- MODULE UiaActions -----------------------------
(***************************************************************************)
(* UiaWorker.find and action inside the desktop gate: a bounded search of  *)
(* the UI Automation tree, the checks of the one control found, and the    *)
(* pattern applied to it, while the application rebuilds its controls.     *)
(***************************************************************************)
EXTENDS Naturals, Sequences, FiniteSets

CONSTANTS
    Controls, Root,
    Trees,            \* the children each control may have, in order
    MaxTreeControls, MaxTreeDepth,
    MaxRebuilds       \* bound: changes of the application

Kids(t, c) == {t[c][i] : i \in 1..Len(t[c])}

(* What UI Automation's control view is: no control is a child twice, and  *)
(* all are below the root.                                                 *)
IsTree(t) ==
    /\ \A c \in Controls : Root \notin Kids(t, c)
    /\ \A c, d \in Controls : \A i \in 1..Len(t[c]), j \in 1..Len(t[d]) :
         t[c][i] = t[d][j] => c = d /\ i = j
    /\ \A S \in SUBSET Controls :
         Root \in S /\ (\A c \in S : Kids(t, c) \subseteq S) =>
           \A c \in Controls : Kids(t, c) \subseteq S

ASSUME UiaAssumption ==
    /\ Root \in Controls /\ IsFiniteSet(Controls)
    /\ Trees \subseteq [Controls -> Seq(Controls)] /\ \A t \in Trees : IsTree(t)
    /\ MaxTreeControls \in Nat \ {0} /\ MaxTreeDepth \in Nat
    /\ MaxRebuilds \in Nat

VARIABLES
    tree,       \* the window's tree
    matching,   \* controls the query selects
    elevated,   \* controls of an elevated process
    identity,   \* process, handle and runtime id of each control
    uiaCall,    \* "find", or the action
    upc,
    queue,      \* the breadth-first queue, with depths
    visited,
    matches,    \* resolved targets with their pinned identities
    value,      \* what the call has changed
    answer,     \* its result
    rebuilds

uiaVars == <<tree, matching, elevated, identity, uiaCall, upc, queue, visited,
             matches, value, answer, rebuilds>>

UiaCalls == {"find", "invoke", "set_text"}
UiaErrors == {"action_not_supported", "ambiguous_selector", "control_not_found",
              "elevated_target", "emergency_stop", "operation_timed_out",
              "secure_desktop", "state_conflict"}

UiaTypeOK ==
    /\ tree \in Trees
    /\ matching \subseteq Controls /\ elevated \subseteq Controls
    /\ identity \in [Controls -> 0..MaxRebuilds]
    /\ uiaCall \in UiaCalls
    /\ upc \in {"start", "root", "walk", "guard", "revalidate", "apply", "focused",
                "set", "end"}
    /\ queue \in Seq(Controls \X Nat) /\ visited \in Nat
    /\ matches \in Seq(Controls \X (0..MaxRebuilds))
    /\ value \in {"same", "focused", "changed"}
    /\ answer \in UiaErrors \cup {"none", "ok"}
    /\ rebuilds \in 0..MaxRebuilds

UiaInit ==
    /\ tree \in Trees
    /\ matching \in SUBSET Controls /\ elevated \in SUBSET Controls
    /\ identity = [c \in Controls |-> 0]
    /\ uiaCall \in UiaCalls /\ upc = "start"
    /\ queue = <<>> /\ visited = 0 /\ matches = <<>>
    /\ value = "same" /\ answer = "none" /\ rebuilds = 0

(* The application: a control gets a new identity, or another text.        *)
Rebuild(c) ==
    /\ rebuilds < MaxRebuilds
    /\ rebuilds' = rebuilds + 1
    /\ \/ identity' = [identity EXCEPT ![c] = @ + 1] /\ UNCHANGED matching
       \/ /\ matching' = IF c \in matching THEN matching \ {c} ELSE matching \cup {c}
          /\ UNCHANGED identity
    /\ UNCHANGED <<tree, elevated, uiaCall, upc, queue, visited, matches, value, answer>>

Ends(result) ==
    /\ upc' = "end"
    /\ answer' = result

Step(from, to) ==
    /\ upc = from /\ upc' = to
    /\ UNCHANGED answer

KeepWalk == UNCHANGED <<queue, visited, matches>>
KeepScene == UNCHANGED <<tree, matching, elevated, identity, uiaCall, rebuilds>>

(* UiaExecution.check, at any of its many places; the marker and the       *)
(* secure desktop are looked at before the search.                         *)
GiveUp ==
    /\ upc # "end"
    /\ \/ Ends("operation_timed_out")
       \/ upc \in {"start", "root"} /\ \E e \in {"emergency_stop", "secure_desktop"} : Ends(e)
    /\ UNCHANGED value /\ KeepWalk /\ KeepScene

GuardWorker ==
    /\ Step("start", "root")
    /\ UNCHANGED value /\ KeepWalk /\ KeepScene

(* _root: one window, or none, or several.                                 *)
FindRoot ==
    /\ upc = "root"
    /\ \/ /\ Step("root", "walk")
          /\ queue' = <<<<Root, 0>>>>
       \/ /\ \E e \in {"control_not_found", "ambiguous_selector", "elevated_target"} :
                Ends(e)
          /\ UNCHANGED queue
    /\ UNCHANGED <<visited, matches, value>> /\ KeepScene

(* Mutant: one match is enough for an action.                              *)
MatchLimitOne == IF uiaCall = "find" THEN Cardinality(Controls) ELSE 1

MatchLimit == IF uiaCall = "find" THEN Cardinality(Controls) ELSE 2

Walking == queue # <<>> /\ visited < MaxTreeControls /\ Len(matches) < MatchLimit

(* How many children may still be queued, the control just taken counted.  *)
Capacity == MaxTreeControls - (visited + 1) - Len(Tail(queue))

(* resolve: the next control of the queue, and its children as far as the  *)
(* capacity goes.                                                          *)
Visit ==
    /\ upc = "walk" /\ Walking
    /\ LET c == Head(queue)[1]
           depth == Head(queue)[2]
           kids == tree[c]
           room == IF depth < MaxTreeDepth /\ Capacity > 0 THEN Capacity ELSE 0
           taken == SubSeq(kids, 1, IF room < Len(kids) THEN room ELSE Len(kids))
       IN  /\ visited' = visited + 1
           /\ matches' = IF c \in matching THEN Append(matches, <<c, identity[c]>>)
                         ELSE matches
           /\ queue' = Tail(queue) \o [i \in 1..Len(taken) |-> <<taken[i], depth + 1>>]
    /\ UNCHANGED <<upc, value, answer>> /\ KeepScene

ActionTarget == matches[1]
TargetSame == identity[ActionTarget[1]] = ActionTarget[2]

(* _resolve_action_target, or the end of find.                             *)
Resolved ==
    /\ upc = "walk" /\ ~Walking
    /\ IF uiaCall = "find" \/ Len(matches) = 1 THEN Step("walk", "guard")
       ELSE Ends(IF matches = <<>> THEN "control_not_found" ELSE "ambiguous_selector")
    /\ UNCHANGED value /\ KeepWalk /\ KeepScene

GuardTarget ==
    /\ upc = "guard"
    /\ IF \E i \in 1..Len(matches) : matches[i][1] \in elevated
       THEN Ends("elevated_target")
       ELSE IF uiaCall = "find" THEN Ends("ok") ELSE Step("guard", "revalidate")
    /\ UNCHANGED value /\ KeepWalk /\ KeepScene

(* The gate reads the marker again, and revalidate the identity.           *)
Revalidate ==
    /\ upc = "revalidate"
    /\ \/ TargetSame /\ Step("revalidate", "apply")
       \/ Ends("state_conflict")
       \/ Ends("emergency_stop")
    /\ UNCHANGED value /\ KeepWalk /\ KeepScene

(* apply: the wrapper is pinned, so a control that is gone is an error.    *)
Invoke ==
    /\ upc = "apply" /\ uiaCall = "invoke"
    /\ \/ TargetSame /\ Ends("ok") /\ value' = "changed"
       \/ Ends("action_not_supported") /\ UNCHANGED value
       \/ ~TargetSame /\ Ends("elevated_target") /\ UNCHANGED value
    /\ KeepWalk /\ KeepScene

(* set_text_when_ready: focus, ...                                         *)
Focus ==
    /\ upc = "apply" /\ uiaCall = "set_text"
    /\ \/ Step("apply", "focused") /\ value' = "focused"
       \/ ~TargetSame /\ Ends("state_conflict") /\ UNCHANGED value
    /\ KeepWalk /\ KeepScene

(* ... the same control still?, SetValue, ...                              *)
SetValue ==
    /\ upc = "focused"
    /\ \/ TargetSame /\ Step("focused", "set") /\ value' = "changed"
       \/ ~TargetSame /\ Ends("state_conflict") /\ UNCHANGED value
       \/ Ends("action_not_supported") /\ UNCHANGED value
    /\ KeepWalk /\ KeepScene

(* ... and wait until the value is published.                              *)
Publish ==
    /\ upc = "set"
    /\ \/ Ends("ok")
       \/ ~TargetSame /\ Ends("elevated_target")
    /\ UNCHANGED value /\ KeepWalk /\ KeepScene

UiaNext ==
    \/ \E c \in Controls : Rebuild(c)
    \/ GiveUp \/ GuardWorker \/ FindRoot \/ Visit \/ Resolved \/ GuardTarget
    \/ Revalidate \/ Invoke \/ Focus \/ SetValue \/ Publish
-----------------------------------------------------------------------------

InTree == {Root} \cup UNION {Kids(tree, c) : c \in Controls}
TreeFits ==
    Cardinality(InTree) <= MaxTreeControls /\ Cardinality(InTree) <= MaxTreeDepth + 1

(* No control of an elevated process is changed (_resolve_action_target).  *)
NeverElevated == value = "changed" => ActionTarget[1] \notin elevated

(* A control is changed only if it is the single match of the whole tree,  *)
(* as long as the tree fits and the application leaves it alone, and never *)
(* one of an elevated process (_resolve_action_target, resolve).           *)
UniqueTarget ==
    /\ NeverElevated
    /\ value = "changed" /\ TreeFits /\ rebuilds = 0 =>
         matching \cap InTree = {ActionTarget[1]}
=============================================================================
