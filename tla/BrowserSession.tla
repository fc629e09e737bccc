--------------------------- MODULE BrowserSession ---------------------------
(***************************************************************************)
(* BrowserWorker: calls from several threads, one at a time through the    *)
(* submission lock, each a task on the portal's event loop that drives one *)
(* persistent Chromium; cancel() and close() strike the task under way.    *)
(* A struck call returns at once, while its task unwinds beside the next.  *)
(***************************************************************************)
EXTENDS Naturals, Sequences, FiniteSets

CONSTANTS
    BrowserCalls,    \* calls of the Worker
    NoCall,
    MaxContent,      \* max_output_bytes
    Letters,
    Pages,           \* texts a page may show
    SessionSecrets,  \* the session's cookies, passwords and storage entries, ...
    NewSecrets       \* ... and those the site may replace them by

ASSUME BrowserAssumption ==
    /\ NoCall \notin BrowserCalls /\ MaxContent \in Nat
    /\ Pages \subseteq Seq(Letters) /\ Pages # {}
    /\ SessionSecrets \cup NewSecrets \subseteq Seq(Letters) \ {<<>>}

VARIABLES
    errand,    \* what each call does
    bpc,       \* where its thread is
    lock,      \* _submission_lock
    active,    \* _active_operation, _active_cancel
    task,      \* where its task is
    struck,    \* calls whose task has been cancelled
    guard,     \* _profile_guard is held
    context,   \* _context: the call that launched it
    mine,      \* the context a _close has taken
    alive,     \* Chromium processes, by the call that launched them
    shown,     \* page text a task has read
    secrets,   \* what the session keeps secret
    output,    \* results: where on the page each letter stood, or Redacted
    asked,     \* operations somebody wanted cancelled
    swept,     \* operations a close() found active
    brokenOff  \* a launch was cut short or a stop failed

browserVars == <<errand, bpc, lock, active, task, struck, guard, context, mine,
                 alive, shown, secrets, output, asked, swept, brokenOff>>

Errands == {"open", "use", "close"}
Redacted == 0

BrowserTypeOK ==
    /\ errand \in [BrowserCalls -> Errands]
    /\ bpc \in [BrowserCalls -> {"new", "sweeping", "submitted", "active", "done"}]
    /\ {lock, active, context} \subseteq BrowserCalls \cup {NoCall}
    /\ task \in [BrowserCalls -> {"none", "queued", "starting", "launching",
                   "onPage", "collecting", "closing", "stopping", "over"}]
    /\ struck \subseteq BrowserCalls /\ alive \subseteq BrowserCalls
    /\ asked \subseteq BrowserCalls /\ swept \subseteq BrowserCalls
    /\ mine \in [BrowserCalls -> BrowserCalls \cup {NoCall}]
    /\ guard \in BOOLEAN /\ brokenOff \in BOOLEAN
    /\ secrets \in {SessionSecrets, NewSecrets} /\ shown \in Pages
    /\ output \in [BrowserCalls -> Seq(Nat)]

BrowserInit ==
    /\ errand \in [BrowserCalls -> Errands]
    /\ bpc = [c \in BrowserCalls |-> "new"]
    /\ lock = NoCall /\ active = NoCall /\ context = NoCall
    /\ task = [c \in BrowserCalls |-> "none"]
    /\ struck = {} /\ alive = {} /\ asked = {} /\ swept = {}
    /\ mine = [c \in BrowserCalls |-> NoCall]
    /\ guard = TRUE /\ brokenOff = FALSE
    /\ secrets = SessionSecrets /\ shown \in Pages
    /\ output = [c \in BrowserCalls |-> <<>>]

threadVars == <<bpc, lock, active>>
contextVars == <<guard, context, mine, alive>>
textVars == <<shown, secrets, output>>
-----------------------------------------------------------------------------
(* future.cancel: of no effect once the task is over.                      *)
Strike(c) == struck' = IF c # NoCall /\ task[c] # "over" THEN struck \cup {c}
                       ELSE struck

(* Mutant: whatever is active is cancelled.                                *)
CancelActive(c) ==
    /\ active # NoCall
    /\ asked' = asked \cup {c}
    /\ Strike(active)
    /\ UNCHANGED <<errand, threadVars, task, contextVars, textVars, swept, brokenOff>>

(* cancel(); when nothing is active it has no effect, now or later.        *)
CancelCall(c) ==
    /\ active # NoCall
    /\ asked' = asked \cup {c}
    /\ Strike(IF active = c THEN c ELSE NoCall)
    /\ UNCHANGED <<errand, threadVars, task, contextVars, textVars, swept, brokenOff>>

(* close() strikes the operation under way before it gets in line.         *)
Sweep(c) ==
    /\ bpc[c] = "new" /\ errand[c] = "close"
    /\ bpc' = [bpc EXCEPT ![c] = "sweeping"]
    /\ Strike(active)
    /\ swept' = swept \cup ({active} \ {NoCall})
    /\ UNCHANGED <<errand, lock, active, task, contextVars, textVars, asked, brokenOff>>

InLine(c) == bpc[c] = IF errand[c] = "close" THEN "sweeping" ELSE "new"

(* _run: the lock, start_task_soon, ...                                    *)
Submit(c) ==
    /\ InLine(c) /\ lock = NoCall
    /\ lock' = c
    /\ bpc' = [bpc EXCEPT ![c] = "submitted"]
    /\ task' = [task EXCEPT ![c] = "queued"]
    /\ UNCHANGED <<errand, active, struck, contextVars, textVars, asked, swept, brokenOff>>

(* ... the task can be cancelled from here on, ...                         *)
Activate(c) ==
    /\ bpc[c] = "submitted"
    /\ bpc' = [bpc EXCEPT ![c] = "active"]
    /\ active' = c
    /\ UNCHANGED <<errand, lock, task, struck, contextVars, textVars, asked, swept,
                   brokenOff>>

(* ... and future.result() returns, or raises as soon as it is cancelled.  *)
Return(c) ==
    /\ bpc[c] = "active"
    /\ task[c] = "over" \/ c \in struck
    /\ bpc' = [bpc EXCEPT ![c] = "done"]
    /\ active' = NoCall /\ lock' = NoCall
    /\ UNCHANGED <<errand, task, struck, contextVars, textVars, asked, swept, brokenOff>>
-----------------------------------------------------------------------------
(* The tasks.  A struck one is thrown out of the next await.               *)
Advance(c, from, to) ==
    /\ task[c] = from
    /\ task' = [task EXCEPT ![c] = to]
    /\ UNCHANGED <<errand, threadVars, struck, asked, swept>>

(* _open: the profile guard, unless it is held; it may refuse.             *)
OpenBegin(c) ==
    /\ errand[c] = "open"
    /\ \/ /\ context = NoCall
          /\ Advance(c, "queued", "starting")
          /\ guard' = TRUE
       \/ /\ context = NoCall /\ ~guard
          /\ Advance(c, "queued", "over")
          /\ UNCHANGED guard
       \/ /\ context # NoCall
          /\ Advance(c, "queued", "onPage")
          /\ UNCHANGED guard
    /\ UNCHANGED <<context, mine, alive, textVars, brokenOff>>

(* async_playwright().start(); its errors release the guard, a             *)
(* cancellation does not.                                                  *)
PlaywrightStarts(c) ==
    /\ \/ /\ c \notin struck
          /\ Advance(c, "starting", "launching")
          /\ UNCHANGED <<guard, brokenOff>>
       \/ /\ c \notin struck
          /\ Advance(c, "starting", "over")
          /\ guard' = FALSE
          /\ UNCHANGED brokenOff
       \/ /\ c \in struck
          /\ Advance(c, "starting", "over")
          /\ brokenOff' = TRUE
          /\ UNCHANGED guard
    /\ UNCHANGED <<context, mine, alive, textVars>>

(* launch_persistent_context: a profile in use is an error.                *)
ContextLaunches(c) ==
    /\ \/ /\ c \notin struck /\ alive = {}
          /\ Advance(c, "launching", "onPage")
          /\ alive' = {c} /\ context' = c
          /\ UNCHANGED <<guard, brokenOff>>
       \/ /\ c \notin struck
          /\ Advance(c, "launching", "over")
          /\ guard' = FALSE
          /\ UNCHANGED <<alive, context, brokenOff>>
       \/ /\ c \in struck
          /\ Advance(c, "launching", "over")
          /\ brokenOff' = TRUE
          /\ alive' \in {alive, IF alive = {} THEN {c} ELSE alive}
          /\ UNCHANGED <<guard, context>>
    /\ UNCHANGED <<mine, textVars>>

(* page.goto, click, fill: in the end, in time or struck.                  *)
Navigate(c) ==
    /\ Advance(c, "onPage", "over")
    /\ UNCHANGED <<contextVars, textVars, brokenOff>>

(* _act; _extract, _evaluate: the page's text, ...                         *)
UsePage(c) ==
    /\ errand[c] = "use"
    /\ \E next \in {"onPage", "collecting"} :
         Advance(c, "queued", IF context = NoCall THEN "over" ELSE next)
    /\ UNCHANGED <<contextVars, textVars, brokenOff>>

Bound(text) == SubSeq(text, 1, IF Len(text) < MaxContent THEN Len(text) ELSE MaxContent)

(* The places where a text holds a secret, from letter r[1] to r[2].       *)
Found(text) ==
    {r \in (1..Len(text)) \X (1..Len(text)) :
        r[1] <= r[2] /\ SubSeq(text, r[1], r[2]) \in secrets}

Overlap(r, q) == r[1] <= q[2] /\ q[1] <= r[2]
Covers(r, q) == r[1] <= q[1] /\ q[2] <= r[2]

(* Mutant: the shorter secrets first.                                      *)
BeforeByShort(q, r) == q[2] - q[1] <= r[2] - r[1]

(* The longer secrets first; among equals any order.                       *)
Before(q, r) == q[2] - q[1] >= r[2] - r[1]

(* What str.replace may find, secret by secret: no two that overlap, and   *)
(* all but those that have lost letters to one before them.                *)
Replaced(text) ==
    {R \in SUBSET Found(text) :
        /\ \A r, q \in R : r # q => ~Overlap(r, q)
        /\ \A r \in Found(text) \ R : \E q \in R : Overlap(q, r) /\ Before(q, r)}

(* One mark stays for each.                                                *)
Kept(text, R) == {p \in 1..Len(text) : \A r \in R : ~(r[1] < p /\ p <= r[2])}
InOrder(S) ==
    {f \in [1..Cardinality(S) -> S] : \A i, j \in DOMAIN f : i < j => f[i] < f[j]}
Marked(f, R) == [i \in DOMAIN f |-> IF \E r \in R : r[1] = f[i] THEN Redacted ELSE f[i]]

(* redact_browser_text.                                                    *)
Redact(text) ==
    UNION {{Marked(f, R) : f \in InOrder(Kept(text, R))} : R \in Replaced(text)}

(* Mutant: the text is cut first, and then searched for secrets.           *)
ContentResultCut(text) == Redact(Bound(text))

(* _content_result.                                                        *)
ContentResult(text) == {Bound(t) : t \in Redact(text)}

(* _evaluate's: a text over the limit is an error.                         *)
EvaluateResult(text) == IF Len(text) > MaxContent THEN {<<>>} ELSE Redact(text)

(* ... and the session's secrets, as they are by then.                     *)
CollectSecrets(c) ==
    /\ Advance(c, "collecting", "over")
    /\ \E result \in ContentResult(shown) \cup EvaluateResult(shown) :
         output' = IF c \in struck THEN output ELSE [output EXCEPT ![c] = result]
    /\ UNCHANGED <<contextVars, shown, secrets, brokenOff>>

(* The site gives the session other secrets, while somebody looks.         *)
Rotate ==
    /\ \E c \in BrowserCalls : task[c] = "collecting"
    /\ secrets' = NewSecrets /\ secrets # NewSecrets
    /\ UNCHANGED <<errand, threadVars, task, struck, contextVars, shown, output,
                   asked, swept, brokenOff>>

(* Mutant: the guard goes before the browser.                              *)
TakeContextReleased(c) ==
    /\ errand[c] = "close"
    /\ Advance(c, "queued", IF context = NoCall THEN "over" ELSE "closing")
    /\ mine' = [mine EXCEPT ![c] = context]
    /\ context' = NoCall
    /\ guard' = FALSE
    /\ UNCHANGED <<alive, textVars, brokenOff>>

(* _close: the fields are cleared, ...                                     *)
TakeContext(c) ==
    /\ errand[c] = "close"
    /\ Advance(c, "queued", IF context = NoCall THEN "over" ELSE "closing")
    /\ mine' = [mine EXCEPT ![c] = context]
    /\ context' = NoCall
    /\ guard' = (context # NoCall /\ guard)
    /\ UNCHANGED <<alive, textVars, brokenOff>>

(* ... context.close, ...                                                  *)
ContextCloses(c) ==
    /\ Advance(c, "closing", "stopping")
    /\ alive' \in {alive, alive \ {mine[c]}}
    /\ UNCHANGED <<guard, context, mine, textVars, brokenOff>>

(* ... playwright.stop, which ends the browser unless it is struck or      *)
(* fails, and in any case _release_profile_guard.                          *)
PlaywrightStops(c) ==
    /\ Advance(c, "stopping", "over")
    /\ guard' = FALSE
    /\ \/ /\ c \notin struck
          /\ alive' = alive \ {mine[c]}
          /\ UNCHANGED brokenOff
       \/ alive' = alive /\ brokenOff' = TRUE
    /\ UNCHANGED <<context, mine, textVars>>

TaskStep(c) ==
    \/ OpenBegin(c) \/ PlaywrightStarts(c) \/ ContextLaunches(c) \/ Navigate(c)
    \/ UsePage(c) \/ CollectSecrets(c)
    \/ TakeContext(c) \/ ContextCloses(c) \/ PlaywrightStops(c)

BrowserNext ==
    \/ \E c \in BrowserCalls :
         \/ CancelCall(c) \/ Sweep(c) \/ Submit(c) \/ Activate(c) \/ Return(c)
         \/ TaskStep(c)
    \/ Rotate
-----------------------------------------------------------------------------
OnLoop(c) == task[c] \notin {"none", "over"}

(* At most one task that nobody has cancelled is on the loop, whichever    *)
(* thread comes and whatever is cancelled (_run's submission lock).        *)
Serialized ==
    \A c, d \in BrowserCalls : c # d /\ OnLoop(c) /\ OnLoop(d) =>
        {c, d} \cap struck # {}

(* A task is only ever cancelled by a cancel() of its own operation, or by *)
(* a close() that found it active (cancel, close, _active_operation).      *)
CancelsOwn == struck \subseteq asked \cup swept

(* Unless a launch was broken off or a close was struck or failed, every   *)
(* browser process is the current context or is being closed, and the      *)
(* profile stays guarded while it lives (_open's error path, _close,       *)
(* BrowserProfileGuard).                                                   *)
GuardedBrowser ==
    ~brokenOff /\ (\A c \in struck : errand[c] # "close") => \A b \in alive :
        /\ guard
        /\ \/ context = b
           \/ \E c \in BrowserCalls : task[c] \in {"closing", "stopping"} /\ mine[c] = b

(* Letter p of the page belongs to a secret the session still has, and no  *)
(* two secrets on the page overlap but where one is part of the other.     *)
Secret(p) ==
    /\ secrets = SessionSecrets
    /\ \E r \in Found(shown) : r[1] <= p /\ p <= r[2]
    /\ \A r, q \in Found(shown) : Overlap(r, q) => Covers(r, q) \/ Covers(q, r)

(* No letter of a secret the session has when it is asked leaves the       *)
(* Worker, however the text is cut and whichever secrets are parts of      *)
(* others; one that was replaced since the text was read may               *)
(* (_content_result, redact_browser_text, bounded_utf8).                   *)
SecretsStay ==
    \A c \in BrowserCalls : \A i \in DOMAIN output[c] : ~Secret(output[c][i])
=============================================================================
