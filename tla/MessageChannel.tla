--------------------------- MODULE MessageChannel --------------------------
(***************************************************************************)
(* What a direction of a pipe connection promises the code above it: whole *)
(* messages, in the order they were written, none lost in between, until   *)
(* the channel fails; after a failure the receiver gets nothing more.      *)
(* Messages that are still written when the sender has begun to close the  *)
(* connection come after all others, at most once, and may be lost.        *)
(***************************************************************************)
EXTENDS Naturals, Sequences

CONSTANT Messages

VARIABLES
    sent,       \* messages completely written before the close, in order
    late,       \* messages completely written after it began
    received,   \* messages handed to the reader, in order
    ending,     \* the sender has begun to close the connection
    up          \* FALSE once the reader has given the connection up

channel == <<sent, late, received, ending, up>>

Init ==
    /\ sent = <<>> /\ late = {} /\ received = <<>>
    /\ ending = FALSE /\ up = TRUE

Send(m) ==
    /\ ~ending
    /\ sent' = Append(sent, m)
    /\ UNCHANGED <<late, received, ending, up>>

SendLate(m) ==
    /\ ending
    /\ late' = late \cup {m}
    /\ UNCHANGED <<sent, received, ending, up>>

Receive ==
    /\ up
    /\ Len(received) < Len(sent)
    /\ received' = Append(received, sent[Len(received) + 1])
    /\ UNCHANGED <<sent, late, ending, up>>

ReceiveLate(m) ==
    /\ up
    /\ Len(received) >= Len(sent)
    /\ m \in late /\ \A i \in 1..Len(received) : received[i] # m
    /\ received' = Append(received, m)
    /\ UNCHANGED <<sent, late, ending, up>>

Close ==
    /\ ~ending
    /\ ending' = TRUE
    /\ UNCHANGED <<sent, late, received, up>>

Fail ==
    /\ up
    /\ up' = FALSE
    /\ UNCHANGED <<sent, late, received, ending>>

Next ==
    \/ \E m \in Messages : Send(m) \/ SendLate(m) \/ ReceiveLate(m)
    \/ Receive \/ Close \/ Fail

Spec == Init /\ [][Next]_channel
=============================================================================
