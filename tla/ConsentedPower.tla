-------------------------- MODULE ConsentedPower ---------------------------
(***************************************************************************)
(* What reboot and shutdown promise, whatever carries them out: a power    *)
(* action is performed only if the user consented to that very action,     *)
(* and a consent is good for one performance.                              *)
(***************************************************************************)
EXTENDS Sequences

CONSTANTS
    Asks,       \* the questions put to the user
    Actions     \* power actions (tool and arguments)

VARIABLES
    consents,   \* consents given and not used: pairs of ask and action
    performed   \* history of the consents that were acted upon

abstractVars == <<consents, performed>>

Init == consents = {} /\ performed = <<>>

(* The user is asked about an action and agrees.                           *)
Consent(a, x) ==
    /\ consents' = consents \cup {<<a, x>>}
    /\ UNCHANGED performed

(* The action is performed, which uses up the consent.                     *)
Perform(a, x) ==
    /\ <<a, x>> \in consents
    /\ consents' = consents \ {<<a, x>>}
    /\ performed' = Append(performed, <<a, x>>)

Next == \E a \in Asks, x \in Actions : Consent(a, x) \/ Perform(a, x)

Spec == Init /\ [][Next]_abstractVars
=============================================================================
