--------------------------- MODULE FifoSemaphore ---------------------------
(***************************************************************************)
(* What the heavy-responses queue promises its callers: per limit key a    *)
(* semaphore of Slots permits.  A permit that becomes free goes to the     *)
(* caller that has waited longest; a newcomer takes one only when nobody   *)
(* waits; a caller may give up waiting.  Nothing is said of how many may   *)
(* wait, nor of timers and signals.                                        *)
(***************************************************************************)
EXTENDS Naturals, Sequences, FiniteSets, Functions

CONSTANTS Keys, Callers, Slots

VARIABLES
    holders,   \* per key, the callers that hold a permit
    line       \* per key, the callers that wait, the first to come first

Init ==
    /\ holders = [k \in Keys |-> {}]
    /\ line = [k \in Keys |-> <<>>]

Enter(k, r) ==
    /\ line[k] = <<>> /\ Cardinality(holders[k]) < Slots
    /\ holders' = [holders EXCEPT ![k] = @ \cup {r}]
    /\ UNCHANGED line

Join(k, r) ==
    /\ Cardinality(holders[k]) = Slots
    /\ line' = [line EXCEPT ![k] = Append(@, r)]
    /\ UNCHANGED holders

GiveUp(k, i) ==
    /\ line' = [line EXCEPT ![k] = SubSeq(@, 1, i - 1) \o SubSeq(@, i + 1, Len(@))]
    /\ UNCHANGED holders

(* The permit passes to the head of the line without ever being free. *)
HandOver(k, r) ==
    /\ line[k] # <<>>
    /\ holders' = [holders EXCEPT ![k] = (@ \ {r}) \cup {Head(line[k])}]
    /\ line' = [line EXCEPT ![k] = Tail(@)]

Leave(k, r) ==
    /\ line[k] = <<>>
    /\ holders' = [holders EXCEPT ![k] = @ \ {r}]
    /\ UNCHANGED line

Next ==
    \E k \in Keys :
        \/ \E r \in Callers \ (holders[k] \cup Range(line[k])) : Enter(k, r) \/ Join(k, r)
        \/ \E i \in DOMAIN line[k] : GiveUp(k, i)
        \/ \E r \in holders[k] : HandOver(k, r) \/ Leave(k, r)

Spec == Init /\ [][Next]_<<holders, line>>
=============================================================================
