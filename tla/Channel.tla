------------------------------ MODULE Channel ------------------------------
(***************************************************************************)
(* What a writer, a memory and a reader promise together: the items sent   *)
(* arrive in order and unchanged, from the first one up to the one that    *)
(* did not fit the memory.  There is no bit, byte, cache or position here. *)
(***************************************************************************)
EXTENDS Naturals, Sequences

CONSTANT Items  \* what can be sent

VARIABLES
    sent,      \* the items sent so far
    closed,    \* the sender has finished
    intact,    \* it has been told that everything fitted
    arriving,  \* the places of the items that will arrive, once closed
    got,       \* the items that have arrived
    done       \* the receiver has stopped

vars == << sent, closed, intact, arriving, got, done >>

Init ==
    /\ sent = << >>
    /\ got = << >>
    /\ arriving = {}
    /\ intact = TRUE
    /\ closed = FALSE
    /\ done = FALSE

\* An item is sent, or its sending is refused; either may find that there
\* is no more room.
Send ==
    /\ ~ closed
    /\ \/ UNCHANGED sent
       \/ /\ sent' \in Seq(Items)
          /\ Len(sent') = Len(sent) + 1
          /\ SubSeq(sent', 1, Len(sent)) = sent
    /\ intact' \in {intact, FALSE}
    /\ UNCHANGED << closed, arriving, got, done >>

Close ==
    /\ ~ closed
    /\ closed' = TRUE
    /\ intact' \in {intact, FALSE}
    /\ arriving' \subseteq 1 .. Len(sent)
    /\ \A k \in arriving' : 1 .. k \subseteq arriving'
    /\ intact' => arriving' = 1 .. Len(sent)
    /\ UNCHANGED << sent, got, done >>

Receive ==
    /\ closed
    /\ ~ done
    /\ Len(got) + 1 \in arriving
    /\ got' = Append(got, sent[Len(got) + 1])
    /\ UNCHANGED << sent, closed, intact, arriving, done >>

\* The receiver stops when it has what arrives, no earlier and no later.
Stop ==
    /\ closed
    /\ ~ done
    /\ Len(got) + 1 \notin arriving
    /\ done' = TRUE
    /\ UNCHANGED << sent, closed, intact, arriving, got >>

Next == Send \/ Close \/ Receive \/ Stop

Spec == Init /\ [][Next]_vars
===========================================================================
