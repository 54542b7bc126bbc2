--------------------------- MODULE AtomicSnapshot ---------------------------
(***************************************************************************)
(* What a snapshot buffer promises its users, with no word of how: a       *)
(* publication takes effect at one instant, a successful read delivers the *)
(* latest completed publication of some instant between its call and its   *)
(* return, and a read fails only if a publication overlapped it.           *)
(***************************************************************************)
EXTENDS Naturals

CONSTANTS
    Words,     \* the words a snapshot consists of
    Readers    \* the threads that may call read()

VARIABLES
    latest,      \* the number of the last completed publication
    publishing,  \* a publication is in progress
    reading,     \* reading[r]: r is inside read()
    overlapped,  \* overlapped[r]: a publication was in progress at some moment of r's call
    value        \* value[r]: the caller's snapshot, the in/out parameter of r's read()

vars == <<latest, publishing, reading, overlapped, value>>

(* A snapshot in which every word comes from publication n. *)
Whole(n) == [w \in Words |-> n]

Init ==
    /\ latest = 0
    /\ publishing = FALSE
    /\ reading = [r \in Readers |-> FALSE]
    /\ overlapped = [r \in Readers |-> FALSE]
    /\ value = [r \in Readers |-> Whole(0)]

BeginPublish ==
    /\ ~publishing
    /\ publishing' = TRUE
    /\ overlapped' = [r \in Readers |-> overlapped[r] \/ reading[r]]
    /\ UNCHANGED <<latest, reading, value>>

EndPublish ==
    /\ publishing
    /\ publishing' = FALSE
    /\ latest' = latest + 1
    /\ UNCHANGED <<reading, overlapped, value>>

BeginRead(r) ==
    /\ ~reading[r]
    /\ reading' = [reading EXCEPT ![r] = TRUE]
    /\ overlapped' = [overlapped EXCEPT ![r] = publishing]
    /\ \E n \in 0 .. latest : value' = [value EXCEPT ![r] = Whole(n)]
    /\ UNCHANGED <<latest, publishing>>

ReadSucceeds(r) ==
    /\ reading[r]
    /\ reading' = [reading EXCEPT ![r] = FALSE]
    /\ value' = [value EXCEPT ![r] = Whole(latest)]
    /\ UNCHANGED <<latest, publishing, overlapped>>

ReadFails(r) ==
    /\ reading[r]
    /\ overlapped[r]
    /\ reading' = [reading EXCEPT ![r] = FALSE]
    /\ UNCHANGED <<latest, publishing, overlapped, value>>

Next ==
    \/ BeginPublish
    \/ EndPublish
    \/ \E r \in Readers : BeginRead(r) \/ ReadSucceeds(r) \/ ReadFails(r)

Spec == Init /\ [][Next]_vars
=============================================================================
