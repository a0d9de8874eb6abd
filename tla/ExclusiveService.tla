-------------------------- MODULE ExclusiveService --------------------------
(***************************************************************************)
(* What a leased work table promises its clients, whatever the statuses,   *)
(* locks and retries behind it: an item is served by one server at a time, *)
(* and each time it is taken uses up one try.                              *)
(***************************************************************************)
EXTENDS Naturals

CONSTANTS Items, Servers, Nobody, MaxTries

VARIABLES
    server,  \* server[i]: who serves item i, or Nobody
    tries    \* tries[i]: how often item i was taken

Init ==
    /\ server = [i \in Items |-> Nobody]
    /\ tries = [i \in Items |-> 0]

Taken(i) ==
    /\ server[i] = Nobody
    /\ server'[i] \in Servers
    /\ tries[i] < MaxTries
    /\ tries'[i] = tries[i] + 1

Left(i) ==
    /\ server[i] # Nobody
    /\ server'[i] = Nobody
    /\ tries'[i] = tries[i]

Kept(i) ==
    /\ server'[i] = server[i]
    /\ tries'[i] = tries[i]

\* One transaction may take, or one crash leave, several items at once.
Next == \A i \in Items : Taken(i) \/ Left(i) \/ Kept(i)

Spec == Init /\ [][Next]_<<server, tries>>
=============================================================================
