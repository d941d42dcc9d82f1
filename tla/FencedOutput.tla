---------------------------- MODULE FencedOutput ----------------------------
(***************************************************************************)
(* What the Windows side promises about its output devices, in the         *)
(* abstract: each device is written only under the grant that owns it now, *)
(* and a grant that lost a device never owns that device again.  Nothing   *)
(* is said of how a grant is named, numbered or timed out.                 *)
(***************************************************************************)
CONSTANTS
    Device,     \* the output devices
    Grant,      \* everything that can be granted a device
    Nobody      \* no grant (and not one of Grant); a neutral device

VARIABLES
    holder,     \* the grant that owns each device, or Nobody
    writer,     \* the grant whose data each device shows, or Nobody
    spent       \* the grants that have lost each device

vars == <<holder, writer, spent>>

TypeOK ==
    /\ holder \in [Device -> Grant \cup {Nobody}]
    /\ writer \in [Device -> Grant \cup {Nobody}]
    /\ spent \in [Device -> SUBSET Grant]

Init ==
    /\ holder = [d \in Device |-> Nobody]
    /\ writer = [d \in Device |-> Nobody]
    /\ spent = [d \in Device |-> {}]

Spend(D) ==
    spent' = [d \in Device |->
                IF d \in D THEN spent[d] \cup ({holder[d]} \ {Nobody})
                           ELSE spent[d]]

\* A device passes to a grant that has never lost it.
Issue(d, g) ==
    /\ g # holder[d]
    /\ g \notin spent[d]
    /\ holder' = [holder EXCEPT ![d] = g]
    /\ Spend({d})
    /\ UNCHANGED writer

\* The owner, and nobody else, writes.
Write(d) ==
    /\ holder[d] # Nobody
    /\ writer' = [writer EXCEPT ![d] = holder[d]]
    /\ UNCHANGED <<holder, spent>>

\* Devices lose their owners; those the hardware let us silence are neutral.
Revoke(D, silenced) ==
    /\ holder' = [d \in Device |-> IF d \in D THEN Nobody ELSE holder[d]]
    /\ writer' = [d \in Device |-> IF d \in silenced THEN Nobody ELSE writer[d]]
    /\ Spend(D)

Next ==
    \/ \E d \in Device, g \in Grant : Issue(d, g)
    \/ \E d \in Device : Write(d)
    \/ \E D \in SUBSET Device : \E silenced \in SUBSET D : Revoke(D, silenced)

Spec == Init /\ [][Next]_vars
=============================================================================
