------------------------------ MODULE WriteOnce ------------------------------
(***************************************************************************)
(* What an exclusive publication promises its callers: under every name at *)
(* most one document is ever decided, a publisher is told so only about    *)
(* its own document, and what a publisher was told survives a power loss.  *)
(* A document nobody was told of may be forgotten by one.                  *)
(***************************************************************************)
CONSTANTS
    Name,       \* the paths documents are published under
    Document,   \* what may be published
    NoFile      \* nothing is published

VARIABLES
    value,      \* the document under each name
    claimed     \* documents whose publisher was told of success, per name

writeOnceVars == <<value, claimed>>

WriteOnceInit ==
    /\ value = [n \in Name |-> NoFile]
    /\ claimed = [n \in Name |-> {}]

Decide(n, d) ==
    /\ value[n] = NoFile
    /\ value' = [value EXCEPT ![n] = d]
    /\ UNCHANGED claimed

Claim(n, d) ==
    /\ value[n] = d
    /\ claimed' = [claimed EXCEPT ![n] = claimed[n] \cup {d}]
    /\ UNCHANGED value

Forget(lost) ==
    /\ \A n \in lost : claimed[n] = {}
    /\ value' = [n \in Name |-> IF n \in lost THEN NoFile ELSE value[n]]
    /\ UNCHANGED claimed

WriteOnceNext ==
    \/ \E n \in Name, d \in Document : Decide(n, d) \/ Claim(n, d)
    \/ \E lost \in SUBSET Name : Forget(lost)

WriteOnceSpec == WriteOnceInit /\ [][WriteOnceNext]_writeOnceVars
==============================================================================
