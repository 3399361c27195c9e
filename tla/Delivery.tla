------------------------------- MODULE Delivery -------------------------------
(***************************************************************************)
(* What an upload through the staging area promises its user, whatever     *)
(* fails in between: what is at the target stays there until the whole of  *)
(* the file is in the staging area, for a request that was accepted; it is *)
(* replaced once; and what replaces it is made of the bytes of the file,   *)
(* each at most once and in their order.                                   *)
(*                                                                         *)
(* Which bytes may be missing is said in S3Ingress (CountedIsWritten).     *)
(***************************************************************************)
EXTENDS Naturals, Sequences

CONSTANTS
    None,     \* nothing
    Before    \* what may be at the target in the beginning

VARIABLES
    size,      \* of the file that is sent
    accepted,  \* "pending", "yes" or "no"
    staged,    \* all of the file is in the staging area
    replaced,  \* what was at the target is gone
    target,    \* what is there
    ended      \* nothing is written any more

vars == << size, accepted, staged, replaced, target, ended >>

Init ==
    /\ size \in Nat
    /\ accepted = "pending"
    /\ ~staged /\ ~replaced /\ ~ended
    /\ target \in Before

Decide ==
    /\ accepted = "pending"
    /\ accepted' \in { "yes", "no" }
    /\ UNCHANGED << size, staged, replaced, target, ended >>

Stage ==
    /\ accepted = "yes"
    /\ ~staged
    /\ staged' = TRUE
    /\ UNCHANGED << size, accepted, replaced, target, ended >>

Replace ==
    /\ staged /\ ~replaced /\ ~ended
    /\ replaced' = TRUE
    /\ target' = None
    /\ UNCHANGED << size, accepted, staged, ended >>

Written(path) == IF path = None THEN << >> ELSE path

\* The last bytes may be written in the moment it ends.
Write ==
    /\ replaced /\ ~ended
    /\ Written(target) = SubSeq(Written(target'), 1, Len(Written(target)))
    /\ \A i \in 1 .. Len(Written(target')) : target'[i] \in 1 .. size
    /\ \A i, j \in 1 .. Len(Written(target')) : i < j => target'[i] < target'[j]
    /\ ended' \in BOOLEAN
    /\ UNCHANGED << size, accepted, staged, replaced >>

End ==
    /\ ~ended
    /\ ended' = TRUE
    /\ UNCHANGED << size, accepted, staged, replaced, target >>

Next == Decide \/ Stage \/ Replace \/ Write \/ End

Spec == Init /\ [][Next]_vars

=============================================================================
