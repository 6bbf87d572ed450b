------------------------------ MODULE Enquiry ------------------------------
(***************************************************************************)
(* A question put to one of the program's algorithms, and its answer.  The *)
(* modules of algorithms share it: topic names the algorithm, and answer   *)
(* is the empty set until there is one.                                    *)
(***************************************************************************)
EXTENDS Integers, FiniteSets, Sequences

CONSTANT Enquiries      \* for every topic the questions that may be asked

VARIABLES topic, question, answer

enquiry == <<topic, question, answer>>

EnquiryInit ==
    /\ topic \in DOMAIN Enquiries
    /\ question \in Enquiries[topic]
    /\ answer = {}

Asked(t) == topic = t /\ answer = {}

Replied(t) == topic = t /\ answer # {}

Reply(a) == answer' = {a} /\ UNCHANGED <<topic, question>>

Told == CHOOSE a \in answer : TRUE
=============================================================================
