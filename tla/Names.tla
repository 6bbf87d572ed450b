------------------------------- MODULE Names -------------------------------
(***************************************************************************)
(* How alike two names are (internal/support/namesim/namesim.go).          *)
(*                                                                         *)
(* A name is a sequence of words, already in lower case and without its    *)
(* punctuation.  Some words are noise, some say that a settlement follows, *)
(* some that it is over; an adjective may be formed from a settlement.     *)
(* Names of which neither has all words of the other are told as Unlike:   *)
(* the distance between their spellings is not modelled.  Names have three *)
(* letters or more.                                                        *)
(***************************************************************************)
EXTENDS Integers, Sequences, FiniteSets

CONSTANTS
    Noise,          \* kinds of objects, of settlements and of regions
    Openers,       \* words a settlement's name follows
    Facilities,     \* words that are no settlement's
    Adjectives      \* the words that are adjectives, each with its settlement

Unlike == 30

Words(name) == {name[i] : i \in DOMAIN name}

Core(name) == SelectSeq(name, LAMBDA w : w \notin Noise)

InsideOf(a, b) ==
    \E i \in DOMAIN b : \A k \in DOMAIN a : i + k - 1 \in DOMAIN b /\ b[i + k - 1] = a[k]

(* Names as they are, one perhaps a part of the other.                     *)
NormalizedSimilarity(a, b) ==
    CASE a = b -> 100
      [] a # b /\ (InsideOf(a, b) \/ InsideOf(b, a)) -> 90
      [] OTHER -> Unlike

(* Names by their cores; one that is all noise is compared as it is.       *)
OfCores(ca, cb, whole) ==
    CASE ca = <<>> \/ cb = <<>> -> whole
      [] ca # <<>> /\ cb # <<>> /\ ca = cb -> 100
      [] ca # <<>> /\ cb # <<>> /\ ca # cb
         /\ (Words(ca) \subseteq Words(cb) \/ Words(cb) \subseteq Words(ca)) -> 95
      [] OTHER -> Unlike

Similarity(a, b) == OfCores(Core(a), Core(b), NormalizedSimilarity(a, b))

(* The settlement of a name: up to three words after the first prefix that *)
(* a settlement follows, or else an adjective at the beginning.            *)
After(name, i) ==
    LET ends == {j \in (i + 1)..Len(name) : name[j] \in Facilities} \cup {i + 4, Len(name) + 1}
    IN SubSeq(name, i + 1, (CHOOSE e \in ends : \A f \in ends : e <= f) - 1)

Heads(name) == {i \in DOMAIN name : name[i] \in Openers /\ After(name, i) # <<>>}

ExtractSettlement(name) ==
    IF Heads(name) # {}
    THEN After(name, CHOOSE i \in Heads(name) : \A j \in Heads(name) : i <= j)
    ELSE IF Len(name) > 1 /\ name[1] \in DOMAIN Adjectives \ Facilities
         THEN <<name[1]>>
         ELSE <<>>

FormedFrom(a, b) ==
    Len(a) = 1 /\ a[1] \in DOMAIN Adjectives /\ b = <<Adjectives[a[1]]>>

SameSettlement(a, b) ==
    /\ Core(a) # <<>> /\ Core(b) # <<>>
    /\ \/ Core(a) = Core(b)
       \/ FormedFrom(Core(a), Core(b))
       \/ FormedFrom(Core(b), Core(a))
=============================================================================
