------------------------------ MODULE JobBoard ------------------------------
(***************************************************************************)
(* What the job queue promises: a job is posted once, is in the hands of   *)
(* at most one worker at a time, can be given back and taken again, and    *)
(* once finished stays finished.  A worker may vanish with a job in hand:  *)
(* nobody ever takes that job again.                                       *)
(***************************************************************************)
CONSTANTS Jobs, Workers, Nobody

VARIABLES status, holder
boardVars == <<status, holder>>

BoardInit ==
    /\ status = [j \in Jobs |-> "absent"]
    /\ holder = [j \in Jobs |-> Nobody]

Post(j) ==
    /\ status[j] = "absent"
    /\ status' = [status EXCEPT ![j] = "open"]
    /\ UNCHANGED holder

Take(w, j) ==
    /\ status[j] = "open"
    /\ status' = [status EXCEPT ![j] = "held"]
    /\ holder' = [holder EXCEPT ![j] = w]

(* The holder alone moves the job on.                                      *)
Return(w, j, s) ==
    /\ status[j] = "held" /\ holder[j] = w
    /\ status' = [status EXCEPT ![j] = s]
    /\ holder' = [holder EXCEPT ![j] = Nobody]

Vanish(w, j) == status[j] = "held" /\ Return(w, j, "held")

BoardNext ==
    \E j \in Jobs :
        \/ Post(j)
        \/ \E w \in Workers :
              Take(w, j) \/ Return(w, j, "open") \/ Return(w, j, "closed") \/ Vanish(w, j)

BoardSpec == BoardInit /\ [][BoardNext]_boardVars
=============================================================================
