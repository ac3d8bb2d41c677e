----------------------------- MODULE FixedWindow -----------------------------
(***************************************************************************)
(* What the rate limiter of radar-api promises: a key opens a window with  *)
(* a request, the window closes Window ticks later whatever happens in it, *)
(* and an open window admits Max requests.  Nothing is forgotten early and *)
(* nothing is kept of a window that has closed.                            *)
(***************************************************************************)
EXTENDS Naturals

CONSTANTS Keys, Window, Max, Closed

VARIABLES open, verdict

Init ==
    /\ open = [k \in Keys |-> Closed]
    /\ verdict = [k \in Keys |-> "none"]

Admit(k) ==
    /\ \/ /\ open[k] = Closed
          /\ open' = [open EXCEPT ![k] = [count |-> 1, age |-> 0]]
       \/ /\ open[k] # Closed /\ open[k].count < Max
          /\ open' = [open EXCEPT ![k].count = @ + 1]
    /\ verdict' = [verdict EXCEPT ![k] = "admitted"]

Refuse(k) ==
    /\ open[k] # Closed /\ open[k].count >= Max
    /\ verdict' = [verdict EXCEPT ![k] = "refused"]
    /\ UNCHANGED open

Older(w) == IF w = Closed \/ w.age + 1 >= Window THEN Closed ELSE [w EXCEPT !.age = @ + 1]

Tick ==
    /\ open' = [k \in Keys |-> Older(open[k])]
    /\ UNCHANGED verdict

Next == Tick \/ \E k \in Keys : Admit(k) \/ Refuse(k)

Spec == Init /\ [][Next]_<<open, verdict>>
=============================================================================
