-------------------------- MODULE PromiseContract --------------------------
(***************************************************************************)
(* What promises promise to those who subscribe, without call stack, hooks,*)
(* polling, adoption or trampoline (task/promise.rs: settle and on_settle).*)
(* A promise settles once.  A callback runs once, after its promise has    *)
(* settled and with that settlement, and those that were there before it   *)
(* settled run in the order of registration.                               *)
(***************************************************************************)
EXTENDS Naturals, Sequences

CONSTANTS Promises, Callbacks, Settlements

VARIABLES
  state,        \* promise -> "Pending" or a settlement
  registered,   \* [job, from, early] of the subscriptions, in order
  fired         \* [job, outcome, from] of the callbacks run, in order

contractVars == <<state, registered, fired>>

Init ==
  /\ state = [p \in Promises |-> "Pending"]
  /\ registered = << >>
  /\ fired = << >>

HasFired(c) == \E n \in DOMAIN fired : fired[n].job = c

Settle(p) ==
  /\ state[p] = "Pending"
  /\ \E o \in Settlements : state' = [state EXCEPT ![p] = o]
  /\ UNCHANGED <<registered, fired>>

Subscribe(p, c) ==
  /\ ~ \E i \in DOMAIN registered : registered[i].job = c
  /\ registered' = Append(registered, [job |-> c, from |-> p,
                                       early |-> state[p] = "Pending"])
  /\ UNCHANGED <<state, fired>>

Run(c) ==
  \E i \in DOMAIN registered :
    LET r == registered[i]
    IN  /\ r.job = c
        /\ ~ HasFired(c)
        /\ state[r.from] # "Pending"
        /\ \A j \in 1..(i - 1) :
             registered[j].from = r.from /\ registered[j].early /\ r.early
               => HasFired(registered[j].job)
        /\ fired' = Append(fired, [job |-> c, outcome |-> state[r.from], from |-> r.from])
        /\ UNCHANGED <<state, registered>>

Next ==
  \/ \E p \in Promises : Settle(p) \/ \E c \in Callbacks : Subscribe(p, c)
  \/ \E c \in Callbacks : Run(c)

Spec == Init /\ [][Next]_contractVars

(* A callback is due when its promise has settled. *)
IsDue(c) == \E i \in DOMAIN registered :
              registered[i].job = c /\ state[registered[i].from] # "Pending"
============================================================================
