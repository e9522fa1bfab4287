------------------------------ MODULE MCSession ------------------------------
(***************************************************************************)
(* A small instance of Session for TLC.  Three players at once take one    *)
(* client that dies and says twice that it wants to play again; two        *)
(* clients that compete for two characters have two, and so have a server  *)
(* that shuts down and a script that asks for a relog.                     *)
(***************************************************************************)
EXTENDS Session, TLC
CONSTANTS p1, p2, alice, bob, o1, o2, o3
TwoProtocols == {p1, p2}
TwoNames == {alice, bob}
ThreeObjects == {o1, o2, o3}
Symmetry == Permutations(Protocol) \cup Permutations(Name) \cup Permutations(Object)

Small ==
  \/ Cardinality({o \in Object : objects[o] # Free}) <= 2
  \/ phase = "running" /\ Cardinality({p \in Protocol : first[p]}) <= 1
     /\ \A i \in DOMAIN tasks : tasks[i].kind # "relog"

SmallSpec == Init /\ [][Next /\ Small']_vars
===============================================================================
