------------------------------ MODULE MCClients ------------------------------
(***************************************************************************)
(* Small instances of Connection, Autosend, WaitList and Session in one    *)
(* state space.  As models they share no state, so a behaviour of all of   *)
(* them is an interleaving of independent ones: which says whose behaviour *)
(* this is, and the others stay as they begin.                             *)
(* Sessions have two kinds of behaviours: two clients that compete for a   *)
(* character, and one client that dies, answers the death screen as often  *)
(* as it likes, and is relogged by scripts.                                *)
(***************************************************************************)
EXTENDS Connection, Autosend, WaitList

CONSTANTS
  Gone, p1, p2, anna, o1, o2, o3              \* Session

VARIABLES
  which,
  objects, player, conn, first, eventConnect, fired, acceptPackets, lastName, tasks, game, crashed, raced

sessionVars == <<objects, player, conn, first, eventConnect, fired, acceptPackets, lastName, tasks, game,
                 crashed, raced>>

S == INSTANCE Session WITH Name <- {anna}, Object <- {o1, o2, o3}, None <- Gone,
       ReplaceKick <- {TRUE}, OnePlayerOnAccount <- TRUE, Relogin <- FALSE, FastRelogs <- FALSE,
       MaxTasks <- 2, MaxReleases <- 2, phase <- game

\* The same with answers to the death screen and relogs by scripts.
R == INSTANCE Session WITH Name <- {anna}, Object <- {o1, o2, o3}, None <- Gone,
       ReplaceKick <- {TRUE}, OnePlayerOnAccount <- TRUE, Relogin <- TRUE, FastRelogs <- TRUE,
       MaxTasks <- 2, MaxReleases <- 2, phase <- game

\* Which memory a new Player gets: MCSession has them all.
NextMemory ==
  \A o \in {o1, o2, o3} :
    objects[o].name = Gone /\ objects'[o].name # Gone => o = CHOOSE f \in S!Fresh : TRUE

OneClient == \A p \in Protocol \ {p1} : ~first'[p] /\ conn'[p] = "open"

\* The second protocol is one the network thread has nothing to write to.
OneAnswered == \A p \in Protocol \ {p1} : messages'[p] <= 1 /\ logins'[p] <= 1 /\ network'[p] = "idle"

ClientsInit ==
  /\ which \in {"connection", "autosend", "waitlist", "session", "relog"}
  /\ Init /\ AutosendInit /\ WaitListInit /\ S!Init

ClientsNext ==
  \/ which = "connection" /\ Next /\ UNCHANGED <<which, autosendVars, waitListVars, sessionVars>>
  \/ which = "autosend" /\ AutosendNext /\ OneAnswered /\ UNCHANGED <<which, vars, waitListVars, sessionVars>>
  \/ which = "waitlist" /\ WaitListNext /\ UNCHANGED <<which, vars, autosendVars, sessionVars>>
  \/ which = "session" /\ S!Next /\ NextMemory /\ UNCHANGED <<which, vars, autosendVars, waitListVars>>
  \/ which = "relog" /\ R!Next /\ NextMemory /\ OneClient
     /\ UNCHANGED <<which, vars, autosendVars, waitListVars>>

OfSessions == which \in {"session", "relog"} /\ ~S!Undefined

\* The fairness of the components, each for its own behaviours; tasks and steps of
\* setGameState are never enabled together, and R differs from S only in what
\* clients and scripts ask for.
ClientsFairness ==
  /\ WF_vars(which = "connection" /\ RunReadHandler) /\ WF_vars(which = "connection" /\ RunWriteHandler)
  /\ WF_vars(which = "connection" /\ HandleTimeout)
  /\ WF_vars(which = "connection" /\ ReadTimerExpires) /\ WF_vars(which = "connection" /\ WriteTimerExpires)
  /\ WF_vars(which = "connection" /\ ~socketOpen /\ ReadCompletes("error"))
  /\ WF_vars(which = "connection" /\ ~socketOpen /\ WriteCompletes("error"))
  /\ WF_vars(which = "connection" /\ Destroy)
  /\ WF_autosendVars(which = "autosend" /\ SendAll)
  /\ \A p \in Protocol : /\ WF_autosendVars(which = "autosend" /\ FirstMessageEnds(p))
                        /\ WF_autosendVars(which = "autosend" /\ Release(p))
  /\ WF_sessionVars(OfSessions /\ (S!RunTask \/ S!ShutdownStep))
  /\ \A p \in Protocol : WF_sessionVars(OfSessions /\ S!ConnectFires(p))

ClientsSpec == ClientsInit /\ [][ClientsNext]_<<which, vars, autosendVars, waitListVars, sessionVars>> /\ ClientsFairness

----------------------------------------------------------------------------
(* What is checked, next to the properties of Connection, Autosend, WaitList *)

\* Sessions: a closed client gives its player up, and kicking all players ends but
\* over one whose client holds another player.
SessionsSettle == S!ClosedClientLeaves /\ S!KickingEnds
==============================================================================
