------------------------------- MODULE Services -------------------------------
(***************************************************************************)
(* The life of the process (otserv.cpp, server.cpp): main starts the       *)
(* threads and waits for the loader, which is the first task of the        *)
(* dispatcher; then main runs the accept loops of the ports until the      *)
(* dispatcher stops the service manager, and joins the threads.  The       *)
(* dispatcher, the scheduler and the database thread appear only as far    *)
(* as their ends and what they are told here go.                           *)
(*                                                                         *)
(* A wait on a condition variable may wake without cause, and a            *)
(* notification that nobody waits for is lost.                             *)
(***************************************************************************)
EXTENDS Integers, Sequences, FiniteSets

CONSTANTS
  Port,       \* the ports services are added to
  MaxErrors   \* bound: failures of accept and open

\* Ports are numbers; tasks that are no port to open are named.
ASSUME PortAssumption == Port \cap {"signal", "shutdown", "end"} = {}

VARIABLES
  main,       \* "started", "waiting", "woken", "online", "running", "ending", "ended"
  loader,     \* "config", "early", "late", "ports", "done"
  tasks,      \* what the dispatcher has still to do after the loader
  thread,     \* "off", "on" or "ended": the dispatcher, the scheduler, the database
  taking,     \* the dispatcher takes tasks: it is running and not closing
  acceptors,  \* the ports of the service manager
  port,       \* of every port: [open, accepting, services, pendingStart]
  retries,    \* the ports that the scheduler will open again
  running,    \* ServiceManager::running
  managed,    \* Game::serviceManager is set
  stops,      \* ports whose onStopServer is posted
  dying,      \* the death timer is set
  errors,
  notified,   \* history: the loader has notified main
  astray      \* history: for nothing, main has woken alone, or stop came before run

serviceVars == <<main, loader, tasks, thread, taking, acceptors, port, retries, running, managed,
                 stops, dying, errors, notified, astray>>

ServicesInit ==
  /\ main = "started" /\ loader = "config" /\ tasks = <<>>
  /\ thread = [dispatcher |-> "on", scheduler |-> "on", database |-> "off"]
  /\ taking = TRUE /\ acceptors = {} /\ retries = {}
  /\ port = [p \in Port |-> [open |-> FALSE, accepting |-> FALSE, services |-> FALSE,
                             pendingStart |-> FALSE]]
  /\ running = FALSE /\ managed = FALSE /\ stops = {} /\ dying = FALSE
  /\ errors = 0 /\ notified = FALSE /\ astray = FALSE

portVars == <<acceptors, port, retries, stops, errors>>
gameVars == <<tasks, thread, taking, running, managed, dying>>

----------------------------------------------------------------------------
(* Main *)

MainWaits ==
  /\ main = "started" /\ main' = "waiting"
  /\ UNCHANGED <<loader, gameVars, portVars, notified, astray>>

MainWakesAlone ==
  /\ main = "waiting" /\ main' = "woken" /\ astray' = TRUE
  /\ UNCHANGED <<loader, gameVars, portVars, notified>>

\* The scheduler and the database thread see that they are to end; the
\* dispatcher gets a last task.
ShutThreads(t) == [d \in DOMAIN t |-> IF d # "dispatcher" /\ t[d] = "on" THEN "ended" ELSE t[d]]

MainLooks ==
  /\ main = "woken"
  /\ IF acceptors # {}
       THEN main' = "online" /\ UNCHANGED <<thread, tasks>>
       ELSE main' = "ending" /\ thread' = ShutThreads(thread) /\ tasks' = Append(tasks, "end")
  /\ UNCHANGED <<loader, taking, running, managed, dying, portVars, notified, astray>>

MainRuns ==
  /\ main = "online" /\ main' = "running" /\ running' = TRUE
  /\ UNCHANGED <<loader, tasks, thread, taking, managed, dying, portVars, notified, astray>>

\* die() stops the io service, and run returns.
Die ==
  /\ main = "running" /\ dying
  /\ main' = "ending" /\ dying' = FALSE
  /\ UNCHANGED <<loader, tasks, thread, taking, running, managed, portVars, notified, astray>>

MainJoins ==
  /\ main = "ending" /\ \A d \in DOMAIN thread : thread[d] # "on"
  /\ main' = "ended"
  /\ UNCHANGED <<loader, gameVars, portVars, notified, astray>>

----------------------------------------------------------------------------
(* Ports.  accept is pending, with a handler that runs in main. *)

Fails == errors < MaxErrors /\ errors' = errors + 1

\* A connection came: the next is waited for, unless the port has no service yet.
OnAccept(p) ==
  /\ main = "running" /\ port[p].accepting
  /\ port' = [port EXCEPT ![p].accepting = port[p].services]
  /\ UNCHANGED <<main, loader, gameVars, acceptors, retries, stops, errors, notified, astray>>

\* The retry is forgotten.
ErrorWithoutRetry(p) ==
  /\ main = "running" /\ port[p].accepting /\ Fails
  /\ port' = [port EXCEPT ![p].accepting = FALSE, ![p].open = FALSE]
  /\ UNCHANGED <<main, loader, gameVars, acceptors, stops, retries, notified, astray>>

OnAcceptError(p) ==
  /\ main = "running" /\ port[p].accepting /\ Fails
  /\ IF port[p].pendingStart
       THEN port' = [port EXCEPT ![p].accepting = FALSE] /\ UNCHANGED retries
       ELSE /\ port' = [port EXCEPT ![p].accepting = FALSE, ![p].open = FALSE,
                                    ![p].pendingStart = TRUE]
            /\ retries' = retries \cup {p}
  /\ UNCHANGED <<main, loader, gameVars, acceptors, stops, notified, astray>>

\* close() aborts the pending accept.
OnStopServer(p) ==
  /\ main = "running" /\ p \in stops
  /\ stops' = stops \ {p}
  /\ port' = [port EXCEPT ![p].open = FALSE, ![p].accepting = FALSE]
  /\ UNCHANGED <<main, loader, gameVars, acceptors, retries, errors, notified, astray>>

\* ServicePort::open, which closes the port first.
Opened(p) == [port EXCEPT ![p].open = TRUE, ![p].accepting = TRUE, ![p].pendingStart = FALSE]
NotOpened(p) == [port EXCEPT ![p].open = FALSE, ![p].accepting = FALSE, ![p].pendingStart = TRUE]

\* Somebody holds the port: the manager, a handler or a posted stop.
Held(p) == p \in acceptors \/ port[p].accepting \/ p \in stops

\* A retry expires.  The dispatcher may take no more tasks.
RetryExpires(p) ==
  /\ p \in retries /\ thread.scheduler = "on"
  /\ retries' = retries \ {p}
  /\ tasks' = IF taking THEN Append(tasks, p) ELSE tasks
  /\ UNCHANGED <<main, loader, thread, taking, running, managed, dying, acceptors, port, stops,
                 errors, notified, astray>>

----------------------------------------------------------------------------
(* The loader *)

\* notify_all: who does not wait yet will miss it.
Notify ==
  /\ notified' = TRUE
  /\ main' = IF main = "waiting" THEN "woken" ELSE main
  /\ astray' = (astray \/ main = "started")

\* A configuration file that cannot be read ends the loader without a word.
LoaderReturns ==
  /\ loader = "config" /\ loader' = "done"
  /\ UNCHANGED <<main, gameVars, portVars, notified, astray>>

LoaderFails ==
  /\ loader \in {"early", "late"} /\ loader' = "done"
  /\ Notify
  /\ UNCHANGED <<gameVars, portVars>>

\* On the way the database thread is started.
Load ==
  /\ \/ loader = "config" /\ loader' = "early" /\ UNCHANGED thread
     \/ loader = "early" /\ loader' = "late" /\ thread' = [thread EXCEPT !.database = "on"]
     \/ loader = "late" /\ loader' = "ports" /\ UNCHANGED thread
  /\ UNCHANGED <<main, tasks, taking, running, managed, dying, portVars, notified, astray>>

\* setGameState(GAME_STATE_SHUTDOWN), which cannot be stopped.
AskShutdown(ts) == tasks' = Append(ts, "shutdown") /\ taking' = FALSE

\* A script of the startup event shuts the server down.
StartupScript ==
  /\ loader = "ports" /\ taking /\ acceptors = {} /\ retries = {}
  /\ AskShutdown(tasks)
  /\ UNCHANGED <<main, loader, thread, running, managed, dying, portVars, notified, astray>>

\* ServiceManager::add, which forgets the port when it cannot be opened.
OpenPort(p) ==
  /\ loader = "ports" /\ p \notin acceptors /\ ~port[p].pendingStart
  /\ \/ acceptors' = acceptors \cup {p} /\ port' = Opened(p) /\ UNCHANGED <<retries, errors>>
     \/ Fails /\ port' = NotOpened(p) /\ retries' = retries \cup {p} /\ UNCHANGED acceptors
  /\ UNCHANGED <<main, loader, gameVars, stops, notified, astray>>

AddService(p) ==
  /\ loader = "ports" /\ p \in acceptors /\ ~port[p].services
  /\ port' = [port EXCEPT ![p].services = TRUE]
  /\ UNCHANGED <<main, loader, gameVars, acceptors, retries, stops, errors, notified, astray>>

LoaderEnds ==
  /\ loader = "ports"
  /\ \A p \in Port : port[p].services \/ (p \notin acceptors /\ port[p].pendingStart)
  /\ loader' = "done" /\ managed' = TRUE
  /\ Notify
  /\ UNCHANGED <<tasks, thread, taking, running, dying, portVars>>

----------------------------------------------------------------------------
(* The dispatcher, after the loader *)

DispatcherFree == loader = "done" /\ thread.dispatcher = "on" /\ tasks # <<>>

\* SIGINT or SIGTERM: main hands it to the dispatcher.  Bound: one at a time.
Interrupt ==
  /\ main = "running" /\ taking /\ ~\E i \in DOMAIN tasks : tasks[i] = "signal"
  /\ tasks' = Append(tasks, "signal")
  /\ UNCHANGED <<main, loader, thread, taking, running, managed, dying, portVars, notified, astray>>

Interrupted ==
  /\ DispatcherFree /\ Head(tasks) = "signal"
  /\ IF taking THEN AskShutdown(Tail(tasks)) ELSE tasks' = Tail(tasks) /\ UNCHANGED taking
  /\ UNCHANGED <<main, loader, thread, running, managed, dying, portVars, notified, astray>>

\* The ports are closed, but nothing ends the io service.
StopOnly ==
  /\ DispatcherFree /\ Head(tasks) = "shutdown"
  /\ thread' = ShutThreads(thread)
  /\ tasks' = Append(Tail(tasks), "end")
  /\ IF managed /\ running
       THEN /\ running' = FALSE /\ stops' = acceptors /\ acceptors' = {}
            /\ UNCHANGED <<astray, dying>>
       ELSE astray' = TRUE /\ UNCHANGED <<running, dying, stops, acceptors>>
  /\ UNCHANGED <<main, loader, taking, managed, port, retries, errors, notified>>

\* Game::shutdown, with ServiceManager::stop.
Shutdown ==
  /\ DispatcherFree /\ Head(tasks) = "shutdown"
  /\ thread' = ShutThreads(thread)
  /\ tasks' = Append(Tail(tasks), "end")
  /\ IF managed /\ running
       THEN /\ running' = FALSE /\ dying' = TRUE
            /\ stops' = acceptors /\ acceptors' = {}
            /\ UNCHANGED astray
       ELSE astray' = TRUE /\ UNCHANGED <<running, dying, stops, acceptors>>
  /\ UNCHANGED <<main, loader, taking, managed, port, retries, errors, notified>>

\* ServicePort::openAcceptor.
OpenAcceptor ==
  /\ DispatcherFree /\ Head(tasks) \in Port
  /\ LET p == Head(tasks) IN
       \/ ~Held(p) /\ UNCHANGED <<port, retries, errors>>
       \/ Held(p) /\ port' = Opened(p) /\ UNCHANGED <<retries, errors>>
       \/ Held(p) /\ Fails /\ port' = NotOpened(p) /\ retries' = retries \cup {p}
  /\ tasks' = Tail(tasks)
  /\ UNCHANGED <<main, loader, thread, taking, running, managed, dying, acceptors, stops,
                 notified, astray>>

DispatcherEnds ==
  /\ DispatcherFree /\ Head(tasks) = "end"
  /\ thread' = [thread EXCEPT !.dispatcher = "ended"]
  /\ tasks' = Tail(tasks)
  /\ UNCHANGED <<main, loader, taking, running, managed, dying, portVars, notified, astray>>

LoaderStep ==
  Load \/ LoaderReturns \/ LoaderFails \/ LoaderEnds \/ \E p \in Port : OpenPort(p) \/ AddService(p)
DispatcherStep == Interrupted \/ Shutdown \/ OpenAcceptor \/ DispatcherEnds

ServicesNext ==
  \/ MainWaits \/ MainWakesAlone \/ MainLooks \/ MainRuns \/ Die \/ MainJoins
  \/ LoaderStep \/ StartupScript \/ Interrupt \/ DispatcherStep
  \/ \E p \in Port : OnAccept(p) \/ OnAcceptError(p) \/ OnStopServer(p) \/ RetryExpires(p)

\* Threads run on; no error, signal or connection has to come.
ServicesFairness ==
  /\ WF_serviceVars(MainWaits) /\ WF_serviceVars(MainLooks) /\ WF_serviceVars(MainRuns)
  /\ WF_serviceVars(Die) /\ WF_serviceVars(MainJoins)
  /\ WF_serviceVars(LoaderStep) /\ WF_serviceVars(DispatcherStep)
  /\ \A p \in Port : WF_serviceVars(RetryExpires(p))

ServicesSpec == ServicesInit /\ [][ServicesNext]_serviceVars /\ ServicesFairness

----------------------------------------------------------------------------
(* Properties *)

ServicesTypeOK ==
  /\ acceptors \subseteq Port /\ retries \subseteq Port /\ stops \subseteq Port
  /\ \A p \in Port : port[p].accepting => port[p].open

\* Until the server shuts down, a port of the manager either waits for the
\* next connection or will be opened again, never both and never neither.
Listening ==
  taking /\ ~astray =>
    \A p \in acceptors :
      /\ port[p].accepting # port[p].pendingStart
      /\ port[p].pendingStart <=> (p \in retries \/ \E i \in DOMAIN tasks : tasks[i] = p)

\* The ports of the server.
PortsSound == ServicesTypeOK /\ Listening

\* Main gets past its wait once the loader has notified it, and once the
\* server is asked to shut down or has no port the process ends; but not after
\* a notification nobody waited for, a wait that ended alone, or a stop that
\* came before run.
ProcessEnds ==
  /\ notified ~> (astray \/ main \notin {"started", "waiting"})
  /\ (~taking \/ main = "ending") ~> (astray \/ main = "ended")

\* Once the loader has returned, with success or without, main gets past its
\* wait: it says whether the server is online.  otserv.cpp:235 has it that a
\* loader that fails notifies main, in startupErrorMessage or by itself.
StartupEnds == loader = "done" ~> (astray \/ main \notin {"started", "waiting"})

============================================================================
