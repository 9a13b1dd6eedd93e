-------------------------------- MODULE Agent --------------------------------
(***************************************************************************)
(* The life of the agent process: the commands start, stop, restart,       *)
(* status and accept, the pid file and the socket they share, signals and  *)
(* crashes.                                                                *)
(* Sources: src/webexec.go 187-420 and 523-571, src/pidfile/pidfile.go,    *)
(* src/pidfile/pidfile_linux.go, src/sock.go 150-200.                      *)
(*                                                                         *)
(* Each read, truncation, write and removal of the pid file is a step of   *)
(* its own.  Process ids are not used twice.                               *)
(***************************************************************************)
EXTENDS Integers, FiniteSets

CONSTANTS Cmd,      \* the commands given on the command line
          Pid,      \* process ids of the agents that may be started
          NoFile,   \* there is no pid file, or no socket
          Empty,    \* the pid file is there and holds no number
          OneByOne  \* TRUE: a command is given after the last one took effect

ASSUME PidAssumption == NoFile \notin Pid /\ Empty \notin Pid /\ NoFile # Empty
ASSUME OneByOneAssumption == OneByOne \in BOOLEAN

VARIABLES
    pidfile,  \* what the pid file holds
    sock,     \* the agent whose socket is there, running or not
    apc,      \* where each agent process is
    sig,      \* agents that were sent SIGINT or SIGTERM
    op,       \* what each command is
    cpc       \* where it is

agentVars == <<apc, sig>>
cmdVars == <<op, cpc>>
vars == <<pidfile, sock, apc, sig, op, cpc>>

Starting == {"new", "write", "truncate", "fill", "setup", "listen", "notify"}
\* Slip: a process that is shutting down is taken for gone.
AliveServing(p) == p \in Pid /\ apc[p] \in Starting \cup {"serve"}

\* processExists of what the pid file holds.
Alive(p) == p \in Pid /\ apc[p] \in Starting \cup {"serve", "remove", "exit"}

Init == /\ pidfile = NoFile
        /\ sock = NoFile
        /\ apc = [p \in Pid |-> "off"]
        /\ sig = {}
        /\ op = [c \in Cmd |-> "none"]
        /\ cpc = [c \in Cmd |-> "idle"]

-----------------------------------------------------------------------------
(* The agent process: start --agent *)

\* pidfile.New reads the file; a file that cannot be read is left to Write.
NewReads(p) ==
    /\ apc[p] = "new"
    /\ apc' = [apc EXCEPT ![p] = IF Alive(pidfile) THEN "gone" ELSE "write"]
    /\ UNCHANGED <<pidfile, sock, sig, cmdVars>>

\* PIDFile.Write reads it again; contents that are no number are an error.
WriteReads(p) ==
    /\ apc[p] = "write"
    /\ apc' = [apc EXCEPT ![p] = IF pidfile = Empty \/ Alive(pidfile) THEN "gone" ELSE "truncate"]
    /\ UNCHANGED <<pidfile, sock, sig, cmdVars>>

\* ioutil.WriteFile truncates the file, then fills it.
Truncate(p) ==
    /\ apc[p] = "truncate"
    /\ pidfile' = Empty
    /\ apc' = [apc EXCEPT ![p] = "fill"]
    /\ UNCHANGED <<sock, sig, cmdVars>>

Fill(p) ==
    /\ apc[p] = "fill"
    /\ pidfile' = p
    /\ apc' = [apc EXCEPT ![p] = "setup"]
    /\ UNCHANGED <<sock, sig, cmdVars>>

\* StartSocketServer takes a socket that is there for a stale one.
SocketRemoves(p) ==
    /\ apc[p] = "setup"
    /\ sock' = NoFile
    /\ apc' = [apc EXCEPT ![p] = "listen"]
    /\ UNCHANGED <<pidfile, sig, cmdVars>>

\* app.Start listens on the socket; its error is not looked at.
Listens(p) ==
    /\ apc[p] = "listen"
    /\ sock' = IF sock = NoFile THEN p ELSE sock
    /\ apc' = [apc EXCEPT ![p] = "notify"]
    /\ UNCHANGED <<pidfile, sig, cmdVars>>

\* signal.Notify.
Notify(p) ==
    /\ apc[p] = "notify"
    /\ apc' = [apc EXCEPT ![p] = "serve"]
    /\ UNCHANGED <<pidfile, sock, sig, cmdVars>>

\* Slip: a signal that comes before Notify is lost.
InterruptedLate(p) ==
    /\ p \in sig /\ apc[p] \in Starting \cup {"serve"}
    /\ apc' = IF apc[p] = "serve" THEN [apc EXCEPT ![p] = "remove"] ELSE apc
    /\ sig' = sig \ {p}
    /\ UNCHANGED <<pidfile, sock, cmdVars>>

\* A signal ends the agent at once until Notify has been called, then makes it
\* shut down.
Interrupted(p) ==
    /\ p \in sig /\ apc[p] \in Starting \cup {"serve"}
    /\ apc' = [apc EXCEPT ![p] = IF apc[p] = "serve" THEN "remove" ELSE "gone"]
    /\ sig' = sig \ {p}
    /\ UNCHANGED <<pidfile, sock, cmdVars>>

\* os.Remove of the pid file, and then the process exits.
Remove(p) ==
    /\ apc[p] = "remove"
    /\ pidfile' = NoFile
    /\ apc' = [apc EXCEPT ![p] = "exit"]
    /\ UNCHANGED <<sock, sig, cmdVars>>

\* Slip: the agent that ends removes the socket as well.
ExitRemovesSocket(p) ==
    /\ apc[p] = "exit"
    /\ sock' = NoFile
    /\ apc' = [apc EXCEPT ![p] = "gone"]
    /\ UNCHANGED <<pidfile, sig, cmdVars>>

\* The server is not shut down: the socket stays.
Exit(p) ==
    /\ apc[p] = "exit"
    /\ apc' = [apc EXCEPT ![p] = "gone"]
    /\ UNCHANGED <<pidfile, sock, sig, cmdVars>>

\* The agent is told to end by somebody else: a key, kill, the system.
Terminate(p) ==
    /\ Alive(p)
    /\ sig' = sig \cup {p}
    /\ UNCHANGED <<pidfile, sock, apc, cmdVars>>

\* The agent is killed or its machine goes down, at any point.
Crash(p) ==
    /\ Alive(p)
    /\ apc' = [apc EXCEPT ![p] = "gone"]
    /\ UNCHANGED <<pidfile, sock, sig, cmdVars>>

-----------------------------------------------------------------------------
(* The commands *)

\* Nothing is under way.
Quiet == /\ \A c \in Cmd : cpc[c] \in {"idle", "done"}
         /\ \A p \in Pid : apc[p] \notin Starting \cup {"remove", "exit"}
         /\ \A p \in sig : ~Alive(p)

Begin(c, what) ==
    /\ cpc[c] = "idle"
    /\ OneByOne => Quiet
    /\ op' = [op EXCEPT ![c] = what]
    /\ cpc' = [cpc EXCEPT ![c] = CASE what = "start" -> "fork"
                                   [] what \in {"stop", "restart"} -> "open"
                                   [] what \in {"status", "accept"} -> "look"]
    /\ UNCHANGED <<pidfile, sock, agentVars>>

\* What follows stop: restart goes on unless stop failed.
AfterStop(c, failed) == IF op[c] = "restart" /\ ~failed THEN "fork" ELSE "done"

\* stop opens the pid file and looks for the process.
StopOpens(c) ==
    /\ cpc[c] = "open"
    /\ cpc' = [cpc EXCEPT ![c] = IF Alive(pidfile) THEN "signal"
                                 ELSE AfterStop(c, pidfile = Empty)]
    /\ UNCHANGED <<pidfile, sock, agentVars, op>>

\* Slip: the error of the second read is not looked at.
StopSignalsUnread(c) ==
    /\ cpc[c] = "signal"
    /\ sig' = sig \cup {pidfile}
    /\ cpc' = [cpc EXCEPT ![c] = AfterStop(c, FALSE)]
    /\ UNCHANGED <<pidfile, sock, apc, op>>

\* ... reads the file a second time and signals whatever it names.
StopSignals(c) ==
    /\ cpc[c] = "signal"
    /\ sig' = IF Alive(pidfile) THEN sig \cup {pidfile} ELSE sig
    /\ cpc' = [cpc EXCEPT ![c] = AfterStop(c, ~Alive(pidfile))]
    /\ UNCHANGED <<pidfile, sock, apc, op>>

\* forkAgent: nothing to do when the file names a process, else an agent is
\* started.  restart comes here a second after the signal, whether or not the
\* old agent is over.
Fork(c) ==
    /\ cpc[c] = "fork"
    /\ \/ /\ Alive(pidfile)
          /\ UNCHANGED apc
       \/ /\ ~Alive(pidfile)
          /\ \E p \in Pid : /\ apc[p] = "off"
                            /\ apc' = [apc EXCEPT ![p] = "new"]
    /\ cpc' = [cpc EXCEPT ![c] = IF op[c] = "accept" THEN "dial" ELSE "done"]
    /\ UNCHANGED <<pidfile, sock, sig, op>>

\* What follows getAgentPid: accept starts an agent if there is none, and gives
\* up if the file cannot be read.
AfterLook(c) == CASE op[c] = "accept" /\ pidfile = NoFile -> "fork"
                  [] op[c] = "accept" /\ Alive(pidfile) -> "reread"
                  [] OTHER -> "done"

\* Slip: the file is removed without asking whether its process runs.
StatusReadsBlindly(c) ==
    /\ cpc[c] = "look"
    /\ cpc' = [cpc EXCEPT ![c] = IF pidfile \in Pid THEN "clean" ELSE AfterLook(c)]
    /\ UNCHANGED <<pidfile, sock, agentVars, op>>

\* getAgentPid: a file that names no process is removed.
StatusReads(c) ==
    /\ cpc[c] = "look"
    /\ cpc' = [cpc EXCEPT ![c] = IF pidfile \in Pid /\ ~Alive(pidfile) THEN "clean"
                                 ELSE AfterLook(c)]
    /\ UNCHANGED <<pidfile, sock, agentVars, op>>

StatusRemoves(c) ==
    /\ cpc[c] = "clean"
    /\ pidfile' = NoFile
    /\ cpc' = [cpc EXCEPT ![c] = IF op[c] = "accept" THEN "fork" ELSE "done"]
    /\ UNCHANGED <<sock, agentVars, op>>

\* ... and one that names a process is read a second time.
AcceptRereads(c) ==
    /\ cpc[c] = "reread"
    /\ cpc' = [cpc EXCEPT ![c] = IF pidfile \in Pid THEN "dial" ELSE "done"]
    /\ UNCHANGED <<pidfile, sock, agentVars, op>>

\* accept makes a client for the socket 100ms after it started the agent.
\* Without a socket there is no client, and its use ends accept.
AcceptDials(c) ==
    /\ cpc[c] = "dial"
    /\ cpc' = [cpc EXCEPT ![c] = IF sock = NoFile THEN "done" ELSE "ask"]
    /\ UNCHANGED <<pidfile, sock, agentVars, op>>

\* It asks for the agent's status for three seconds, and goes on with
\* TrickleCandidates when it gets one: see Offers.
AcceptAsks(c) ==
    /\ cpc[c] = "ask"
    /\ cpc' = [cpc EXCEPT ![c] = "done"]
    /\ UNCHANGED <<pidfile, sock, agentVars, op>>

-----------------------------------------------------------------------------

Process(p) == \/ NewReads(p)
              \/ WriteReads(p)
              \/ Truncate(p)
              \/ Fill(p)
              \/ SocketRemoves(p)
              \/ Listens(p)
              \/ Notify(p)
              \/ Interrupted(p)
              \/ Remove(p)
              \/ Exit(p)

Command(c) == \/ StopOpens(c)
              \/ StopSignals(c)
              \/ Fork(c)
              \/ StatusReads(c)
              \/ StatusRemoves(c)
              \/ AcceptRereads(c)
              \/ AcceptDials(c)
              \/ AcceptAsks(c)

Next == \/ \E p \in Pid : Process(p) \/ Terminate(p) \/ Crash(p)
        \/ \E c \in Cmd : Command(c)
        \/ \E c \in Cmd, what \in {"start", "stop", "restart", "status", "accept"} :
              Begin(c, what)

Spec == Init /\ [][Next]_vars

\* Processes and commands that can run do run.  Nobody has to give a command
\* and no process has to crash.
Fairness == /\ \A p \in Pid : WF_vars(Process(p))
            /\ \A c \in Cmd : WF_vars(Command(c))

FairSpec == Spec /\ Fairness

-----------------------------------------------------------------------------
(* Properties *)

TypeOK ==
    /\ pidfile \in Pid \cup {NoFile, Empty}
    /\ sock \in Pid \cup {NoFile}
    /\ apc \in [Pid -> Starting \cup {"off", "serve", "remove", "exit", "gone"}]
    /\ sig \subseteq Pid
    /\ op \in [Cmd -> {"none", "start", "stop", "restart", "status", "accept"}]
    /\ cpc \in [Cmd -> {"idle", "open", "signal", "fork", "look", "clean", "reread", "dial",
                        "ask", "done"}]

Up == {"setup", "listen", "notify", "serve"}
Serving == {p \in Pid : apc[p] \in Up \cup {"remove"}}

\* forkAgent, pidfile.New and Write (webexec.go:232-236, pidfile.go:51-101),
\* "agent is already running, doing nothing": when commands are given one by
\* one there are never two agents, through crashes at any point, stale files,
\* and a restart that does not wait for the agent it stops.
AtMostOneAgent == Cardinality(Serving) <= 1

\* The pid file is how stop and status find the agent: when commands are given
\* one by one a serving agent is never without it.
PidfileNamesAgent ==
    \A p \in Pid : apc[p] \in Up => pidfile = p

\* StartSocketServer removes whatever socket it finds (sock.go:153-159) and the
\* agent that ends leaves its own: when commands are given one by one the
\* socket of a serving agent is its own, also after a restart that overlaps
\* with the end of the agent before.
SocketIsTheAgents == \A p \in Pid : apc[p] \in {"notify", "serve"} => sock = p

\* stop (webexec.go:187-217), the handler of SIGINT and the removal: an agent
\* that was signalled ends.
SignalledAgentEnds == \A p \in Pid : p \in sig ~> apc[p] = "gone"
=============================================================================
