----------------------------- MODULE AgentProofs ------------------------------
(***************************************************************************)
(* Proofs of the safety of Agent, for any number of commands and of        *)
(* processes, when commands are given one by one.                          *)
(***************************************************************************)
EXTENDS Agent, FiniteSetTheorems, TLAPS

USE PidAssumption, OneByOneAssumption

\* The variables of commands and processes keep their types.
THEOREM TypeCorrect == Spec => []TypeOK
<1>1. Init => TypeOK
  BY DEF Init, TypeOK
<1>2. TypeOK /\ [Next]_vars => TypeOK'
  <2> SUFFICES ASSUME TypeOK, [Next]_vars PROVE TypeOK'
    OBVIOUS
  <2> USE DEF TypeOK, Starting, agentVars, cmdVars
  <2>1. ASSUME NEW p \in Pid, NewReads(p) \/ WriteReads(p) \/ Truncate(p) \/ Fill(p) PROVE TypeOK'
    BY <2>1 DEF NewReads, WriteReads, Truncate, Fill
  <2>2. ASSUME NEW p \in Pid, SocketRemoves(p) \/ Listens(p) \/ Notify(p) PROVE TypeOK'
    BY <2>2 DEF SocketRemoves, Listens, Notify
  <2>3. ASSUME NEW p \in Pid, Interrupted(p) \/ Remove(p) \/ Exit(p) \/ Terminate(p) \/ Crash(p)
        PROVE TypeOK'
    BY <2>3 DEF Interrupted, Remove, Exit, Terminate, Crash
  <2>4. ASSUME NEW c \in Cmd, StopOpens(c) \/ StopSignals(c) PROVE TypeOK'
    BY <2>4 DEF StopOpens, StopSignals, AfterStop, Alive
  <2>5. ASSUME NEW c \in Cmd, Fork(c) PROVE TypeOK'
    BY <2>5 DEF Fork
  <2>6. ASSUME NEW c \in Cmd, StatusReads(c) \/ StatusRemoves(c) PROVE TypeOK'
    <3>1. AfterLook(c) \in {"fork", "reread", "done"}
      BY DEF AfterLook
    <3> QED BY <2>6, <3>1 DEF StatusReads, StatusRemoves
  <2>7. ASSUME NEW c \in Cmd, AcceptRereads(c) \/ AcceptDials(c) \/ AcceptAsks(c) PROVE TypeOK'
    BY <2>7 DEF AcceptRereads, AcceptDials, AcceptAsks
  <2>8. ASSUME NEW c \in Cmd, NEW what \in {"start", "stop", "restart", "status", "accept"},
               Begin(c, what)
        PROVE TypeOK'
    BY <2>8 DEF Begin
  <2>9. CASE UNCHANGED vars
    BY <2>9 DEF vars
  <2> QED BY <2>1, <2>2, <2>3, <2>4, <2>5, <2>6, <2>7, <2>8, <2>9 DEF Next, Process, Command
<1> QED BY <1>1, <1>2, PTL DEF Spec

-----------------------------------------------------------------------------
(* One command, one agent *)

\* The agents that are on their way to serve, serve, or have not removed the
\* pid file yet.
Present == Starting \cup {"serve", "remove"}

\* Commands that have not come past their fork.
Before == {"open", "signal", "fork", "look", "clean", "reread"}

\* One command is under way at most.
OneCommand ==
    \A c, d \in Cmd : cpc[c] \notin {"idle", "done"} /\ cpc[d] \notin {"idle", "done"} => c = d

\* One agent is present at most; none is starting while a command is before its
\* fork, and none is there when the pid file is found stale.
OneAgent ==
    /\ \A p, q \in Pid : apc[p] \in Present /\ apc[q] \in Present => p = q
    /\ \A c \in Cmd : cpc[c] \in Before => \A p \in Pid : apc[p] \notin Starting
    /\ \A c \in Cmd : cpc[c] = "clean" => \A p \in Pid : apc[p] \notin Present

\* Pid file and socket are the agent's, once it has written and made them.
Named == /\ \A p \in Pid : apc[p] \in Up \cup {"remove"} => pidfile = p
         /\ \A p \in Pid : apc[p] = "listen" => sock = NoFile
         /\ \A p \in Pid : apc[p] \in {"notify", "serve"} => sock = p

\* The inductive invariant of commands given one by one.
AgentInv == OneCommand /\ OneAgent /\ Named

\* A step of a process that neither starts one nor brings one back.
LEMMA ProcessKeepsOne ==
    ASSUME TypeOK, AgentInv, NEW p \in Pid, cpc' = cpc,
           \A q \in Pid : q # p => apc'[q] = apc[q],
           apc'[p] \in Present => apc[p] \in Present,
           apc'[p] \in Starting => apc[p] \in Starting
    PROVE  OneCommand' /\ OneAgent'
BY DEF AgentInv, OneCommand, OneAgent

\* A step of a command that starts no process.
LEMMA CommandKeepsOne ==
    ASSUME TypeOK, AgentInv, NEW c \in Cmd, apc' = apc,
           \A d \in Cmd : d # c => cpc'[d] = cpc[d],
           cpc[c] \notin {"idle", "done"},
           cpc'[c] \in Before => cpc[c] \in Before,
           cpc'[c] # "clean"
    PROVE  OneCommand' /\ OneAgent'
<1>1. OneCommand'
  BY DEF AgentInv, OneCommand
<1>2. \A d \in Cmd : cpc'[d] \in Before => cpc[d] \in Before
  OBVIOUS
<1>3. \A d \in Cmd : cpc'[d] = "clean" => cpc[d] = "clean"
  OBVIOUS
<1> QED BY <1>1, <1>2, <1>3 DEF AgentInv, OneAgent

\* Whatever the order in which agents are started, stopped, restarted, killed
\* and crash, commands given one by one keep one agent at most, its pid file
\* and its socket (webexec.go:187-349, pidfile.go:51-101, sock.go:150-199).
LEMMA AgentStep ==
    ASSUME OneByOne, TypeOK, AgentInv, [Next]_vars
    PROVE  AgentInv'
<1> USE DEF Present, Before, Up, Starting
<1>0. /\ apc \in [Pid -> Starting \cup {"off", "serve", "remove", "exit", "gone"}]
      /\ cpc \in [Cmd -> {"idle", "open", "signal", "fork", "look", "clean", "reread", "dial",
                        "ask", "done"}]
  BY DEF TypeOK
<1>1. ASSUME NEW p \in Pid, NewReads(p) \/ WriteReads(p) \/ Notify(p) PROVE AgentInv'
  <2>1. /\ UNCHANGED <<pidfile, sock, cpc>> /\ apc[p] \in {"new", "write", "notify"}
        /\ apc'[p] \in {"gone", "write", "truncate", "serve"}
        /\ apc'[p] = "serve" => apc[p] = "notify"
        /\ \A q \in Pid : q # p => apc'[q] = apc[q]
    BY <1>0, <1>1 DEF NewReads, WriteReads, Notify, cmdVars
  <2>2. OneCommand' /\ OneAgent'
    BY <2>1, ProcessKeepsOne
  <2> QED BY <2>1, <2>2 DEF AgentInv, Named
<1>2. ASSUME NEW p \in Pid, Truncate(p) \/ Fill(p) PROVE AgentInv'
  <2>1. /\ UNCHANGED <<sock, cpc>>
        /\ \/ apc[p] = "truncate" /\ apc'[p] = "fill"
           \/ apc[p] = "fill" /\ apc'[p] = "setup" /\ pidfile' = p
        /\ \A q \in Pid : q # p => apc'[q] = apc[q]
    BY <1>0, <1>2 DEF Truncate, Fill, cmdVars
  <2>2. OneCommand' /\ OneAgent'
    BY <2>1, ProcessKeepsOne
  <2>3. \A q \in Pid : q # p => apc[q] \notin Present
    BY <2>1 DEF AgentInv, OneAgent
  <2> QED BY <2>1, <2>2, <2>3 DEF AgentInv, Named
<1>3. ASSUME NEW p \in Pid, SocketRemoves(p) \/ Listens(p) PROVE AgentInv'
  <2>1. /\ UNCHANGED <<pidfile, cpc>>
        /\ \/ apc[p] = "setup" /\ apc'[p] = "listen" /\ sock' = NoFile
           \/ apc[p] = "listen" /\ apc'[p] = "notify" /\ (sock = NoFile => sock' = p)
        /\ \A q \in Pid : q # p => apc'[q] = apc[q]
    BY <1>0, <1>3 DEF SocketRemoves, Listens, cmdVars
  <2>2. OneCommand' /\ OneAgent'
    BY <2>1, ProcessKeepsOne
  <2>3. \A q \in Pid : q # p => apc[q] \notin Present
    BY <2>1 DEF AgentInv, OneAgent
  <2> QED BY <2>1, <2>2, <2>3 DEF AgentInv, Named
<1>4. ASSUME NEW p \in Pid, Interrupted(p) \/ Exit(p) \/ Crash(p) PROVE AgentInv'
  <2>1. /\ UNCHANGED <<pidfile, sock, cpc>>
        /\ apc'[p] \in {"gone", "remove"} /\ (apc'[p] = "remove" => apc[p] = "serve")
        /\ \A q \in Pid : q # p => apc'[q] = apc[q]
    BY <1>0, <1>4 DEF Interrupted, Exit, Crash, cmdVars
  <2>2. OneCommand' /\ OneAgent'
    BY <2>1, ProcessKeepsOne
  <2> QED BY <2>1, <2>2 DEF AgentInv, Named
<1>5. ASSUME NEW p \in Pid, Remove(p) PROVE AgentInv'
  <2>1. /\ UNCHANGED <<sock, cpc>> /\ apc[p] = "remove" /\ apc'[p] = "exit"
        /\ \A q \in Pid : q # p => apc'[q] = apc[q]
    BY <1>0, <1>5 DEF Remove, cmdVars
  <2>2. OneCommand' /\ OneAgent'
    BY <2>1, ProcessKeepsOne
  <2>3. \A q \in Pid : apc'[q] \notin Present
    BY <2>1 DEF AgentInv, OneAgent
  <2> QED BY <2>2, <2>3 DEF AgentInv, Named
<1>6. ASSUME NEW p \in Pid, Terminate(p) PROVE AgentInv'
  BY <1>6 DEF Terminate, cmdVars, AgentInv, OneCommand, OneAgent, Named
<1>7. ASSUME NEW c \in Cmd, StopOpens(c) \/ StopSignals(c) \/ AcceptRereads(c) \/ AcceptDials(c)
                               \/ AcceptAsks(c)
      PROVE AgentInv'
  <2>1. /\ UNCHANGED <<pidfile, sock, apc>>
        /\ cpc[c] \in {"open", "signal", "reread", "dial", "ask"}
        /\ cpc'[c] \in {"signal", "fork", "dial", "ask", "done"}
        /\ cpc'[c] \in {"signal", "fork"} => cpc[c] \in {"open", "signal"}
        /\ \A d \in Cmd : d # c => cpc'[d] = cpc[d]
    BY <1>0, <1>7 DEF StopOpens, StopSignals, AcceptRereads, AcceptDials, AcceptAsks, AfterStop,
                      agentVars
  <2>2. OneCommand' /\ OneAgent'
    BY <2>1, CommandKeepsOne
  <2> QED BY <2>1, <2>2 DEF AgentInv, Named
<1>8. ASSUME NEW c \in Cmd, Fork(c) PROVE AgentInv'
  <2>1. /\ UNCHANGED <<pidfile, sock>> /\ cpc[c] = "fork" /\ cpc'[c] \in {"dial", "done"}
        /\ \A d \in Cmd : d # c => cpc'[d] = cpc[d]
    BY <1>0, <1>8 DEF Fork
  <2>2. CASE apc' = apc
    <3>1. OneCommand' /\ OneAgent'
      BY <2>1, <2>2, CommandKeepsOne
    <3> QED BY <2>1, <2>2, <3>1 DEF AgentInv, Named
  <2>3. CASE apc' # apc
    <3>1. ~Alive(pidfile)
      BY <1>8, <2>3 DEF Fork
    <3>2. PICK p \in Pid : /\ apc[p] = "off" /\ apc'[p] = "new"
                           /\ \A q \in Pid : q # p => apc'[q] = apc[q]
      BY <1>0, <1>8, <2>3 DEF Fork
    <3>3. \A q \in Pid : apc[q] \notin Present
      BY <2>1, <3>1 DEF AgentInv, OneAgent, Named, Alive
    <3>4. \A d \in Cmd : d # c => cpc'[d] \in {"idle", "done"}
      BY <1>0, <2>1 DEF AgentInv, OneCommand
    <3>5. OneCommand'
      BY <3>4 DEF OneCommand
    <3>6. OneAgent'
      BY <2>1, <3>2, <3>3, <3>4 DEF OneAgent
    <3> QED BY <2>1, <3>2, <3>3, <3>5, <3>6 DEF AgentInv, Named
  <2> QED BY <2>2, <2>3
<1>9. ASSUME NEW c \in Cmd, StatusReads(c) PROVE AgentInv'
  <2>1. /\ UNCHANGED <<pidfile, sock, apc>> /\ cpc[c] = "look"
        /\ cpc'[c] \in {"clean", "fork", "reread", "done"}
        /\ cpc'[c] = "clean" => ~Alive(pidfile)
        /\ \A d \in Cmd : d # c => cpc'[d] = cpc[d]
    BY <1>0, <1>9 DEF StatusReads, AfterLook, agentVars
  <2>2. CASE cpc'[c] # "clean"
    <3>1. OneCommand' /\ OneAgent'
      BY <2>1, <2>2, CommandKeepsOne
    <3> QED BY <2>1, <3>1 DEF AgentInv, Named
  <2>3. CASE cpc'[c] = "clean"
    <3>1. \A q \in Pid : apc[q] \notin Present
      BY <2>1, <2>3 DEF AgentInv, OneAgent, Named, Alive
    <3>2. OneCommand' /\ OneAgent'
      BY <1>0, <2>1, <3>1 DEF AgentInv, OneCommand, OneAgent
    <3> QED BY <2>1, <3>2 DEF AgentInv, Named
  <2> QED BY <2>2, <2>3
<1>10. ASSUME NEW c \in Cmd, StatusRemoves(c) PROVE AgentInv'
  <2>1. /\ UNCHANGED <<sock, apc>> /\ cpc[c] = "clean" /\ cpc'[c] \in {"fork", "done"}
        /\ \A d \in Cmd : d # c => cpc'[d] = cpc[d]
    BY <1>0, <1>10 DEF StatusRemoves, agentVars
  <2>2. OneCommand' /\ OneAgent'
    BY <2>1, CommandKeepsOne
  <2>3. \A q \in Pid : apc[q] \notin Present
    BY <2>1 DEF AgentInv, OneAgent
  <2> QED BY <2>1, <2>2, <2>3 DEF AgentInv, Named
<1>11. ASSUME NEW c \in Cmd, NEW what \in {"start", "stop", "restart", "status", "accept"},
              Begin(c, what)
       PROVE AgentInv'
  <2>1. /\ UNCHANGED <<pidfile, sock, apc>> /\ Quiet /\ cpc'[c] \in {"fork", "open", "look"}
        /\ \A d \in Cmd : d # c => cpc'[d] = cpc[d]
    BY <1>0, <1>11 DEF Begin, agentVars
  <2>2. OneCommand' /\ OneAgent'
    BY <2>1 DEF Quiet, AgentInv, OneCommand, OneAgent
  <2> QED BY <2>1, <2>2 DEF AgentInv, Named
<1>12. CASE UNCHANGED vars
  BY <1>12 DEF vars, AgentInv, OneCommand, OneAgent, Named
<1> QED BY <1>1, <1>2, <1>3, <1>4, <1>5, <1>6, <1>7, <1>8, <1>9, <1>10, <1>11, <1>12
        DEF Next, Process, Command

\* It holds throughout when commands are given one by one.
LEMMA AgentInvariant ==
    ASSUME OneByOne PROVE Spec => [](TypeOK /\ AgentInv)
<1>1. Init => AgentInv
  BY DEF Init, AgentInv, OneCommand, OneAgent, Named, Present, Before, Up, Starting
<1>2. TypeOK /\ AgentInv /\ [Next]_vars => AgentInv'
  BY AgentStep
<1> QED BY <1>1, <1>2, TypeCorrect, PTL DEF Spec

\* forkAgent, pidfile.New and Write (webexec.go:232-236, pidfile.go:51-101): of
\* commands given one by one, however many and with crashes and signals at any
\* point, there are never two agents.
THEOREM OneAgentCorrect == ASSUME OneByOne PROVE Spec => []AtMostOneAgent
<1>1. AgentInv => AtMostOneAgent
  <2> SUFFICES ASSUME AgentInv PROVE AtMostOneAgent
    OBVIOUS
  <2>1. \A p, q \in Serving : p = q
    BY DEF AgentInv, OneAgent, Serving, Up, Present, Starting
  <2>2. CASE Serving = {}
    BY <2>2, FS_EmptySet DEF AtMostOneAgent
  <2>3. CASE Serving # {}
    <3>1. PICK p : p \in Serving
      BY <2>3
    <3>2. Serving = {p}
      BY <2>1, <3>1
    <3>3. Cardinality({p}) = 1
      BY FS_Singleton
    <3> QED BY <3>2, <3>3 DEF AtMostOneAgent
  <2> QED BY <2>2, <2>3
<1> QED BY <1>1, AgentInvariant, PTL

\* The pid file names the agent from the moment it was written (pidfile.go:90-101)
\* to its removal (webexec.go:307-330): stop and status find an agent that serves.
THEOREM PidfileCorrect == ASSUME OneByOne PROVE Spec => []PidfileNamesAgent
<1>1. AgentInv => PidfileNamesAgent
  BY DEF AgentInv, Named, PidfileNamesAgent
<1> QED BY <1>1, AgentInvariant, PTL

\* StartSocketServer (sock.go:150-199) removes what it finds and the ending agent
\* leaves its socket: a serving agent's socket is its own.
THEOREM SocketCorrect == ASSUME OneByOne PROVE Spec => []SocketIsTheAgents
<1>1. AgentInv => SocketIsTheAgents
  BY DEF AgentInv, Named, SocketIsTheAgents
<1> QED BY <1>1, AgentInvariant, PTL
=============================================================================
