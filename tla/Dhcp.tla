-------------------------------- MODULE Dhcp --------------------------------
(***************************************************************************)
(* The agent's DHCP servers: one dnsmasq per VM, remembered in a PID file, *)
(* a status file and a map in memory.  Calls run at once under a mutex;    *)
(* a goroutine per server waits for its end.  The agent may stop or die    *)
(* and start again, and finds only the files.  Nothing in the agent calls  *)
(* the manager yet.                                                        *)
(***************************************************************************)
EXTENDS Naturals, FiniteSets

CONSTANTS VMs, Callers, None,
          MaxPid, MaxCalls, MaxFaults   \* bounds

Pids == 1..MaxPid
NoPid == 0

VARIABLES alive,     \* live dnsmasq processes
          owner,     \* owner[p]: the VM a process was started for
          pidFile,   \* pidFile[v]: its content, NoPid if there is none
          status,    \* VMs with a status file
          tracked,   \* runningProcs: tracked[v], NoPid if not in the map
          monitors,  \* processes whose monitor has not finished
          mu,        \* the holder of the mutex, or None
          call,      \* call[c]: what a caller is doing
          calls, faults,
          orphaned   \* history: VMs with a server that no file names

fileVars == <<pidFile, status>>
vars == <<alive, owner, fileVars, tracked, monitors, mu, call, calls, faults, orphaned>>

Idle == [op |-> "idle", v |-> None, pid |-> NoPid, pc |-> "none"]
At(c, pc) == call[c].pc = pc
Goto(c, pc) == call' = [call EXCEPT ![c].pc = pc]
Done(c) == call' = [call EXCEPT ![c] = Idle]
Fault == faults < MaxFaults /\ faults' = faults + 1
NoFault == UNCHANGED faults
Lock(c) == mu = None /\ mu' = c
Unlock == mu' = None

(* isProcessRunning; 0 never is.                                           *)
IsProcessRunning(p) == p \in alive

CleanupVMFiles(v) == pidFile' = [pidFile EXCEPT ![v] = NoPid] /\ status' = status \ {v}

-----------------------------------------------------------------------------

Request(c) ==
  \E v \in VMs, op \in {"Start", "Stop", "Restart"} :
    /\ call[c] = Idle /\ c = CHOOSE x \in Callers : call[x] = Idle
    /\ calls < MaxCalls /\ calls' = calls + 1
    /\ call' = [call EXCEPT ![c] = [op |-> op, v |-> v, pid |-> NoPid,
                  pc |-> CASE op = "Start" -> "start" [] op = "Stop" -> "stop" [] OTHER -> "lease"]]
    /\ UNCHANGED <<alive, owner, fileVars, tracked, monitors, mu, faults, orphaned>>

(* Mutant: only the map is asked.                                          *)
TrackedIsRunning(v) == IsProcessRunning(tracked[v])

(* The map, then the PID file.                                             *)
CheckExistingDHCPProcess(v) == IsProcessRunning(tracked[v]) \/ IsProcessRunning(pidFile[v])

(* checkDNSMasqAvailable may fail; then the mutex, and the check.          *)
StartDHCPForVM(c) ==
  LET v == call[c].v IN
  /\ At(c, "start") /\ mu = None
  /\ \/ /\ CheckExistingDHCPProcess(v) /\ Done(c) /\ NoFault
        /\ tracked' = [tracked EXCEPT ![v] = IF IsProcessRunning(@) THEN @ ELSE NoPid]
        /\ UNCHANGED mu
     \/ /\ ~CheckExistingDHCPProcess(v) /\ Lock(c) /\ Goto(c, "spawn") /\ NoFault
        /\ tracked' = [tracked EXCEPT ![v] = NoPid]
     \/ Fault /\ Done(c) /\ UNCHANGED <<tracked, mu>>
  /\ UNCHANGED <<alive, owner, fileVars, monitors, orphaned>>

(* writeDHCPConfigFiles, and the start of the process.                     *)
StartDNSMasqProcess(c) ==
  LET p == CHOOSE x \in Pids : owner[x] = None IN
  /\ At(c, "spawn") /\ \E x \in Pids : owner[x] = None
  /\ \/ /\ alive' = alive \cup {p} /\ owner' = [owner EXCEPT ![p] = call[c].v]
        /\ call' = [call EXCEPT ![c].pid = p, ![c].pc = "pidfile"] /\ NoFault /\ UNCHANGED mu
     \/ Fault /\ Done(c) /\ Unlock /\ UNCHANGED <<alive, owner>>
  /\ UNCHANGED <<fileVars, tracked, monitors, orphaned>>

(* A server whose PID could not be written is killed.                      *)
WritePIDFile(c) ==
  LET p == call[c].pid IN
  /\ At(c, "pidfile")
  /\ \/ /\ pidFile' = [pidFile EXCEPT ![call[c].v] = p] /\ Goto(c, "track") /\ NoFault
        /\ UNCHANGED <<alive, mu>>
     \/ Fault /\ alive' = alive \ {p} /\ Done(c) /\ Unlock /\ UNCHANGED pidFile
  /\ UNCHANGED <<owner, status, tracked, monitors, orphaned>>

(* trackDHCPProcess, which only logs that a status could not be written,   *)
(* and startProcessMonitor.                                                *)
TrackDHCPProcess(c) ==
  LET v == call[c].v IN
  /\ At(c, "track")
  /\ \/ status' = status \cup {v} /\ NoFault
     \/ Fault /\ UNCHANGED status
  /\ tracked' = [tracked EXCEPT ![v] = call[c].pid]
  /\ monitors' = monitors \cup {call[c].pid}
  /\ Done(c) /\ Unlock
  /\ UNCHANGED <<alive, owner, pidFile, orphaned>>

(* SIGTERM and, after a while, SIGKILL.                                    *)
SignalProcess(c) ==
  LET p == pidFile[call[c].v]
      next == IF call[c].op = "Restart" THEN Goto(c, "start") ELSE Done(c)
  IN  /\ At(c, "stop") /\ mu = None
      /\ \/ p = NoPid /\ next /\ UNCHANGED <<alive, mu>>
         \/ p # NoPid /\ alive' = alive \ {p} /\ Lock(c) /\ Goto(c, "clean")
      /\ UNCHANGED <<owner, fileVars, tracked, monitors, faults, orphaned>>

StopDHCPForVM(c) ==
  LET v == call[c].v IN
  /\ At(c, "clean")
  /\ CleanupVMFiles(v)
  /\ tracked' = [tracked EXCEPT ![v] = NoPid]
  /\ Unlock
  /\ IF call[c].op = "Restart" THEN Goto(c, "start") ELSE Done(c)
  /\ UNCHANGED <<alive, owner, monitors, faults, orphaned>>

(* RestartDHCPForVM: without a status file it is refused.                  *)
RestartDHCPForVM(c) ==
  /\ At(c, "lease") /\ mu = None
  /\ IF call[c].v \in status THEN Goto(c, "stop") ELSE Done(c)
  /\ UNCHANGED <<alive, owner, fileVars, tracked, monitors, mu, faults, orphaned>>

(* Mutant: the monitor cleans up as StopDHCPForVM does.                    *)
MonitorCleansUp(v) == CleanupVMFiles(v)

(* The lease is written back as stopped, if there still is one.            *)
MonitorSavesStatus(v) == UNCHANGED fileVars

(* The rest of monitorProcess, whichever server is the VM's by now.        *)
MonitorProcess(p) ==
  /\ p \in monitors /\ p \notin alive /\ mu = None
  /\ monitors' = monitors \ {p}
  /\ tracked' = [tracked EXCEPT ![owner[p]] = NoPid]
  /\ MonitorSavesStatus(owner[p])
  /\ UNCHANGED <<alive, owner, mu, call, calls, faults, orphaned>>

Step(c) ==
  /\ \/ StartDHCPForVM(c) \/ StartDNSMasqProcess(c) \/ WritePIDFile(c) \/ TrackDHCPProcess(c)
     \/ SignalProcess(c) \/ StopDHCPForVM(c) \/ RestartDHCPForVM(c)
  /\ UNCHANGED calls

-----------------------------------------------------------------------------

DNSMasqDies(p) ==
  /\ p \in alive /\ alive' = alive \ {p}
  /\ UNCHANGED <<owner, fileVars, tracked, monitors, mu, call, calls, faults, orphaned>>

NewAgent ==
  /\ tracked' = [v \in VMs |-> NoPid] /\ monitors' = {} /\ mu' = None
  /\ call' = [c \in Callers |-> Idle]
  /\ orphaned' = orphaned \cup {call[c].v : c \in {c \in Callers : At(c, "pidfile") /\ call[c].pid \in alive}}

(* The agent stops: the monitors kill their servers.                       *)
AgentStops ==
  /\ Fault /\ NewAgent /\ alive' = alive \ monitors
  /\ UNCHANGED <<owner, fileVars, calls>>

(* The agent dies: the servers live on.                                    *)
AgentDies ==
  /\ Fault /\ NewAgent
  /\ UNCHANGED <<alive, owner, fileVars, calls>>

(* At start-up, before any call.                                           *)
CleanupStaleProcesses ==
  LET stale == {v \in VMs : pidFile[v] # NoPid} IN
  /\ stale # {} /\ monitors = {} /\ \A c \in Callers : call[c] = Idle
  /\ alive' = alive \ {pidFile[v] : v \in stale}
  /\ pidFile' = [v \in VMs |-> NoPid] /\ status' = status \ stale
  /\ UNCHANGED <<owner, tracked, monitors, mu, call, calls, faults, orphaned>>

Init ==
  /\ alive = {} /\ owner = [p \in Pids |-> None]
  /\ pidFile = [v \in VMs |-> NoPid] /\ status = {}
  /\ tracked = [v \in VMs |-> NoPid] /\ monitors = {} /\ mu = None
  /\ call = [c \in Callers |-> Idle]
  /\ calls = 0 /\ faults = 0 /\ orphaned = {}

Next ==
  \/ \E c \in Callers : Request(c) \/ Step(c)
  \/ \E p \in Pids : MonitorProcess(p) \/ DNSMasqDies(p)
  \/ AgentStops \/ AgentDies \/ CleanupStaleProcesses

Spec == Init /\ [][Next]_vars

-----------------------------------------------------------------------------

TypeOK ==
  /\ alive \subseteq Pids /\ owner \in [Pids -> VMs \cup {None}]
  /\ pidFile \in [VMs -> Pids \cup {NoPid}] /\ tracked \in [VMs -> Pids \cup {NoPid}]
  /\ status \subseteq VMs /\ monitors \subseteq Pids /\ mu \in Callers \cup {None}

ServersOf(v) == {p \in alive : owner[p] = v}

(* A VM never has two DHCP servers, whatever the order of starts, stops,   *)
(* restarts and late monitors, and after the agent was started again       *)
(* (checkExistingDHCPProcess).  Excepted is a VM whose server's PID was    *)
(* never written because the agent died.                                   *)
OneServerPerVM == \A v \in VMs \ orphaned : Cardinality(ServersOf(v)) <= 1

(* Every server can be stopped: outside a start under way the PID file     *)
(* names it, though the map may have forgotten it (StopDHCPForVM).         *)
ServerCanBeStopped ==
  \A v \in VMs \ orphaned :
    (\A c \in Callers : ~(At(c, "pidfile") /\ call[c].v = v)) => ServersOf(v) \subseteq {pidFile[v]}

=============================================================================
