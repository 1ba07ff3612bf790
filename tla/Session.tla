------------------------------ MODULE Session ------------------------------
(***************************************************************************)
(* The connection and device commands of hero_shell: connect, add_*,       *)
(* remove_*, remove_all_devices, reconnect_device, list_*, set_vareg,      *)
(* configure_fpga and set_linkspeed, one RPC per step, with the state the  *)
(* shell keeps between them (g_stub, g_current_state, the counts in the    *)
(* prompt, g_last_set_vareg_path).  The servers are shared with other      *)
(* clients, may refuse, may lose a reply and may stop answering.           *)
(***************************************************************************)
EXTENDS Naturals, FiniteSets

CONSTANTS
  Servers,        \* endpoints
  Addresses,      \* logical addresses
  Files,          \* VAREG images
  ServerMayHang   \* whether a server may stop answering for good

ASSUME SessionAssumption ==
  /\ IsFiniteSet(Addresses)
  /\ "N/A" \notin Files /\ "none" \notin Servers
  /\ ServerMayHang \in BOOLEAN

VARIABLES
  pc,             \* where the command under way is
  cmd,            \* the command and its arguments
  plan,           \* remove_all_devices: listed devices not yet removed
  removed,        \* remove_all_devices: it has removed one
  echo,           \* connect: the state of its Echo call
  interrupted,    \* g_interrupted
  stub,           \* g_stub, which is that of g_current_endpoint
  state,          \* g_current_state
  routerCount,    \* g_router_count
  detectorCount,  \* g_detector_count
  lastVareg,      \* g_last_set_vareg_path
  devices,        \* servers: what is registered at each address
  calibration,    \* history: whether the last pedcalib_readout was started with
                  \* the file that its detector was loaded with
  held,           \* servers: VAREG images that some device has been loaded with
  loaded,         \* servers: the one that each device was loaded with last
  responsive,     \* servers that still answer
  excuse          \* history: why the counts may differ from the server's

localVars  == <<plan, removed, echo>>
shellVars  == <<stub, state, routerCount, detectorCount>>
serverVars == <<devices, held, loaded, responsive>>
vars == <<pc, cmd, plan, removed, echo, interrupted, stub, state, routerCount,
          detectorCount, lastVareg, calibration, devices, held, loaded, responsive, excuse>>

-----------------------------------------------------------------------------
Kinds == {"absent", "detector", "router"}

AddCommands    == {"add_detector", "add_router"}
RemoveCommands == {"remove_detector", "remove_router", "remove_device"}
\* Those that begin with validate_logical_address.
ListedCommands == RemoveCommands \union {"set_vareg", "configure_fpga"}
CommandNames   ==
  AddCommands \union ListedCommands \union
    {"connect", "remove_all_devices", "reconnect_device", "list_devices", "set_linkspeed",
     "pedcalib_readout"}

Commands == [name : CommandNames \union {"none"}, addr : Addresses \union {"none"},
             server : Servers \union {"none"}, file : Files \union {"N/A"}]

Command(name, a, s, f) == [name |-> name, addr |-> a, server |-> s, file |-> f]
Plain(name) == Command(name, "none", "none", "N/A")
At(name, a) == Command(name, a, "none", "N/A")

Pcs == {"prompt", "completing", "echo", "echoed", "list", "change", "removing", "file", "upload",
        "single", "reconnect", "verify", "routers", "detectors"}

Registered(s) == {a \in Addresses : devices[s][a] # "absent"}
Number(s, kind) == Cardinality({a \in Addresses : devices[s][a] = kind})

\* A command returns, and run_shell clears a pending interrupt at the top of
\* its loop.
Done ==
  /\ pc' = "prompt" /\ cmd' = Plain("none") /\ interrupted' = FALSE
  /\ plan' = {} /\ removed' = FALSE /\ echo' = "none"

Goes(next) == pc' = next /\ UNCHANGED <<cmd, interrupted, localVars>>

Init ==
  /\ pc = "prompt" /\ cmd = Plain("none") /\ plan = {} /\ removed = FALSE
  /\ echo = "none" /\ interrupted = FALSE
  /\ stub = "none" /\ state = "IDLE" /\ routerCount = 0 /\ detectorCount = 0
  /\ lastVareg = "N/A" /\ calibration = "none"
  /\ devices = [s \in Servers |-> [a \in Addresses |-> "absent"]]
  /\ held = {} /\ loaded = [s \in Servers |-> [a \in Addresses |-> "N/A"]]
  /\ responsive = [s \in Servers |-> TRUE]
  /\ excuse = "none"

-----------------------------------------------------------------------------
(* The operator.                                                             *)

\* Only connect looks at g_interrupted; in any other command, and at the
\* prompt, a Ctrl-C has no effect but to be cleared at the next prompt.
SigintRaised ==
  /\ pc \in {"echo", "echoed"} /\ ~interrupted /\ interrupted' = TRUE
  /\ UNCHANGED <<pc, cmd, localVars, shellVars, lastVareg, calibration, serverVars, excuse>>

\* Fault: no check that there is a connection.
EnterUnconnected(c, next) ==
  /\ pc = "prompt" /\ pc' = next /\ cmd' = c
  /\ echo' = IF c.name = "connect" THEN "pending" ELSE "none"
  /\ UNCHANGED <<plan, removed, interrupted, shellVars, lastVareg, calibration, serverVars, excuse>>

\* A command is entered. Each but connect is refused without a connection.
Enter(c, next) ==
  /\ pc = "prompt" /\ pc' = next /\ cmd' = c
  /\ c.name # "connect" => stub # "none"
  /\ echo' = IF c.name = "connect" THEN "pending" ELSE "none"
  /\ UNCHANGED <<plan, removed, interrupted, shellVars, lastVareg, calibration, serverVars, excuse>>

EnterCommand ==
  \/ \E s \in Servers : Enter(Command("connect", "none", s, "N/A"), "echo")
  \/ \E name \in AddCommands \union RemoveCommands \union {"configure_fpga"},
        a \in Addresses : Enter(At(name, a), "list")
  \/ \E a \in Addresses, f \in Files :
        Enter(Command("set_vareg", a, "none", f), "list")
  \/ \E a \in Addresses : Enter(At("reconnect_device", a), "reconnect")
  \/ \E name \in {"list_devices", "remove_all_devices"} : Enter(Plain(name), "list")
  \/ Enter(Plain("set_linkspeed"), "single")
  \/ lastVareg # "N/A" /\ Enter(Plain("pedcalib_readout"), "list")

\* A tab asks for the addresses to choose from, which is one more RPC, with the
\* stub of the moment, while the prompt is shown.
Completing ==
  /\ pc = "prompt" /\ stub # "none" /\ pc' = "completing"
  /\ UNCHANGED <<cmd, localVars, interrupted, shellVars, lastVareg, calibration, serverVars, excuse>>

\* Its candidates, none if it fails, are shown; nothing else comes of it.
Completed ==
  /\ pc = "completing" /\ responsive[stub] /\ pc' = "prompt"
  /\ UNCHANGED <<cmd, localVars, interrupted, shellVars, lastVareg, calibration, serverVars, excuse>>

-----------------------------------------------------------------------------
(* connect: the new channel stays local until its Echo has succeeded.        *)

\* Fault: the Ctrl-C is consumed without cancelling the call.
EchoNotCancelled ==
  /\ pc = "echo" /\ interrupted /\ echo = "pending"
  /\ interrupted' = FALSE
  /\ UNCHANGED <<pc, cmd, localVars, shellVars, lastVareg, calibration, serverVars, excuse>>

\* The completion queue is polled; a Ctrl-C cancels the call once.
EchoCancelled ==
  /\ pc = "echo" /\ interrupted /\ echo = "pending"
  /\ echo' = "cancelled"
  /\ UNCHANGED <<pc, cmd, plan, removed, interrupted, shellVars, lastVareg, calibration, serverVars, excuse>>

\* The event arrives: the call succeeds even if it was cancelled too late.
EchoEvent ==
  /\ pc = "echo" /\ pc' = "echoed"
  /\ \/ responsive[cmd.server] /\ echo' \in {"ok", "failed"}
     \/ echo = "cancelled" /\ echo' = "failed"
  /\ UNCHANGED <<cmd, plan, removed, interrupted, shellVars, lastVareg, calibration, serverVars, excuse>>

\* Fault: the previous connection is dropped, the rest of the state kept.
ConnectFailedDropsStub ==
  /\ pc = "echoed" /\ (interrupted \/ echo = "failed")
  /\ Done /\ stub' = "none"
  /\ UNCHANGED <<state, routerCount, detectorCount, lastVareg, calibration, serverVars, excuse>>

\* Interrupted or failed: the previous connection, if any, stays.
ConnectFailed ==
  /\ pc = "echoed" /\ (interrupted \/ echo = "failed")
  /\ Done
  /\ UNCHANGED <<shellVars, lastVareg, calibration, serverVars, excuse>>

Connected ==
  /\ pc = "echoed" /\ ~interrupted /\ echo = "ok"
  /\ Goes("routers") /\ stub' = cmd.server
  /\ UNCHANGED <<state, routerCount, detectorCount, lastVareg, calibration, serverVars, excuse>>

-----------------------------------------------------------------------------
(* refresh_state_after_device_change: two RPCs, a failed one counts as zero. *)

RoutersCounted ==
  /\ pc = "routers" /\ responsive[stub] /\ Goes("detectors")
  /\ \/ routerCount' = Number(stub, "router") /\ excuse' = "none"
     \/ routerCount' = 0 /\ excuse' = "outside"
  /\ UNCHANGED <<stub, state, detectorCount, lastVareg, calibration, serverVars>>

DetectorsCounted ==
  /\ pc = "detectors" /\ responsive[stub] /\ Done
  /\ \/ detectorCount' = Number(stub, "detector") /\ UNCHANGED excuse
     \/ detectorCount' = 0 /\ excuse' = "outside"
  /\ state' = IF detectorCount' > 0 \/ routerCount > 0 THEN "DEVICE_ADDED" ELSE "CONNECTED"
  /\ UNCHANGED <<stub, routerCount, lastVareg, calibration, serverVars>>

-----------------------------------------------------------------------------
(* GetDeviceList, which most commands begin with.                            *)

\* The list cannot be read, or it refuses the command: an address to add is
\* on it, one to use is not, or there is nothing to do but to print it.
ListEndsCommand ==
  /\ pc = "list" /\ responsive[stub] /\ Done
  /\ UNCHANGED <<shellVars, lastVareg, calibration, serverVars, excuse>>

ListAllowsCommand ==
  /\ pc = "list" /\ responsive[stub]
  /\ \/ cmd.name \in AddCommands /\ cmd.addr \notin Registered(stub) /\ Goes("change")
     \/ cmd.name \in ListedCommands /\ cmd.addr \in Registered(stub)
        /\ Goes(CASE cmd.name \in RemoveCommands -> "change"
                  [] cmd.name = "set_vareg" -> "file"
                  [] cmd.name = "configure_fpga" -> "single")
  /\ UNCHANGED <<shellVars, lastVareg, calibration, serverVars, excuse>>

AllListed ==
  /\ pc = "list" /\ responsive[stub] /\ cmd.name = "remove_all_devices"
  /\ pc' = "removing" /\ plan' = Registered(stub)
  /\ UNCHANGED <<cmd, removed, echo, interrupted, shellVars, lastVareg, calibration, serverVars, excuse>>

-----------------------------------------------------------------------------
(* Add* and Remove*: the server accepts what fits its devices.               *)

Applied(name, a) ==
  [devices EXCEPT ![stub][a] =
     CASE name = "add_detector" -> "detector"
       [] name = "add_router" -> "router"
       [] name \notin AddCommands -> "absent"]

Accepts(name, a) ==
  CASE name \in AddCommands -> devices[stub][a] = "absent"
    [] name = "remove_detector" -> devices[stub][a] = "detector"
    [] name = "remove_router" -> devices[stub][a] = "router"
    [] name \in {"remove_device", "remove_all_devices"} -> devices[stub][a] # "absent"

\* Fault: the counts are not refreshed after the change.
ChangeWithoutRefresh ==
  /\ pc = "change" /\ responsive[stub] /\ Accepts(cmd.name, cmd.addr)
  /\ devices' = Applied(cmd.name, cmd.addr) /\ Done
  /\ UNCHANGED <<shellVars, lastVareg, calibration, held, loaded, responsive, excuse>>

ChangeAccepted ==
  /\ pc = "change" /\ responsive[stub] /\ Accepts(cmd.name, cmd.addr)
  /\ devices' = Applied(cmd.name, cmd.addr) /\ Goes("routers")
  /\ UNCHANGED <<shellVars, lastVareg, calibration, held, loaded, responsive, excuse>>

\* Refused, or the RPC failed before or after the server acted on it.
ChangeFailed ==
  /\ pc = "change" /\ responsive[stub] /\ Done
  /\ \/ UNCHANGED <<devices, excuse>>
     \/ /\ Accepts(cmd.name, cmd.addr)
        /\ devices' = Applied(cmd.name, cmd.addr) /\ excuse' = "outside"
  /\ UNCHANGED <<shellVars, lastVareg, calibration, held, loaded, responsive>>

-----------------------------------------------------------------------------
(* remove_all_devices: one RemoveDevice per listed device.                   *)

NextRemoved ==
  /\ pc = "removing" /\ responsive[stub]
  /\ \E a \in plan :
       /\ Accepts("remove_all_devices", a)
       /\ devices' = Applied("remove_all_devices", a) /\ plan' = plan \ {a}
  /\ removed' = TRUE
  /\ UNCHANGED <<pc, cmd, echo, interrupted, shellVars, lastVareg, calibration, held, loaded, responsive, excuse>>

\* The first failure ends the command, without a refresh.
RemoveAllStopped ==
  /\ pc = "removing" /\ responsive[stub] /\ plan # {} /\ Done
  /\ \/ UNCHANGED devices /\ excuse' = IF removed /\ excuse = "none" THEN "stopped" ELSE excuse
     \/ \E a \in plan :
          /\ Accepts("remove_all_devices", a)
          /\ devices' = Applied("remove_all_devices", a) /\ excuse' = "outside"
  /\ UNCHANGED <<shellVars, lastVareg, calibration, held, loaded, responsive>>

AllRemoved ==
  /\ pc = "removing" /\ plan = {} /\ Goes("routers")
  /\ UNCHANGED <<shellVars, lastVareg, calibration, serverVars, excuse>>

-----------------------------------------------------------------------------
(* set_vareg, configure_fpga, set_linkspeed, reconnect_device.               *)

\* The file cannot be opened or decoded, or its length or checksum is wrong.
FileRejected ==
  /\ pc = "file" /\ Done
  /\ UNCHANGED <<shellVars, lastVareg, calibration, serverVars, excuse>>

FileChecked ==
  /\ pc = "file" /\ Goes("upload")
  /\ UNCHANGED <<shellVars, lastVareg, calibration, serverVars, excuse>>

UploadAccepted ==
  /\ pc = "upload" /\ responsive[stub] /\ Done
  /\ held' = held \union {cmd.file} /\ lastVareg' = cmd.file
  /\ loaded' = [loaded EXCEPT ![stub][cmd.addr] = cmd.file]
  /\ UNCHANGED <<shellVars, calibration, devices, responsive, excuse>>

\* Refused, or the RPC failed before or after the server acted on it.
UploadFailed ==
  /\ pc = "upload" /\ responsive[stub] /\ Done
  /\ \/ UNCHANGED <<held, loaded>>
     \/ /\ held' = held \union {cmd.file}
        /\ loaded' = [loaded EXCEPT ![stub][cmd.addr] = cmd.file]
  /\ UNCHANGED <<shellVars, lastVareg, calibration, devices, responsive, excuse>>

\* ConfigureFPGA, SetLinkSpeed, or the list that verifies a reconnect, which
\* change nothing the shell keeps.
LastRpcReturns ==
  /\ pc \in {"single", "verify"} /\ responsive[stub] /\ Done
  /\ UNCHANGED <<shellVars, lastVareg, calibration, serverVars, excuse>>

\* ReconnectDevice has a deadline of 3 s.
ReconnectAccepted ==
  /\ pc = "reconnect" /\ responsive[stub] /\ Goes("verify")
  /\ UNCHANGED <<shellVars, lastVareg, calibration, serverVars, excuse>>

\* Fault: ReconnectDevice without a deadline.
ReconnectUnbounded ==
  /\ pc = "reconnect" /\ responsive[stub] /\ Done
  /\ UNCHANGED <<shellVars, lastVareg, calibration, serverVars, excuse>>

ReconnectFailed ==
  /\ pc = "reconnect" /\ Done
  /\ UNCHANGED <<shellVars, lastVareg, calibration, serverVars, excuse>>

-----------------------------------------------------------------------------
(* pedcalib_readout, up to where its worker takes over.                      *)

\* It needs exactly one detector, and calibrates it with the file of the last
\* set_vareg, whichever device and server that was for.
CalibrationStarts ==
  /\ pc = "list" /\ responsive[stub] /\ cmd.name = "pedcalib_readout" /\ Done
  /\ \E a \in Addresses :
       /\ \A b \in Addresses : devices[stub][b] = "detector" <=> b = a
       /\ calibration' = IF loaded[stub][a] = lastVareg THEN "matching" ELSE "other"
  /\ UNCHANGED <<shellVars, lastVareg, serverVars, excuse>>

-----------------------------------------------------------------------------
(* The rest of the world.                                                    *)

OtherClientChanges ==
  \E s \in Servers, a \in Addresses, kind \in Kinds :
    /\ responsive[s] /\ devices[s][a] # kind
    /\ devices' = [devices EXCEPT ![s][a] = kind]
    /\ excuse' = IF s = stub THEN "outside" ELSE excuse
    /\ UNCHANGED <<pc, cmd, localVars, interrupted, shellVars, lastVareg, calibration, held, loaded, responsive>>

ServerHangs ==
  /\ ServerMayHang
  /\ \E s \in Servers : responsive[s] /\ responsive' = [responsive EXCEPT ![s] = FALSE]
  /\ UNCHANGED <<pc, cmd, localVars, interrupted, shellVars, lastVareg, calibration, devices, held, loaded, excuse>>

-----------------------------------------------------------------------------
OperatorStep == SigintRaised \/ EnterCommand \/ Completing

ShellStep ==
  \/ EchoCancelled \/ EchoEvent \/ ConnectFailed \/ Connected
  \/ RoutersCounted \/ DetectorsCounted
  \/ ListEndsCommand \/ ListAllowsCommand \/ AllListed
  \/ ChangeAccepted \/ ChangeFailed
  \/ NextRemoved \/ RemoveAllStopped \/ AllRemoved
  \/ FileRejected \/ FileChecked \/ UploadAccepted \/ UploadFailed
  \/ Completed \/ CalibrationStarts \/ LastRpcReturns \/ ReconnectAccepted \/ ReconnectFailed

WorldStep == OtherClientChanges \/ ServerHangs

Next == OperatorStep \/ ShellStep \/ WorldStep

Spec == Init /\ [][Next]_vars

\* The shell runs; nothing is assumed of a server that has stopped answering.
FairSpec == Spec /\ WF_vars(ShellStep)

-----------------------------------------------------------------------------
(* Safety.                                                                   *)

CommandType ==
  /\ pc \in Pcs /\ cmd \in Commands
  /\ plan \in SUBSET Addresses /\ removed \in BOOLEAN
  /\ echo \in {"none", "pending", "cancelled", "ok", "failed"} /\ interrupted \in BOOLEAN
ShellType ==
  /\ stub \in Servers \union {"none"} /\ state \in {"IDLE", "CONNECTED", "DEVICE_ADDED"}
  /\ routerCount \in Nat /\ detectorCount \in Nat
  /\ lastVareg \in Files \union {"N/A"} /\ calibration \in {"none", "matching", "other"}
ServerType ==
  /\ devices \in [Servers -> [Addresses -> Kinds]]
  /\ held \in SUBSET Files /\ loaded \in [Servers -> [Addresses -> Files \union {"N/A"}]]
  /\ responsive \in [Servers -> BOOLEAN]
  /\ excuse \in {"none", "outside", "stopped"}

\* The arguments a step uses are there: a server, a device, a file, a stub.
ArgumentsPresent ==
  /\ pc \in {"echo", "echoed"} => cmd.server \in Servers
  /\ pc \notin {"prompt", "echo", "echoed"} => stub \in Servers
  /\ pc = "change" => cmd.addr \in Addresses
  /\ pc \in {"file", "upload"} => cmd.file \in Files /\ cmd.addr \in Addresses
  /\ pc = "list" /\ cmd.name \notin {"list_devices", "remove_all_devices", "pedcalib_readout"} =>
       cmd.addr \in Addresses
  /\ pc = "list" /\ cmd.name = "set_vareg" => cmd.file \in Files

\* Every variable has its type.
TypeOK == CommandType /\ ShellType /\ ServerType /\ ArgumentsPresent

\* At the prompt the shell's state, on which completion and help depend, agrees
\* with its connection and its counts, however the last command ended: a failed
\* or interrupted connect leaves nothing half done.
StateFollowsCounts ==
  pc = "prompt" =>
    /\ state = "IDLE" <=> stub = "none"
    /\ state = "DEVICE_ADDED" <=> routerCount + detectorCount > 0

\* At the prompt the counts are those of the connected server, unless another
\* client changed them, an RPC failed, or remove_all_devices stopped half-way.
CountsCurrent ==
  pc = "prompt" /\ stub # "none" /\ excuse = "none" =>
    routerCount = Number(stub, "router") /\ detectorCount = Number(stub, "detector")

\* The VAREG file named in log.txt and used by a calibration is one that a
\* device has been loaded with.
ProvenanceAccepted == lastVareg # "N/A" => lastVareg \in held

(* Statements of the documentation that the code does not keep.              *)

\* A calibration corrects the register that its data was taken with: the
\* "current Del_reg" of docs/COMMANDS.md:476 is the one the detector has.
CalibrationCorrectsCurrent == calibration # "other"

(* Liveness.                                                                 *)

\* RPCs without a deadline to a server that has stopped answering.
Stuck ==
  \/ pc \in {"completing", "list", "change", "removing", "upload", "single", "verify", "routers",
             "detectors"} /\ ~responsive[stub]
  \/ pc = "echo" /\ ~responsive[cmd.server] /\ ~interrupted

\* A command returns to the prompt unless it is stuck in such an RPC.
CommandReturns == pc # "prompt" ~> (pc = "prompt" \/ Stuck)

\* A Ctrl-C ends a pending connection attempt, even to a server that does not
\* answer.
ConnectInterruptible == (pc = "echo" /\ interrupted) ~> pc # "echo"

\* A lost server connection does not block the shell in reconnect_device
\* (docs/COMMANDS.md:213).
ReconnectReturns == pc = "reconnect" ~> pc = "prompt"

=============================================================================
