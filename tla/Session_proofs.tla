--------------------------- MODULE Session_proofs ---------------------------
(***************************************************************************)
(* Proofs about module Session, for any number of servers, addresses and   *)
(* VAREG files.                                                            *)
(***************************************************************************)
EXTENDS Session, FiniteSetTheorems, TLAPS

USE SessionAssumption

\* Between commands, and in every command that is not refreshing them, the
\* shell's state agrees with its connection and its counts.
StateInv ==
  pc \notin {"routers", "detectors"} =>
    /\ state = "IDLE" <=> stub = "none"
    /\ state = "DEVICE_ADDED" <=> routerCount + detectorCount > 0

\* The counts are right unless excused, being refreshed, or overtaken by a
\* remove_all_devices under way, which ends with a refresh or an excuse.
CountInv ==
  /\ removed => pc \in {"removing", "routers", "detectors"}
  /\ pc = "detectors" /\ excuse = "none" => routerCount = Number(stub, "router")
  /\ pc \notin {"routers", "detectors"} /\ ~removed /\ stub # "none" /\ excuse = "none" =>
       routerCount = Number(stub, "router") /\ detectorCount = Number(stub, "detector")

Inv == TypeOK /\ StateInv /\ CountInv /\ ProvenanceAccepted

\* The number of devices of a kind is a natural number.
LEMMA NumberType == \A s, kind : Number(s, kind) \in Nat
<1> SUFFICES ASSUME NEW s, NEW kind PROVE Number(s, kind) \in Nat
  OBVIOUS
<1>1. {a \in Addresses : devices[s][a] = kind} \subseteq Addresses
  OBVIOUS
<1>2. IsFiniteSet({a \in Addresses : devices[s][a] = kind})
  BY <1>1, FS_Subset
<1> QED
  BY <1>2, FS_CardinalityType DEF Number

\* A change of one address keeps the type of the servers' devices.
LEMMA AppliedType ==
  ASSUME TypeOK, stub \in Servers, NEW name, NEW a \in Addresses
  PROVE  Applied(name, a) \in [Servers -> [Addresses -> Kinds]]
<1> DEFINE kind == CASE name = "add_detector" -> "detector"
                     [] name = "add_router" -> "router"
                     [] name \notin AddCommands -> "absent"
<1>1. kind \in Kinds
  BY DEF AddCommands, Kinds
<1>2. [devices[stub] EXCEPT ![a] = kind] \in [Addresses -> Kinds]
  BY <1>1 DEF TypeOK, ServerType
<1>3. Applied(name, a) = [devices EXCEPT ![stub] = [devices[stub] EXCEPT ![a] = kind]]
  BY DEF Applied
<1> QED
  BY <1>2, <1>3 DEF TypeOK, ServerType

\* An upload to one device keeps the type of what the devices are loaded with.
LEMMA LoadedType ==
  ASSUME TypeOK, stub \in Servers, NEW a \in Addresses, NEW f \in Files
  PROVE  [loaded EXCEPT ![stub][a] = f] \in [Servers -> [Addresses -> Files \union {"N/A"}]]
<1>1. [loaded[stub] EXCEPT ![a] = f] \in [Addresses -> Files \union {"N/A"}]
  BY DEF TypeOK, ServerType
<1> QED
  BY <1>1 DEF TypeOK, ServerType

\* TypeOK is an invariant by itself.
LEMMA TypeStep == TypeOK /\ [Next]_vars => TypeOK'
<1> SUFFICES ASSUME TypeOK, [Next]_vars PROVE TypeOK'
  OBVIOUS
<1> USE DEF TypeOK, Done, Goes, Command, Plain, At, Enter, localVars, shellVars, serverVars, Commands, CommandNames, AddCommands, RemoveCommands, ListedCommands, Pcs, Kinds, Registered
<1>1. CASE SigintRaised
  <2>1. CommandType'
    BY <1>1 DEF SigintRaised, ArgumentsPresent, CommandType, ServerType, ShellType
  <2>2. ShellType'
    BY <1>1 DEF SigintRaised, ArgumentsPresent, CommandType, ServerType, ShellType
  <2>3. ServerType'
    BY <1>1 DEF SigintRaised, ArgumentsPresent, CommandType, ServerType, ShellType
  <2>4. ArgumentsPresent'
    BY <1>1 DEF SigintRaised, ArgumentsPresent, CommandType, ServerType, ShellType
  <2> QED
    BY <2>1, <2>2, <2>3, <2>4
<1>2. CASE EnterCommand
  <2>1. CommandType'
    BY <1>2 DEF EnterCommand, ArgumentsPresent, CommandType, ServerType, ShellType
  <2>2. ShellType'
    BY <1>2 DEF EnterCommand, ArgumentsPresent, CommandType, ServerType, ShellType
  <2>3. ServerType'
    BY <1>2 DEF EnterCommand, ArgumentsPresent, CommandType, ServerType, ShellType
  <2>4. ArgumentsPresent'
    BY <1>2 DEF EnterCommand, ArgumentsPresent, CommandType, ServerType, ShellType
  <2> QED
    BY <2>1, <2>2, <2>3, <2>4
<1>3. CASE EchoCancelled
  <2>1. CommandType'
    BY <1>3 DEF EchoCancelled, ArgumentsPresent, CommandType, ServerType, ShellType
  <2>2. ShellType'
    BY <1>3 DEF EchoCancelled, ArgumentsPresent, CommandType, ServerType, ShellType
  <2>3. ServerType'
    BY <1>3 DEF EchoCancelled, ArgumentsPresent, CommandType, ServerType, ShellType
  <2>4. ArgumentsPresent'
    BY <1>3 DEF EchoCancelled, ArgumentsPresent, CommandType, ServerType, ShellType
  <2> QED
    BY <2>1, <2>2, <2>3, <2>4
<1>4. CASE EchoEvent
  <2>1. CommandType'
    BY <1>4 DEF EchoEvent, ArgumentsPresent, CommandType, ServerType, ShellType
  <2>2. ShellType'
    BY <1>4 DEF EchoEvent, ArgumentsPresent, CommandType, ServerType, ShellType
  <2>3. ServerType'
    BY <1>4 DEF EchoEvent, ArgumentsPresent, CommandType, ServerType, ShellType
  <2>4. ArgumentsPresent'
    BY <1>4 DEF EchoEvent, ArgumentsPresent, CommandType, ServerType, ShellType
  <2> QED
    BY <2>1, <2>2, <2>3, <2>4
<1>5. CASE ConnectFailed
  <2>1. CommandType'
    BY <1>5 DEF ConnectFailed, ArgumentsPresent, CommandType, ServerType, ShellType
  <2>2. ShellType'
    BY <1>5 DEF ConnectFailed, ArgumentsPresent, CommandType, ServerType, ShellType
  <2>3. ServerType'
    BY <1>5 DEF ConnectFailed, ArgumentsPresent, CommandType, ServerType, ShellType
  <2>4. ArgumentsPresent'
    BY <1>5 DEF ConnectFailed, ArgumentsPresent, CommandType, ServerType, ShellType
  <2> QED
    BY <2>1, <2>2, <2>3, <2>4
<1>6. CASE Connected
  <2>1. CommandType'
    BY <1>6 DEF Connected, ArgumentsPresent, CommandType, ServerType, ShellType
  <2>2. ShellType'
    BY <1>6 DEF Connected, ArgumentsPresent, CommandType, ServerType, ShellType
  <2>3. ServerType'
    BY <1>6 DEF Connected, ArgumentsPresent, CommandType, ServerType, ShellType
  <2>4. ArgumentsPresent'
    BY <1>6 DEF Connected, ArgumentsPresent, CommandType, ServerType, ShellType
  <2> QED
    BY <2>1, <2>2, <2>3, <2>4
<1>7. CASE RoutersCounted
  <2>1. CommandType'
    BY <1>7 DEF RoutersCounted, ArgumentsPresent, CommandType, ServerType, ShellType
  <2>2. ShellType'
    BY <1>7, NumberType DEF RoutersCounted, ArgumentsPresent, CommandType, ServerType, ShellType
  <2>3. ServerType'
    BY <1>7 DEF RoutersCounted, ArgumentsPresent, CommandType, ServerType, ShellType
  <2>4. ArgumentsPresent'
    BY <1>7 DEF RoutersCounted, ArgumentsPresent, CommandType, ServerType, ShellType
  <2> QED
    BY <2>1, <2>2, <2>3, <2>4
<1>8. CASE DetectorsCounted
  <2>1. CommandType'
    BY <1>8 DEF DetectorsCounted, ArgumentsPresent, CommandType, ServerType, ShellType
  <2>2. ShellType'
    BY <1>8, NumberType DEF DetectorsCounted, ArgumentsPresent, CommandType, ServerType, ShellType
  <2>3. ServerType'
    BY <1>8 DEF DetectorsCounted, ArgumentsPresent, CommandType, ServerType, ShellType
  <2>4. ArgumentsPresent'
    BY <1>8 DEF DetectorsCounted, ArgumentsPresent, CommandType, ServerType, ShellType
  <2> QED
    BY <2>1, <2>2, <2>3, <2>4
<1>9. CASE ListEndsCommand
  <2>1. CommandType'
    BY <1>9 DEF ListEndsCommand, ArgumentsPresent, CommandType, ServerType, ShellType
  <2>2. ShellType'
    BY <1>9 DEF ListEndsCommand, ArgumentsPresent, CommandType, ServerType, ShellType
  <2>3. ServerType'
    BY <1>9 DEF ListEndsCommand, ArgumentsPresent, CommandType, ServerType, ShellType
  <2>4. ArgumentsPresent'
    BY <1>9 DEF ListEndsCommand, ArgumentsPresent, CommandType, ServerType, ShellType
  <2> QED
    BY <2>1, <2>2, <2>3, <2>4
<1>10. CASE ListAllowsCommand
  <2>1. CommandType'
    BY <1>10 DEF ListAllowsCommand, ArgumentsPresent, CommandType, ServerType, ShellType
  <2>2. ShellType'
    BY <1>10 DEF ListAllowsCommand, ArgumentsPresent, CommandType, ServerType, ShellType
  <2>3. ServerType'
    BY <1>10 DEF ListAllowsCommand, ArgumentsPresent, CommandType, ServerType, ShellType
  <2>4. ArgumentsPresent'
    BY <1>10 DEF ListAllowsCommand, ArgumentsPresent, CommandType, ServerType, ShellType
  <2> QED
    BY <2>1, <2>2, <2>3, <2>4
<1>11. CASE AllListed
  <2>1. CommandType'
    BY <1>11 DEF AllListed, ArgumentsPresent, CommandType, ServerType, ShellType
  <2>2. ShellType'
    BY <1>11 DEF AllListed, ArgumentsPresent, CommandType, ServerType, ShellType
  <2>3. ServerType'
    BY <1>11 DEF AllListed, ArgumentsPresent, CommandType, ServerType, ShellType
  <2>4. ArgumentsPresent'
    BY <1>11 DEF AllListed, ArgumentsPresent, CommandType, ServerType, ShellType
  <2> QED
    BY <2>1, <2>2, <2>3, <2>4
<1>12. CASE ChangeAccepted
  <2>1. CommandType'
    BY <1>12 DEF ChangeAccepted, ArgumentsPresent, CommandType, ServerType, ShellType
  <2>2. ShellType'
    BY <1>12 DEF ChangeAccepted, ArgumentsPresent, CommandType, ServerType, ShellType
  <2>3. ServerType'
    BY <1>12, AppliedType DEF ChangeAccepted, ArgumentsPresent, CommandType, ServerType, ShellType
  <2>4. ArgumentsPresent'
    BY <1>12 DEF ChangeAccepted, ArgumentsPresent, CommandType, ServerType, ShellType
  <2> QED
    BY <2>1, <2>2, <2>3, <2>4
<1>13. CASE ChangeFailed
  <2>1. CommandType'
    BY <1>13 DEF ChangeFailed, ArgumentsPresent, CommandType, ServerType, ShellType
  <2>2. ShellType'
    BY <1>13 DEF ChangeFailed, ArgumentsPresent, CommandType, ServerType, ShellType
  <2>3. ServerType'
    BY <1>13, AppliedType DEF ChangeFailed, ArgumentsPresent, CommandType, ServerType, ShellType
  <2>4. ArgumentsPresent'
    BY <1>13 DEF ChangeFailed, ArgumentsPresent, CommandType, ServerType, ShellType
  <2> QED
    BY <2>1, <2>2, <2>3, <2>4
<1>14. CASE NextRemoved
  <2>1. CommandType'
    BY <1>14 DEF NextRemoved, ArgumentsPresent, CommandType, ServerType, ShellType
  <2>2. ShellType'
    BY <1>14 DEF NextRemoved, ArgumentsPresent, CommandType, ServerType, ShellType
  <2>3. ServerType'
    BY <1>14, AppliedType DEF NextRemoved, ArgumentsPresent, CommandType, ServerType, ShellType
  <2>4. ArgumentsPresent'
    BY <1>14 DEF NextRemoved, ArgumentsPresent, CommandType, ServerType, ShellType
  <2> QED
    BY <2>1, <2>2, <2>3, <2>4
<1>15. CASE RemoveAllStopped
  <2>1. CommandType'
    BY <1>15 DEF RemoveAllStopped, ArgumentsPresent, CommandType, ServerType, ShellType
  <2>2. ShellType'
    BY <1>15 DEF RemoveAllStopped, ArgumentsPresent, CommandType, ServerType, ShellType
  <2>3. ServerType'
    BY <1>15, AppliedType DEF RemoveAllStopped, ArgumentsPresent, CommandType, ServerType, ShellType
  <2>4. ArgumentsPresent'
    BY <1>15 DEF RemoveAllStopped, ArgumentsPresent, CommandType, ServerType, ShellType
  <2> QED
    BY <2>1, <2>2, <2>3, <2>4
<1>16. CASE AllRemoved
  <2>1. CommandType'
    BY <1>16 DEF AllRemoved, ArgumentsPresent, CommandType, ServerType, ShellType
  <2>2. ShellType'
    BY <1>16 DEF AllRemoved, ArgumentsPresent, CommandType, ServerType, ShellType
  <2>3. ServerType'
    BY <1>16 DEF AllRemoved, ArgumentsPresent, CommandType, ServerType, ShellType
  <2>4. ArgumentsPresent'
    BY <1>16 DEF AllRemoved, ArgumentsPresent, CommandType, ServerType, ShellType
  <2> QED
    BY <2>1, <2>2, <2>3, <2>4
<1>17. CASE FileRejected
  <2>1. CommandType'
    BY <1>17 DEF FileRejected, ArgumentsPresent, CommandType, ServerType, ShellType
  <2>2. ShellType'
    BY <1>17 DEF FileRejected, ArgumentsPresent, CommandType, ServerType, ShellType
  <2>3. ServerType'
    BY <1>17 DEF FileRejected, ArgumentsPresent, CommandType, ServerType, ShellType
  <2>4. ArgumentsPresent'
    BY <1>17 DEF FileRejected, ArgumentsPresent, CommandType, ServerType, ShellType
  <2> QED
    BY <2>1, <2>2, <2>3, <2>4
<1>18. CASE FileChecked
  <2>1. CommandType'
    BY <1>18 DEF FileChecked, ArgumentsPresent, CommandType, ServerType, ShellType
  <2>2. ShellType'
    BY <1>18 DEF FileChecked, ArgumentsPresent, CommandType, ServerType, ShellType
  <2>3. ServerType'
    BY <1>18 DEF FileChecked, ArgumentsPresent, CommandType, ServerType, ShellType
  <2>4. ArgumentsPresent'
    BY <1>18 DEF FileChecked, ArgumentsPresent, CommandType, ServerType, ShellType
  <2> QED
    BY <2>1, <2>2, <2>3, <2>4
<1>19. CASE UploadAccepted
  <2>1. CommandType'
    BY <1>19 DEF UploadAccepted, ArgumentsPresent, CommandType, ServerType, ShellType
  <2>2. ShellType'
    BY <1>19 DEF UploadAccepted, ArgumentsPresent, CommandType, ServerType, ShellType
  <2>3. ServerType'
    BY <1>19, LoadedType DEF UploadAccepted, ArgumentsPresent, CommandType, ServerType, ShellType
  <2>4. ArgumentsPresent'
    BY <1>19 DEF UploadAccepted, ArgumentsPresent, CommandType, ServerType, ShellType
  <2> QED
    BY <2>1, <2>2, <2>3, <2>4
<1>20. CASE UploadFailed
  <2>1. CommandType'
    BY <1>20 DEF UploadFailed, ArgumentsPresent, CommandType, ServerType, ShellType
  <2>2. ShellType'
    BY <1>20 DEF UploadFailed, ArgumentsPresent, CommandType, ServerType, ShellType
  <2>3. ServerType'
    <3>1. stub \in Servers /\ cmd.addr \in Addresses /\ cmd.file \in Files
      BY <1>20 DEF UploadFailed, ArgumentsPresent
    <3>2. [loaded EXCEPT ![stub][cmd.addr] = cmd.file]
            \in [Servers -> [Addresses -> Files \union {"N/A"}]]
      BY <3>1, LoadedType
    <3>3. loaded' \in [Servers -> [Addresses -> Files \union {"N/A"}]]
      BY <1>20, <3>2 DEF UploadFailed, ServerType
    <3>4. held' \in SUBSET Files
      BY <1>20, <3>1 DEF UploadFailed, ServerType
    <3> QED
      BY <1>20, <3>3, <3>4 DEF UploadFailed, ServerType
  <2>4. ArgumentsPresent'
    BY <1>20 DEF UploadFailed, ArgumentsPresent, CommandType, ServerType, ShellType
  <2> QED
    BY <2>1, <2>2, <2>3, <2>4
<1>21. CASE LastRpcReturns
  <2>1. CommandType'
    BY <1>21 DEF LastRpcReturns, ArgumentsPresent, CommandType, ServerType, ShellType
  <2>2. ShellType'
    BY <1>21 DEF LastRpcReturns, ArgumentsPresent, CommandType, ServerType, ShellType
  <2>3. ServerType'
    BY <1>21 DEF LastRpcReturns, ArgumentsPresent, CommandType, ServerType, ShellType
  <2>4. ArgumentsPresent'
    BY <1>21 DEF LastRpcReturns, ArgumentsPresent, CommandType, ServerType, ShellType
  <2> QED
    BY <2>1, <2>2, <2>3, <2>4
<1>22. CASE ReconnectAccepted
  <2>1. CommandType'
    BY <1>22 DEF ReconnectAccepted, ArgumentsPresent, CommandType, ServerType, ShellType
  <2>2. ShellType'
    BY <1>22 DEF ReconnectAccepted, ArgumentsPresent, CommandType, ServerType, ShellType
  <2>3. ServerType'
    BY <1>22 DEF ReconnectAccepted, ArgumentsPresent, CommandType, ServerType, ShellType
  <2>4. ArgumentsPresent'
    BY <1>22 DEF ReconnectAccepted, ArgumentsPresent, CommandType, ServerType, ShellType
  <2> QED
    BY <2>1, <2>2, <2>3, <2>4
<1>23. CASE ReconnectFailed
  <2>1. CommandType'
    BY <1>23 DEF ReconnectFailed, ArgumentsPresent, CommandType, ServerType, ShellType
  <2>2. ShellType'
    BY <1>23 DEF ReconnectFailed, ArgumentsPresent, CommandType, ServerType, ShellType
  <2>3. ServerType'
    BY <1>23 DEF ReconnectFailed, ArgumentsPresent, CommandType, ServerType, ShellType
  <2>4. ArgumentsPresent'
    BY <1>23 DEF ReconnectFailed, ArgumentsPresent, CommandType, ServerType, ShellType
  <2> QED
    BY <2>1, <2>2, <2>3, <2>4
<1>24. CASE OtherClientChanges
  <2>1. CommandType'
    BY <1>24 DEF OtherClientChanges, ArgumentsPresent, CommandType, ServerType, ShellType
  <2>2. ShellType'
    BY <1>24 DEF OtherClientChanges, ArgumentsPresent, CommandType, ServerType, ShellType
  <2>3. ServerType'
    BY <1>24 DEF OtherClientChanges, ArgumentsPresent, CommandType, ServerType, ShellType
  <2>4. ArgumentsPresent'
    BY <1>24 DEF OtherClientChanges, ArgumentsPresent, CommandType, ServerType, ShellType
  <2> QED
    BY <2>1, <2>2, <2>3, <2>4
<1>25. CASE ServerHangs
  <2>1. CommandType'
    BY <1>25 DEF ServerHangs, ArgumentsPresent, CommandType, ServerType, ShellType
  <2>2. ShellType'
    BY <1>25 DEF ServerHangs, ArgumentsPresent, CommandType, ServerType, ShellType
  <2>3. ServerType'
    BY <1>25 DEF ServerHangs, ArgumentsPresent, CommandType, ServerType, ShellType
  <2>4. ArgumentsPresent'
    BY <1>25 DEF ServerHangs, ArgumentsPresent, CommandType, ServerType, ShellType
  <2> QED
    BY <2>1, <2>2, <2>3, <2>4
<1>26. CASE UNCHANGED vars
  <2>1. CommandType'
    BY <1>26 DEF vars, ArgumentsPresent, CommandType, ServerType, ShellType
  <2>2. ShellType'
    BY <1>26 DEF vars, ArgumentsPresent, CommandType, ServerType, ShellType
  <2>3. ServerType'
    BY <1>26 DEF vars, ArgumentsPresent, CommandType, ServerType, ShellType
  <2>4. ArgumentsPresent'
    BY <1>26 DEF vars, ArgumentsPresent, CommandType, ServerType, ShellType
  <2> QED
    BY <2>1, <2>2, <2>3, <2>4
<1>27. CASE Completing
  <2>1. CommandType'
    BY <1>27 DEF Completing, ArgumentsPresent, CommandType, ServerType, ShellType
  <2>2. ShellType'
    BY <1>27 DEF Completing, ArgumentsPresent, CommandType, ServerType, ShellType
  <2>3. ServerType'
    BY <1>27 DEF Completing, ArgumentsPresent, CommandType, ServerType, ShellType
  <2>4. ArgumentsPresent'
    BY <1>27 DEF Completing, ArgumentsPresent, CommandType, ServerType, ShellType
  <2> QED
    BY <2>1, <2>2, <2>3, <2>4
<1>28. CASE Completed
  <2>1. CommandType'
    BY <1>28 DEF Completed, ArgumentsPresent, CommandType, ServerType, ShellType
  <2>2. ShellType'
    BY <1>28 DEF Completed, ArgumentsPresent, CommandType, ServerType, ShellType
  <2>3. ServerType'
    BY <1>28 DEF Completed, ArgumentsPresent, CommandType, ServerType, ShellType
  <2>4. ArgumentsPresent'
    BY <1>28 DEF Completed, ArgumentsPresent, CommandType, ServerType, ShellType
  <2> QED
    BY <2>1, <2>2, <2>3, <2>4
<1>29. CASE CalibrationStarts
  <2>1. CommandType'
    BY <1>29 DEF CalibrationStarts, ArgumentsPresent, CommandType, ServerType, ShellType
  <2>2. ShellType'
    BY <1>29 DEF CalibrationStarts, ArgumentsPresent, CommandType, ServerType, ShellType
  <2>3. ServerType'
    BY <1>29 DEF CalibrationStarts, ArgumentsPresent, CommandType, ServerType, ShellType
  <2>4. ArgumentsPresent'
    BY <1>29 DEF CalibrationStarts, ArgumentsPresent, CommandType, ServerType, ShellType
  <2> QED
    BY <2>1, <2>2, <2>3, <2>4
<1> QED
  BY <1>1, <1>2, <1>3, <1>4, <1>5, <1>6, <1>7, <1>8, <1>9, <1>10, <1>11, <1>12, <1>13, <1>14, <1>15, <1>16, <1>17, <1>18, <1>19, <1>20, <1>21, <1>22, <1>23, <1>24, <1>25, <1>26, <1>27, <1>28, <1>29 DEF Next, OperatorStep, ShellStep, WorldStep

\* The parts of Inv that speak of the counts are kept by every step.
LEMMA CountStep == Inv /\ [Next]_vars => (StateInv /\ CountInv)'
<1> SUFFICES ASSUME Inv, [Next]_vars PROVE (StateInv /\ CountInv)'
  OBVIOUS
<1>0. /\ Number(stub, "router") \in Nat /\ Number(stub, "detector") \in Nat
      /\ TypeOK /\ StateInv /\ CountInv
  BY NumberType DEF Inv
<1> USE <1>0 DEF Done, Goes, localVars, shellVars, serverVars
<1>1. CASE SigintRaised
  <2>1. StateInv'
    BY <1>1 DEF SigintRaised, StateInv, TypeOK, ShellType, ArgumentsPresent
  <2>2. CountInv'
    BY <1>1 DEF SigintRaised, CountInv, TypeOK, ServerType, Number
  <2> QED
    BY <2>1, <2>2
<1>2. CASE EchoCancelled
  <2>1. StateInv'
    BY <1>2 DEF EchoCancelled, StateInv, TypeOK, ShellType, ArgumentsPresent
  <2>2. CountInv'
    BY <1>2 DEF EchoCancelled, CountInv, TypeOK, ServerType, Number
  <2> QED
    BY <2>1, <2>2
<1>3. CASE EchoEvent
  <2>1. StateInv'
    BY <1>3 DEF EchoEvent, StateInv, TypeOK, ShellType, ArgumentsPresent
  <2>2. CountInv'
    BY <1>3 DEF EchoEvent, CountInv, TypeOK, ServerType, Number
  <2> QED
    BY <2>1, <2>2
<1>4. CASE ConnectFailed
  <2>1. StateInv'
    BY <1>4 DEF ConnectFailed, StateInv, TypeOK, ShellType, ArgumentsPresent
  <2>2. CountInv'
    BY <1>4 DEF ConnectFailed, CountInv, TypeOK, ServerType, Number
  <2> QED
    BY <2>1, <2>2
<1>5. CASE Connected
  <2>1. StateInv'
    BY <1>5 DEF Connected, StateInv, TypeOK, ShellType, ArgumentsPresent
  <2>2. CountInv'
    BY <1>5 DEF Connected, CountInv, TypeOK, ServerType, Number
  <2> QED
    BY <2>1, <2>2
<1>6. CASE RoutersCounted
  <2>1. StateInv'
    BY <1>6 DEF RoutersCounted, StateInv, TypeOK, ShellType, ArgumentsPresent
  <2>2. CountInv'
    BY <1>6 DEF RoutersCounted, CountInv, TypeOK, ServerType, Number
  <2> QED
    BY <2>1, <2>2
<1>7. CASE DetectorsCounted
  <2>1. StateInv'
    BY <1>7 DEF DetectorsCounted, StateInv, TypeOK, ShellType, ArgumentsPresent
  <2>2. CountInv'
    BY <1>7 DEF DetectorsCounted, CountInv, TypeOK, ServerType, Number
  <2> QED
    BY <2>1, <2>2
<1>8. CASE ListEndsCommand
  <2>1. StateInv'
    BY <1>8 DEF ListEndsCommand, StateInv, TypeOK, ShellType, ArgumentsPresent
  <2>2. CountInv'
    BY <1>8 DEF ListEndsCommand, CountInv, TypeOK, ServerType, Number
  <2> QED
    BY <2>1, <2>2
<1>9. CASE ListAllowsCommand
  <2>1. /\ pc = "list" /\ pc' \in {"change", "file", "single"}
        /\ UNCHANGED <<devices, removed, stub, state, routerCount, detectorCount, excuse>>
    BY <1>9 DEF ListAllowsCommand, ListedCommands
  <2>2. StateInv'
    BY <2>1 DEF StateInv
  <2>3. CountInv'
    BY <2>1 DEF CountInv, Number
  <2> QED
    BY <2>2, <2>3
<1>10. CASE AllListed
  <2>1. StateInv'
    BY <1>10 DEF AllListed, StateInv, TypeOK, ShellType, ArgumentsPresent
  <2>2. CountInv'
    BY <1>10 DEF AllListed, CountInv, TypeOK, ServerType, Number
  <2> QED
    BY <2>1, <2>2
<1>11. CASE ChangeAccepted
  <2>1. StateInv'
    BY <1>11 DEF ChangeAccepted, StateInv, TypeOK, ShellType, ArgumentsPresent
  <2>2. CountInv'
    BY <1>11 DEF ChangeAccepted, CountInv, TypeOK, ServerType, Number
  <2> QED
    BY <2>1, <2>2
<1>12. CASE ChangeFailed
  <2>1. StateInv'
    BY <1>12 DEF ChangeFailed, StateInv, TypeOK, ShellType, ArgumentsPresent
  <2>2. CountInv'
    BY <1>12 DEF ChangeFailed, CountInv, TypeOK, ServerType, Number
  <2> QED
    BY <2>1, <2>2
<1>13. CASE NextRemoved
  <2>1. StateInv'
    BY <1>13 DEF NextRemoved, StateInv, TypeOK, ShellType, ArgumentsPresent
  <2>2. CountInv'
    BY <1>13 DEF NextRemoved, CountInv, TypeOK, ServerType, Number
  <2> QED
    BY <2>1, <2>2
<1>14. CASE RemoveAllStopped
  <2>1. StateInv'
    BY <1>14 DEF RemoveAllStopped, StateInv, TypeOK, ShellType, ArgumentsPresent
  <2>2. CountInv'
    BY <1>14 DEF RemoveAllStopped, CountInv, TypeOK, ServerType, Number
  <2> QED
    BY <2>1, <2>2
<1>15. CASE AllRemoved
  <2>1. StateInv'
    BY <1>15 DEF AllRemoved, StateInv, TypeOK, ShellType, ArgumentsPresent
  <2>2. CountInv'
    BY <1>15 DEF AllRemoved, CountInv, TypeOK, ServerType, Number
  <2> QED
    BY <2>1, <2>2
<1>16. CASE FileRejected
  <2>1. StateInv'
    BY <1>16 DEF FileRejected, StateInv, TypeOK, ShellType, ArgumentsPresent
  <2>2. CountInv'
    BY <1>16 DEF FileRejected, CountInv, TypeOK, ServerType, Number
  <2> QED
    BY <2>1, <2>2
<1>17. CASE FileChecked
  <2>1. StateInv'
    BY <1>17 DEF FileChecked, StateInv, TypeOK, ShellType, ArgumentsPresent
  <2>2. CountInv'
    BY <1>17 DEF FileChecked, CountInv, TypeOK, ServerType, Number
  <2> QED
    BY <2>1, <2>2
<1>18. CASE UploadAccepted
  <2>1. StateInv'
    BY <1>18 DEF UploadAccepted, StateInv, TypeOK, ShellType, ArgumentsPresent
  <2>2. CountInv'
    BY <1>18 DEF UploadAccepted, CountInv, TypeOK, ServerType, Number
  <2> QED
    BY <2>1, <2>2
<1>19. CASE UploadFailed
  <2>1. StateInv'
    BY <1>19 DEF UploadFailed, StateInv, TypeOK, ShellType, ArgumentsPresent
  <2>2. CountInv'
    BY <1>19 DEF UploadFailed, CountInv, TypeOK, ServerType, Number
  <2> QED
    BY <2>1, <2>2
<1>20. CASE LastRpcReturns
  <2>1. StateInv'
    BY <1>20 DEF LastRpcReturns, StateInv, TypeOK, ShellType, ArgumentsPresent
  <2>2. CountInv'
    BY <1>20 DEF LastRpcReturns, CountInv, TypeOK, ServerType, Number
  <2> QED
    BY <2>1, <2>2
<1>21. CASE ReconnectAccepted
  <2>1. StateInv'
    BY <1>21 DEF ReconnectAccepted, StateInv, TypeOK, ShellType, ArgumentsPresent
  <2>2. CountInv'
    BY <1>21 DEF ReconnectAccepted, CountInv, TypeOK, ServerType, Number
  <2> QED
    BY <2>1, <2>2
<1>22. CASE ReconnectFailed
  <2>1. StateInv'
    BY <1>22 DEF ReconnectFailed, StateInv, TypeOK, ShellType, ArgumentsPresent
  <2>2. CountInv'
    BY <1>22 DEF ReconnectFailed, CountInv, TypeOK, ServerType, Number
  <2> QED
    BY <2>1, <2>2
<1>23. CASE ServerHangs
  <2>1. StateInv'
    BY <1>23 DEF ServerHangs, StateInv, TypeOK, ShellType, ArgumentsPresent
  <2>2. CountInv'
    BY <1>23 DEF ServerHangs, CountInv, TypeOK, ServerType, Number
  <2> QED
    BY <2>1, <2>2
<1>24. CASE UNCHANGED vars
  <2>1. StateInv'
    BY <1>24 DEF vars, StateInv, TypeOK, ShellType, ArgumentsPresent
  <2>2. CountInv'
    BY <1>24 DEF vars, CountInv, TypeOK, ServerType, Number
  <2> QED
    BY <2>1, <2>2
<1>25. CASE EnterCommand
  <2>1. StateInv'
    BY <1>25 DEF EnterCommand, Enter, StateInv
  <2>2. CountInv'
    BY <1>25, SMTT(30) DEF EnterCommand, Enter, CountInv, Number
  <2> QED
    BY <2>1, <2>2
<1>26. CASE OtherClientChanges
  <2>1. StateInv'
    BY <1>26 DEF OtherClientChanges, StateInv
  <2> PICK s \in Servers, a \in Addresses, kind \in Kinds :
         /\ devices' = [devices EXCEPT ![s][a] = kind]
         /\ excuse' = IF s = stub THEN "outside" ELSE excuse
         /\ UNCHANGED <<pc, removed, stub, routerCount, detectorCount>>
    BY <1>26 DEF OtherClientChanges
  <2>2. s # stub /\ stub \in Servers => devices'[stub] = devices[stub]
    BY DEF TypeOK, ServerType
  <2>3. CountInv'
    BY <2>2 DEF CountInv, TypeOK, ShellType, ArgumentsPresent, Number
  <2> QED
    BY <2>1, <2>3
<1>27. CASE Completing
  <2>1. StateInv'
    BY <1>27 DEF Completing, StateInv, TypeOK, ShellType, ArgumentsPresent
  <2>2. CountInv'
    BY <1>27 DEF Completing, CountInv, TypeOK, ServerType, Number
  <2> QED
    BY <2>1, <2>2
<1>28. CASE Completed
  <2>1. StateInv'
    BY <1>28 DEF Completed, StateInv, TypeOK, ShellType, ArgumentsPresent
  <2>2. CountInv'
    BY <1>28 DEF Completed, CountInv, TypeOK, ServerType, Number
  <2> QED
    BY <2>1, <2>2
<1>29. CASE CalibrationStarts
  <2>1. StateInv'
    BY <1>29 DEF CalibrationStarts, StateInv, TypeOK, ShellType, ArgumentsPresent
  <2>2. CountInv'
    BY <1>29 DEF CalibrationStarts, CountInv, TypeOK, ServerType, Number
  <2> QED
    BY <2>1, <2>2
<1> QED
  BY <1>1, <1>2, <1>3, <1>4, <1>5, <1>6, <1>7, <1>8, <1>9, <1>10, <1>11, <1>12, <1>13, <1>14, <1>15, <1>16, <1>17, <1>18, <1>19, <1>20, <1>21, <1>22, <1>23, <1>24, <1>25, <1>26, <1>27, <1>28, <1>29 DEF Next, OperatorStep, ShellStep, WorldStep

\* A VAREG image a device was loaded with remains one.
LEMMA ProvenanceStep == Inv /\ [Next]_vars => ProvenanceAccepted'
<1> SUFFICES ASSUME Inv, [Next]_vars PROVE ProvenanceAccepted'
  OBVIOUS
<1>1. ProvenanceAccepted
  BY DEF Inv
<1>2. CASE UploadAccepted
  BY <1>2 DEF UploadAccepted, ProvenanceAccepted
<1>3. CASE UploadFailed
  BY <1>1, <1>3 DEF UploadFailed, ProvenanceAccepted
<1>4. CASE ~UploadAccepted /\ ~UploadFailed
  <2>1. lastVareg' = lastVareg /\ held' = held
    BY <1>4 DEF Next, OperatorStep, ShellStep, WorldStep, vars, shellVars, serverVars,
       SigintRaised, EnterCommand, EchoCancelled, EchoEvent, ConnectFailed,
       Connected, RoutersCounted, DetectorsCounted, ListEndsCommand, ListAllowsCommand,
       AllListed, ChangeAccepted, ChangeFailed, NextRemoved, RemoveAllStopped,
       AllRemoved, FileRejected, FileChecked, LastRpcReturns, ReconnectAccepted,
       ReconnectFailed, OtherClientChanges, ServerHangs, Enter, Completing, Completed,
       CalibrationStarts
  <2> QED
    BY <1>1, <2>1 DEF ProvenanceAccepted
<1> QED
  BY <1>2, <1>3, <1>4

\* Inv is an inductive invariant of the specification.
THEOREM Invariance == Spec => []Inv
<1>1. Init => Inv
  <2> SUFFICES ASSUME Init PROVE Inv
    OBVIOUS
  <2>1. TypeOK
    BY DEF Init, TypeOK, CommandType, ShellType, ServerType, ArgumentsPresent, Pcs,
       Commands, Kinds, Command, Plain
  <2>2. StateInv /\ CountInv /\ ProvenanceAccepted
    BY DEF Init, StateInv, CountInv, ProvenanceAccepted
  <2> QED
    BY <2>1, <2>2 DEF Inv
<1>2. Inv /\ [Next]_vars => Inv'
  BY TypeStep, CountStep, ProvenanceStep DEF Inv
<1> QED
  BY <1>1, <1>2, PTL DEF Spec

\* Every variable keeps its type, and a step finds the arguments it uses.
THEOREM TypeCorrect == Spec => []TypeOK
<1>1. Inv => TypeOK
  BY DEF Inv
<1> QED
  BY <1>1, Invariance, PTL

\* The shell's state agrees with its connection and its counts at the prompt.
THEOREM StateCorrect == Spec => []StateFollowsCounts
<1>1. Inv => StateFollowsCounts
  BY DEF Inv, StateInv, StateFollowsCounts
<1> QED
  BY <1>1, Invariance, PTL

\* The counts in the prompt are the server's, with the named exceptions.
THEOREM CountsCorrect == Spec => []CountsCurrent
<1>1. Inv => CountsCurrent
  BY DEF Inv, CountInv, CountsCurrent
<1> QED
  BY <1>1, Invariance, PTL

\* The recorded VAREG provenance was accepted by a device.
THEOREM ProvenanceCorrect == Spec => []ProvenanceAccepted
<1>1. Inv => ProvenanceAccepted
  BY DEF Inv
<1> QED
  BY <1>1, Invariance, PTL

=============================================================================
