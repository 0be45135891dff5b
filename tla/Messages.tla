------------------------------ MODULE Messages ------------------------------
(***************************************************************************)
(* The layout of every message the replicas and the clients exchange, one  *)
(* definition per type, read from its Marshal and Unmarshal (the two agree *)
(* on the order and the width of the fields), and the RPC tables, in the   *)
(* order in which the messages are registered.                             *)
(***************************************************************************)
EXTENDS Codec

\* state.Command, and the CommandId that CURP, N2Paxos, Fast Paxos and Swift inline.
Command == <<Int8, Int64, Value>>
Cmd == Struct(Command)
CommandId == <<Int32, Int32>>
Cmds == List(<<Cmd>>)
Int32s == List(<<Int32>>)
Byte == <<Int8>>

(***************************************************************************)
(* replica/defs: clients' requests and replies, beacons.                   *)
(***************************************************************************)
Propose == <<Int32, Int32, Cmd, Int64>>
ReadMsg == <<Int32, Struct(<<Int64>>)>>
ProposeAndRead == <<Int32, Cmd, Struct(<<Int64>>)>>
Beacon == <<Int64>>
BeaconReply == <<Int64>>
LatenciesMsg == <<Int32, List32(<<Int64>>)>>

(***************************************************************************)
(* Paxos                                                                   *)
(***************************************************************************)
P_Prepare == <<Int32, Int32, Int32>>
P_PrepareReply == <<Int32, Int32, Int32, Int32, Int32, Cmds>>
P_Accept == <<Int32, Int32, Int32, Cmds>>
P_AcceptReply == <<Int32, Int32>>
P_Commit == <<Int32, Int32, Int32, Cmds>>
P_CommitShort == <<Int32, Int32, Int32, Int32>>

PaxosTable == <<P_Prepare, P_Accept, P_Commit, P_CommitShort, P_PrepareReply, P_AcceptReply>>

(***************************************************************************)
(* N2Paxos                                                                 *)
(***************************************************************************)
N_M1A == <<Int32, Int32>>
N_M1B == <<Int32, Int32, Int32, Cmds>>
N_MPaxosSync == <<Int32, Int32, Cmds>>
N_M2A == <<Int32, Int32, Cmd>> \o CommandId \o <<Int64>>
N_M2B == <<Int32, Int32, Int64>>
N_M2s == <<List(<<Struct(N_M2A)>>), List(N_M2B)>>

N2PaxosTable == <<N_M1A, N_M1B, N_M2A, N_M2B, N_M2s, N_MPaxosSync>>

(***************************************************************************)
(* Fast Paxos                                                              *)
(***************************************************************************)
F_M2B == CommandId \o <<Int32, Int32, Int32, Int64>>

FastPaxosTable == <<F_M2B>>

(***************************************************************************)
(* CURP                                                                    *)
(***************************************************************************)
C_MReply == <<Int32, Int32>> \o CommandId \o <<List(Byte), Int8>>
C_MAccept == <<Int32, Int32, Cmd>> \o CommandId \o <<Int64>>
C_MAcceptAck == <<Int32, Int32, Int64>>
C_MAAcks == <<List(C_MAcceptAck), List(<<Struct(C_MAccept)>>)>>
C_MRecordAck == <<Int32, Int32>> \o CommandId \o <<Int8>>
C_MCommit == <<Int32, Int32, Int64>>
C_MSync == CommandId
C_MSyncReply == <<Int32, Int32>> \o CommandId \o <<List(Byte)>>

CurpTable ==
    <<C_MReply, C_MAccept, C_MAcceptAck, C_MAAcks, C_MRecordAck, C_MCommit, C_MSync, C_MSyncReply>>

(***************************************************************************)
(* EPaxos.  VBallot is a field of PrepareReply that is never written.      *)
(***************************************************************************)
E_Prepare == <<Int32, Int32, Int32, Int32>>
E_PrepareReply == <<Int32, Int32, Int32, Int32, Lost, Int8, Cmds, Int32, Int32s>>
E_PreAccept == <<Int32, Int32, Int32, Int32, Cmds, Int32, Int32s>>
E_PreAcceptReply == <<Int32, Int32, Int32, Int32, Int32, Int8, Int32s, Int32s>>
E_Accept == <<Int32, Int32, Int32, Int32, Int32, Int32s>>
E_AcceptReply == <<Int32, Int32, Int32>>
E_Commit == <<Int32, Int32, Int32, Int32, Cmds, Int32, Int32s>>
E_TryPreAccept == <<Int32, Int32, Int32, Int32, Cmds, Int32, Int32s>>
E_TryPreAcceptReply == <<Int32, Int32, Int32, Int32, Int32, Int32, Int32, Int8>>

EPaxosTable ==
    <<E_Prepare, E_PrepareReply, E_PreAccept, E_PreAcceptReply, E_Accept, E_AcceptReply,
      E_Commit, E_TryPreAccept, E_TryPreAcceptReply>>

(***************************************************************************)
(* EPPaxos: the same messages but for PreAcceptReply, whose Deps is an     *)
(* array of MaxN replicas' instances.                                      *)
(***************************************************************************)
MaxN == 5

EP_Prepare == <<Int32, Int32, Int32, Int32>>
EP_PrepareReply == <<Int32, Int32, Int32, Int32, Lost, Int8, Cmds, Int32, Int32s>>
EP_PreAccept == <<Int32, Int32, Int32, Int32, Cmds, Int32, Int32s>>
EP_PreAcceptReply == <<Int8, Int32, Cmds, Array(MaxN, <<Int32>>), Int32>>
EP_Accept == <<Int32, Int32, Int32, Int32, Int32, Int32s>>
EP_AcceptReply == <<Int32, Int32, Int32>>
EP_Commit == <<Int32, Int32, Int32, Int32, Cmds, Int32, Int32s>>
EP_TryPreAccept == <<Int32, Int32, Int32, Int32, Cmds, Int32, Int32s>>
EP_TryPreAcceptReply == <<Int32, Int32, Int32, Int32, Int32, Int32, Int32, Int8>>

EPPaxosTable ==
    <<EP_Prepare, EP_PrepareReply, EP_PreAccept, EP_PreAcceptReply, EP_Accept, EP_AcceptReply,
      EP_Commit, EP_TryPreAccept, EP_TryPreAcceptReply>>

(***************************************************************************)
(* Swift.  A hash is written and read byte by byte.  MSync is encoded by   *)
(* encoding/gob, whose streams are delimited by byte counts.               *)
(***************************************************************************)
SHash == [i \in 1..HashSize |-> Int8]
Hashes == List(SHash)
Dep == List(CommandId)

S_MFastAck == <<Int32, Int32>> \o CommandId \o <<Dep, Hashes, Int64>>
S_MFastAckClient == <<Int32, Int32>> \o CommandId \o <<Hashes>>
S_MSlowAck == <<Int32, Int32>> \o CommandId \o <<Dep, Hashes>>
S_MLightSlowAck == <<Int32, Int32>> \o CommandId
S_MAcks == <<List(<<Struct(S_MFastAck)>>), List(S_MLightSlowAck)>>
S_Ack == CommandId \o <<Dep, Hashes, Int64>>
S_MOptAcks == <<Int32, Int32, List(<<Struct(S_Ack)>>)>>
S_MReply == <<Int32, Int32>> \o CommandId \o <<Hashes, List(Byte)>>
S_MNewLeader == <<Int32, Int32>>
S_SDep == <<Dep>>
S_MNewLeaderAckN ==
    <<Int32, Int32, Int32, Dep, List(<<Int64>>), Cmds, List(<<Struct(S_SDep)>>)>>
S_MSync == <<List(Byte)>>
S_MPing == <<Int32, Int32>>
S_MPingRep == <<Int32, Int32>>
S_MCollect == <<Int32, Int32, Dep>>
S_MAccept == <<Int32, Int32>> \o CommandId \o <<List(Byte)>>

SwiftTable ==
    <<S_MFastAck, S_MFastAckClient, S_MSlowAck, S_MLightSlowAck, S_MAcks, S_MOptAcks, S_MReply,
      S_MNewLeader, S_MNewLeaderAckN, S_MSync, S_MPing, S_MPingRep, S_MCollect, S_MAccept>>

Table(protocol) ==
    CASE protocol = "paxos"     -> PaxosTable
      [] protocol = "n2paxos"   -> N2PaxosTable
      [] protocol = "fastpaxos" -> FastPaxosTable
      [] protocol = "curp"      -> CurpTable
      [] protocol = "epaxos"    -> EPaxosTable
      [] protocol = "eppaxos"   -> EPPaxosTable
      [] protocol = "swift"     -> SwiftTable
=============================================================================
