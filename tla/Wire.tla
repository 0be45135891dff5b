-------------------------------- MODULE Wire --------------------------------
(***************************************************************************)
(* One direction of a connection: the sender writes a type code and the    *)
(* marshalled message (SendMsg, SendClientMsg, the client's SendMsg and    *)
(* SendProposal), the listener of the other end reads the code, makes a    *)
(* new object, unmarshals it and puts it into the channel registered for   *)
(* that code.  The connection may break anywhere: the bytes not delivered  *)
(* by then are lost, and the listener meets the end of the stream.         *)
(*                                                                         *)
(* Three kinds of listeners: of a peer (replicaListener), of a client      *)
(* (clientListener) and of a replica at a client (RegisterRPCTable).       *)
(*                                                                         *)
(* The listener of a peer would leave a message with a delay to a          *)
(* goroutine as well, but the emulated delays are disabled: always zero.   *)
(***************************************************************************)
EXTENDS Messages

CONSTANT
    Connections  \* connections to check: the kind of listener, the RPC table, the messages to send

VARIABLES
    conn,      \* the connection, chosen at the start
    sent,      \* number of messages written so far
    net,       \* bytes written and not read yet
    up,        \* the connection is not broken
    listener,  \* "reading", "ended" or "fatal"
    sleeping,  \* objects held by goroutines that will put them into a channel
    got        \* objects handed on, in order: put into a channel or dealt with by the listener

vars == <<conn, sent, net, up, listener, sleeping, got>>

(***************************************************************************)
(* The codes of replica/defs; the RPC tables start at RPC_TABLE.           *)
(***************************************************************************)
PROPOSE == 0
READ == 2
PROPOSE_AND_READ == 4
GENERIC_SMR_BEACON == 6
GENERIC_SMR_BEACON_REPLY == 7
STATS == 8
LATENCIES_BROADCAST == 9
RPC_TABLE == 10

\* The codes a listener knows, of a table of n messages, and what each of them announces.
Codes(kind, n) ==
    (RPC_TABLE..(RPC_TABLE + n - 1)) \cup
    (CASE kind = "peer"   -> {GENERIC_SMR_BEACON, GENERIC_SMR_BEACON_REPLY, LATENCIES_BROADCAST}
       [] kind = "client" -> {PROPOSE, READ, PROPOSE_AND_READ, STATS}
       [] kind = "reply"  -> {})

Layout(table, code) ==
    CASE code = PROPOSE -> Propose
      [] code = READ -> ReadMsg
      [] code = PROPOSE_AND_READ -> ProposeAndRead
      [] code = GENERIC_SMR_BEACON -> Beacon
      [] code = GENERIC_SMR_BEACON_REPLY -> BeaconReply
      [] code = STATS -> <<>>
      [] code = LATENCIES_BROADCAST -> LatenciesMsg
      [] code >= RPC_TABLE -> Table(table)[code - RPC_TABLE + 1]

Known(code) == code \in Codes(conn.kind, Len(Table(conn.table)))

LayoutOf(code) == Layout(conn.table, code)

(***************************************************************************)
(* Only a peer's messages and a client's requests are put into the channel *)
(* by the listener itself; the others by a goroutine each.                 *)
(***************************************************************************)
Direct(code) == conn.kind = "peer" \/ (conn.kind = "client" /\ code < RPC_TABLE)

Init ==
    /\ conn \in Connections
    /\ sent = 0
    /\ net = <<>>
    /\ up = TRUE
    /\ listener = "reading"
    /\ sleeping = <<>>
    /\ got = <<>>

SendMsg ==
    /\ up
    /\ sent < Len(conn.messages)
    /\ sent' = sent + 1
    /\ LET m == conn.messages[sent + 1]
       IN  net' = net \o <<m.code>> \o Marshal(LayoutOf(m.code), m.msg)
    /\ UNCHANGED <<conn, up, listener, sleeping, got>>

Break ==
    /\ up
    /\ up' = FALSE
    /\ \E n \in 0..Len(net) : net' = SubSeq(net, 1, n)
    /\ UNCHANGED <<conn, sent, listener, sleeping, got>>

Enqueue(obj) ==
    IF Direct(obj.code)
    THEN got' = Append(got, obj) /\ UNCHANGED sleeping
    ELSE sleeping' = Append(sleeping, obj) /\ UNCHANGED got

\* One turn of the listener's loop; while the connection is up it waits for the missing bytes.
Listen ==
    /\ listener = "reading"
    /\ net # <<>>
    /\ LET code == Head(net)
       IN  IF ~Known(code)
           THEN /\ listener' = IF conn.kind = "reply" THEN "reading" ELSE "fatal"
                /\ net' = Tail(net)
                /\ UNCHANGED <<sleeping, got>>
           ELSE LET r == Unmarshal(LayoutOf(code), Tail(net))
                IN  /\ r.short => ~up
                    /\ net' = r.rest
                    /\ listener' = IF r.err THEN "ended" ELSE "reading"
                    /\ IF r.err THEN UNCHANGED <<sleeping, got>>
                       ELSE Enqueue([code |-> code, msg |-> r.val])
    /\ UNCHANGED <<conn, sent, up>>

\* ReadByte fails: the replica marks the peer as not alive, or closes the connection.
EndOfStream ==
    /\ listener = "reading"
    /\ ~up
    /\ net = <<>>
    /\ listener' = "ended"
    /\ UNCHANGED <<conn, sent, net, up, sleeping, got>>

\* A mistake: the goroutine hands on the variable of the loop, which may hold another object
\* by then.
DeliverShared ==
    /\ \E i \in DOMAIN sleeping :
          /\ got' = Append(got, Last(sleeping))
          /\ sleeping' = RemoveAt(sleeping, i)
    /\ UNCHANGED <<conn, sent, net, up, listener>>

Deliver ==
    /\ \E i \in DOMAIN sleeping :
          /\ got' = Append(got, sleeping[i])
          /\ sleeping' = RemoveAt(sleeping, i)
    /\ UNCHANGED <<conn, sent, net, up, listener>>

Next == SendMsg \/ Break \/ Listen \/ EndOfStream \/ Deliver

Spec == Init /\ [][Next]_vars

-----------------------------------------------------------------------------
TypeOK ==
    /\ conn \in Connections
    /\ sent \in 0..Len(conn.messages)
    /\ up \in BOOLEAN
    /\ listener \in {"reading", "ended", "fatal"}
    /\ Len(got) + Len(sleeping) <= sent

(***************************************************************************)
(* Two messages are the same on the wire: all their fields agree but those *)
(* that are never written.                                                 *)
(***************************************************************************)
SameFields(a, b) ==
    /\ a.code = b.code
    /\ \A i \in DOMAIN LayoutOf(a.code) : LayoutOf(a.code)[i] = Lost \/ a.msg[i] = b.msg[i]

\* Nothing after the commands of such a message can reveal that they are cut.
EndsInStructs(code) ==
    LET k == Last(LayoutOf(code))
    IN  \/ k.kind = "struct"
        \/ k.kind = "list" /\ k.of # <<>> /\ Last(k.of).kind = "struct"

(***************************************************************************)
(* A peer's messages reach the channels in the order in which they were    *)
(* sent, each with the fields it was sent with; only the last one before a *)
(* broken connection may be cut, and only if it ends in nested structures, *)
(* whose Unmarshal errors the generated code drops.                        *)
(***************************************************************************)
InOrder ==
    conn.kind = "peer" =>
        \A i \in DOMAIN got :
            \/ SameFields(got[i], conn.messages[i])
            \/ ~up /\ i = Len(got) /\ got[i].code = conn.messages[i].code /\ EndsInStructs(got[i].code)

(***************************************************************************)
(* A listener never takes the bytes of one message for another's: while    *)
(* the connection is up, what it reads is a known code followed by a whole *)
(* message that the sender wrote, and nothing stays unread after the last. *)
(***************************************************************************)
SelfDelimiting ==
    /\ listener # "fatal"
    /\ (up /\ net # <<>>) =>
            /\ Known(Head(net))
            /\ LET r == Unmarshal(LayoutOf(Head(net)), Tail(net)) IN ~r.short /\ ~r.err
    /\ (up /\ net = <<>>) => Len(got) + Len(sleeping) = sent

(***************************************************************************)
(* Objects put into the channels by goroutines may overtake one another    *)
(* but none is made up, lost or put twice while the connection is up.      *)
(***************************************************************************)
NoneLost ==
    (up /\ net = <<>> /\ sleeping = <<>>) =>
        \E p \in [DOMAIN got -> 1..sent] :
            /\ \A i, j \in DOMAIN got : i # j => p[i] # p[j]
            /\ \A i \in DOMAIN got : SameFields(got[i], conn.messages[p[i]])

=============================================================================
