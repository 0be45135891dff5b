------------------------------- MODULE MCWire -------------------------------
(***************************************************************************)
(* Every RPC table, with each of its messages in two samples: one with     *)
(* small positive numbers and one-element lists, one with negative numbers *)
(* and lists of two, whose values have the greatest length two bytes hold. *)
(* Each is followed by the next message of the table.                      *)
(***************************************************************************)
EXTENDS Wire

RECURSIVE SampleOf(_, _, _)
Sample(layout, s) == [i \in DOMAIN layout |-> SampleOf(layout[i], i, s)]

SampleOf(k, i, s) ==
    CASE k.kind = "int" -> IF k.width = 1 THEN (i % 2) - (IF s = 2 THEN 2 ELSE 0)
                           ELSE IF s = 1 THEN i ELSE -1 - i
      [] k.kind = "lost" -> s
      [] k.kind = "value" -> [j \in 1..(IF s = 1 THEN 1 ELSE Radix^2 - 1) |-> j % Radix]
      [] k.kind \in {"struct", "inline"} -> Sample(k.of, s)
      [] k.kind = "list" /\ k.size > 0 -> [j \in 1..k.size |-> <<j>>]
      [] k.kind \in {"list", "list32"} -> [j \in 1..s |-> Sample(k.of, j)]

Protocols == {"paxos", "n2paxos", "fastpaxos", "curp", "epaxos", "eppaxos", "swift"}

NextCode(known, code) ==
    LET after == {c \in known : c > code}
    IN  Min(IF after = {} THEN known ELSE after)

Connection(kind, table, code, s) ==
    LET next == NextCode(Codes(kind, Len(Table(table))), code)
    IN  [kind |-> kind, table |-> table,
         messages |-> <<[code |-> code, msg |-> Sample(Layout(table, code), s)],
                        [code |-> next, msg |-> Sample(Layout(table, next), 1)]>>]

Kind(kind, protocols, samples) ==
    UNION {{Connection(kind, p, code, s) : code \in Codes(kind, Len(Table(p))), s \in samples} :
               p \in protocols}

AllConnections ==
    Kind("peer", Protocols, 1..2) \cup Kind("client", {"curp", "swift"}, {1})
        \cup Kind("reply", {"curp", "swift"}, {1})
=============================================================================
