------------------------------ MODULE HashLog ------------------------------
(***************************************************************************)
(* The log of one key's commands that a SwiftPaxos replica keeps to hash   *)
(* the path of a command (swift/dpath.go).  SHA-256 is taken to have no    *)
(* collisions: the hash of a path is the path, and hashing one more        *)
(* command onto it appends the command.                                    *)
(*                                                                         *)
(* The linked list between pendingHead and pendingTail is the sequence     *)
(* pending.  A command that is appended again has two nodes in it; the map *)
(* nodes has the later one.                                                *)
(***************************************************************************)
EXTENDS Integers, SequencesExt

NewHashLog ==
    [synced |-> -1,        \* sequence number of the highest synchronised command
     syncedHash |-> <<>>,  \* the leader's hash of that command
     pending |-> <<>>,     \* commands appended since and not synchronised
     nodes |-> {},         \* those whose node is found by their name
     hash |-> <<>>,        \* hash of the whole log
     pendingUpd |-> {}]    \* updates of commands that are not in the list

\* The list without the last node that was appended for c, if there is one.
LastAt(s, c) == Max({0} \cup {i \in 1..Len(s) : s[i] = c})

Without(s, c) == RemoveAt(s, LastAt(s, c))

\* What synchronising a command that is in the list, or not, with the leader's hash does.
Update(l, c, s, h) ==
    LET exists == c \in l.nodes
        rest == IF exists THEN Without(l.pending, c) ELSE l.pending
        higher == s > l.synced
        top == IF higher THEN h ELSE l.syncedHash
    IN  IF ~exists /\ ~higher THEN l
        ELSE [l EXCEPT !.synced = IF higher THEN s ELSE @, !.syncedHash = top,
                       !.pending = rest, !.nodes = @ \ {c}, !.hash = top \o rest]

\* HashLog.Update: a command that is not in the list is remembered.
UpdateOrSave(l, c, s, h) ==
    IF c \in l.nodes THEN Update(l, c, s, h)
    ELSE [l EXCEPT !.pendingUpd = {u \in @ : u.cmd # c} \cup {[cmd |-> c, seqnum |-> s, hash |-> h]}]

\* HashLog.Append; the hash it returns is AppendHash.
Saved(l, c) == {u \in l.pendingUpd : u.cmd = c}

\* A mistake: the pending commands before it are not hashed.
AppendHashOnSynced(l, c) == Append(l.syncedHash, c)

AppendHash(l, c) ==
    IF Saved(l, c) # {} THEN (CHOOSE u \in Saved(l, c) : TRUE).hash ELSE Append(l.hash, c)

AppendTo(l, c) ==
    IF Saved(l, c) # {}
    THEN LET u == CHOOSE u \in Saved(l, c) : TRUE
         IN  Update([l EXCEPT !.pendingUpd = @ \ {u}], c, u.seqnum, u.hash)
    ELSE [l EXCEPT !.pending = Append(@, c), !.nodes = @ \cup {c}, !.hash = Append(@, c)]
=============================================================================
