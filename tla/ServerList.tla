----------------------------- MODULE ServerList -----------------------------
(***************************************************************************)
(* internal/steam/cm/servers.go: the list of CM servers of a client, as    *)
(* operators on its value [servers, bad, idx].  A server is [addr, wss];   *)
(* bad holds the addresses marked less than five minutes ago.  idx counts  *)
(* up for ever in the code and is used modulo the length of the list, which*)
(* does not change once it is filled: here it is kept modulo that length.  *)
(***************************************************************************)
EXTENDS Naturals, Sequences, FiniteSets, SequencesExt, FiniteSetsExt

EmptyList == [servers |-> <<>>, bad |-> {}, idx |-> 0]

AddrsOf(servers) == {s.addr : s \in ToSet(servers)}

\* Deduplicated by address, whatever the transport.
AddOne(servers, s) ==
    IF s.addr \in AddrsOf(servers) THEN servers ELSE Append(servers, s)

Add(list, ss) == [list EXCEPT !.servers = FoldLeft(AddOne, @, ss)]

\* Those that speak WebSocket first, each kind in its order.
Split(parts, s) ==
    IF s.wss THEN [parts EXCEPT !.wss = Append(@, s)]
             ELSE [parts EXCEPT !.tcp = Append(@, s)]
WSSFirst(ss) ==
    LET parts == FoldLeft(Split, [wss |-> <<>>, tcp |-> <<>>], ss)
    IN  parts.wss \o parts.tcp

\* What the Web API answered, or the server of the DNS name when it did not.
Bootstrap(list, answer, dns) ==
    IF answer = <<>> THEN Add(list, <<dns>>) ELSE Add(list, WSSFirst(answer))

MarkBad(list, addr) == [list EXCEPT !.bad = @ \cup {addr}]

At(list, i) == list.servers[(i % Len(list.servers)) + 1]

MoveOn(list, steps) ==
    [list EXCEPT !.idx = (@ + steps) % Len(list.servers)]

\* Mutant: those that are marked are wanted.
SkippedGood(list) ==
    LET n == Len(list.servers)
        good == {k \in 0 .. n - 1 : At(list, list.idx + k).addr \in list.bad}
    IN  IF good = {} THEN n ELSE Min(good)

\* Servers passed over before one is taken: those that are marked, or the
\* whole list when all are.
Skipped(list) ==
    LET n == Len(list.servers)
        good == {k \in 0 .. n - 1 : At(list, list.idx + k).addr \notin list.bad}
    IN  IF good = {} THEN n ELSE Min(good)

Next(list) ==
    [server |-> At(list, list.idx + Skipped(list)),
     list |-> MoveOn(list, Skipped(list) + 1)]
=============================================================================
