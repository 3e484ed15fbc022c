----------------------------- MODULE MCKeyspace -----------------------------
(* Keyspace for TLC: a shard with one key and a shard with two.              *)
EXTENDS Keyspace

CONSTANTS j, k, l, v, w

MCKeys    == {j, k, l}
MCShardOf == [x \in MCKeys |-> CASE x = j -> 1 [] x = k -> 2 [] x = l -> 2]

Cmd(cmd, keys, val) == [cmd |-> cmd, keys |-> keys, val |-> val]

\* Two keys in either order, a key twice, two keys of one shard.
Lists == {<<j, k>>, <<k, j>>, <<k, l>>, <<k, k>>}

AllCommands ==
  {Cmd("mset", s, x) : s \in {<<j, k>>, <<k, j>>}, x \in {v, w}}
    \cup {Cmd(c, s, NoValue) : c \in {"mget", "del", "exists"}, s \in Lists}
    \cup {Cmd("flushall", <<>>, NoValue), Cmd("keys", <<>>, NoValue)}

\* The keys are created together and never deleted.
PairCommands == {Cmd("mset", <<j, k, l>>, v), Cmd("keys", <<>>, NoValue)}

\* Nothing expires and nothing is evicted.
CommandsOnly == \E c \in Clients : (\E m \in Commands : Start(c, m)) \/ Run(c)
CommandsOnlySpec == Init /\ [][CommandsOnly]_vars
=============================================================================
