----------------------------- MODULE WizardNuma -----------------------------
(***************************************************************************)
(* Spreading the search threads over the processors, and the networks over *)
(* the memory (wizard/numa.h on Linux, Engine::set_numa_config_from_option *)
(* and resize_threads, ThreadPool::set).                                   *)
(*                                                                         *)
(* A machine has its nodes (the processors of each node the system lists,  *)
(* or none where it lists no nodes), the groups of processors with a cache *)
(* in common, the processors the process may use, and the number counted   *)
(* at the start.  A configuration has the processors of each of its own    *)
(* nodes, and whether the user chose them.  Nodes count from 1 here.       *)
(***************************************************************************)
EXTENDS Integers, FiniteSets, FiniteSetsExt, SequencesExt

CONSTANTS
    Machines,   \* the machines the engine may run on
    Policies,   \* the values of NumaPolicy: names, or the processor lists of a user
    MaxThreads, \* bound: Threads
    BundleSize, \* bound for the 32 of DefaultNumaPolicy
    MaxLoads    \* bound: networks loaded

VARIABLES
    machine,
    config,     \* the configuration, and the policy it is from
    threads,    \* of each thread: its node's token, number and total there, and where it may run
    histories,  \* for each node with threads: the size of its shared histories
    replicas,   \* the network each node has: {} until it is needed
    loads       \* the network loaded last

numaVars == <<machine, config, threads, histories, replicas, loads>>

----------------------------------------------------------------------------
(* Configurations *)

Config(nodes, custom) == [nodes |-> nodes, customAffinity |-> custom]
remove_empty_numa_nodes(nodes) == SelectSeq(nodes, LAMBDA cpus : cpus # {})

allowed(respect) == IF respect THEN machine.affinity ELSE Nat

\* A processor goes to the first node that claims it.
add_cpus(nodes, n, cpus) ==
    LET taken == UNION ToSet(nodes)
        grown == [i \in 1 .. Max({n, Len(nodes)}) |-> IF i <= Len(nodes) THEN nodes[i] ELSE {}]
    IN  IF cpus \ taken = {} THEN nodes ELSE [grown EXCEPT ![n] = @ \cup (cpus \ taken)]

\* Without the system's lists every allowed processor is of the first node.
from_system_numa(respect) ==
    IF machine.nodes = <<>> THEN add_cpus(<<>>, 1, (0 .. machine.concurrency - 1) \cap allowed(respect))
    ELSE FoldLeft(LAMBDA nodes, n : add_cpus(nodes, n, machine.nodes[n] \cap allowed(respect)),
                  <<>>, [n \in DOMAIN machine.nodes |-> n])

\* nodeByCpu keeps the system's numbers, of the empty nodes too.
nodeByCpu(respect, c) == CHOOSE n \in DOMAIN from_system_numa(respect) : c \in from_system_numa(respect)[n]

\* One pass merges each domain with the next while both fit in a bundle; passes are
\* made until one changes nothing.
RECURSIVE MergeFrom(_, _)
MergeFrom(ds, j) ==
    IF j + 1 > Len(ds) THEN ds
    ELSE IF Cardinality(ds[j]) + Cardinality(ds[j + 1]) <= BundleSize
    THEN MergeFrom([RemoveAt(ds, j + 1) EXCEPT ![j] = ds[j] \cup ds[j + 1]], j + 1)
    ELSE MergeFrom(ds, j + 1)
RECURSIVE Merged(_)
Merged(ds) == LET pass == MergeFrom(ds, 1) IN IF pass = ds THEN ds ELSE Merged(pass)

\* Mutant: the caches are bundled whatever nodes they are of.
from_l3_info_flat(domains, nodeOf) == Merged(domains)
from_l3_info(domains, nodeOf) ==
    LET numbers == {nodeOf[domains[i]] : i \in DOMAIN domains}
        list(n) == Merged(SelectSeq(domains, LAMBDA d : nodeOf[d] = n))
    IN  IF numbers = {} THEN <<>> ELSE FlattenSeq([n \in 1 .. Max(numbers) |-> list(n)])

\* The caches, read for the least processor not seen yet until one has none.
RECURSIVE Domains(_, _)
Domains(seen, respect) ==
    LET next == Min({c \in 0 .. Cardinality(seen) : c \notin seen})
        siblings == {d \in machine.caches : next \in d}
        cpus == (UNION siblings) \cap allowed(respect)
    IN  IF siblings = {} THEN <<>>
        ELSE (IF cpus = {} THEN <<>> ELSE <<cpus>>) \o Domains(seen \cup (UNION siblings), respect)
l3_config(respect) ==
    LET domains == Domains({}, respect)
    IN  from_l3_info(domains, [d \in ToSet(domains) |-> nodeByCpu(respect, Max(d))])

from_system(respect) ==
    LET l3 == l3_config(respect)
        nodes == IF Domains({}, respect) # <<>> THEN l3 ELSE from_system_numa(respect)
    IN  Config(remove_empty_numa_nodes(nodes), ~respect)

\* A user's nodes: an empty one is passed over, and the program exits where a
\* processor is named twice, or where the lists name none at all.
from_string(nodes) == Config(remove_empty_numa_nodes(nodes), TRUE)
ExitsOn(nodes) == \/ \E i, j \in DOMAIN nodes : i # j /\ nodes[i] \cap nodes[j] # {}
                  \/ UNION ToSet(nodes) = {}

NoConfig == Config(<<0 .. machine.concurrency - 1>>, FALSE)

set_numa_config(policy) ==
    CASE policy.name \in {"auto", "system"} -> from_system(TRUE)
      [] policy.name = "hardware" -> from_system(FALSE)
      [] policy.name = "none" -> NoConfig
      [] OTHER -> from_string(policy.nodes)

requires_memory_replication(c) == c.customAffinity \/ Len(c.nodes) > 1

----------------------------------------------------------------------------
(* The threads *)

LargestNode(nodes) == Max({Cardinality(nodes[n]) : n \in DOMAIN nodes})
suggests_binding_threads(c, n) ==
    LET big == {i \in DOMAIN c.nodes : 10 * Cardinality(c.nodes[i]) > 6 * LargestNode(c.nodes)}
    IN  \/ c.customAffinity
        \/ /\ n > 1 /\ Len(c.nodes) > 1
           /\ n > LargestNode(c.nodes) \div 2 \/ n >= 4 * Cardinality(big)

\* Each thread in turn to the node it fills least, the first of equals.
distribute_threads_among_numa_nodes(nodes, n) ==
    LET Better(occupation, a, b) ==
          LET x == (occupation[a] + 1) * Cardinality(nodes[b])
              y == (occupation[b] + 1) * Cardinality(nodes[a])
          IN  x < y \/ (x = y /\ a <= b)
        Place(bound) ==
          LET occupation == [i \in DOMAIN nodes |-> Cardinality({t \in DOMAIN bound : bound[t] = i})]
          IN  Append(bound, CHOOSE a \in DOMAIN nodes : \A b \in DOMAIN nodes : Better(occupation, a, b))
        placed[k \in 0 .. n] == IF k = 0 THEN <<>> ELSE Place(placed[k - 1])
    IN  IF Len(nodes) = 1 THEN [t \in 1 .. n |-> 1] ELSE placed[n]

next_power_of_two(n) == Min({2^k : k \in {k \in 0 .. n : 2^k >= n}})

\* ThreadPool::set: no thread outlives it.
set(c, policy, n) ==
    LET doBindThreads == policy.name # "none" /\ (policy.name = "auto" => suggests_binding_threads(c, n))
        node == IF doBindThreads THEN distribute_threads_among_numa_nodes(c.nodes, n) ELSE [t \in 1 .. n |-> 1]
        counts == [i \in ToSet(node) |-> Cardinality({t \in 1 .. n : node[t] = i})]
        thread(t) == [token |-> node[t], total |-> counts[node[t]],
                      idx |-> Cardinality({o \in 1 .. t - 1 : node[o] = node[t]}),
                      cpus |-> IF doBindThreads THEN c.nodes[node[t]] ELSE machine.affinity]
    IN  [threads |-> [t \in 1 .. n |-> thread(t)],
         histories |-> [i \in DOMAIN counts |-> next_power_of_two(counts[i])]]

\* A worker clears its share of its node's histories: clear_range.
Slice(t, sz) == {x \in 0 .. sz - 1 : /\ x >= (t.idx * sz) \div t.total
                                     /\ t.idx + 1 < t.total => x < ((t.idx + 1) * sz) \div t.total}

----------------------------------------------------------------------------
(* The networks (LazyNumaReplicatedSystemWide) *)

\* prepare_replicate_from: the first node's, and room for the others'.
prepare_replicate_from(c, network) ==
    [n \in 1 .. (IF requires_memory_replication(c) THEN Len(c.nodes) ELSE 1) |-> IF n = 1 THEN {network} ELSE {}]
ensure_present(rs, n) == [rs EXCEPT ![n] = IF @ = {} THEN rs[1] ELSE @]
ensure_network_replicated(rs, ts) == FoldFunctionOnSet(LAMBDA t, r : ensure_present(r, t.token), rs, ts, DOMAIN ts)

----------------------------------------------------------------------------
(* The engine: at the start, and the commands that change any of this.     *)

Auto == [name |-> "auto", nodes |-> <<>>]
\* The program exits where a thread is bound to a node of which no processor exists.
Resized(c, policy, n, rs) ==
    LET made == set(c, policy, n)
    IN  /\ \A t \in 1 .. n : made.threads[t].cpus \cap machine.exist # {}
        /\ threads' = made.threads
        /\ histories' = made.histories
        /\ replicas' = ensure_network_replicated(rs, made.threads)

NumaInit ==
    /\ machine \in Machines
    /\ config = [policy |-> Auto] @@ from_system(TRUE)
    /\ LET made == set(config, Auto, 1)
       IN  threads = made.threads /\ histories = made.histories
    /\ replicas = prepare_replicate_from(config, 0)
    /\ loads = 0

\* set_numa_config_from_option: every replica is made anew from the first, and the
\* threads too.
SetNumaPolicy(policy) ==
    /\ ~ExitsOn(policy.nodes)
    /\ LET c == set_numa_config(policy)
       IN  /\ config' = [policy |-> policy] @@ c
           /\ Resized(c, policy, Len(threads), prepare_replicate_from(c, Min(replicas[1])))
    /\ UNCHANGED <<machine, loads>>

resize_threads(n) == /\ n # Len(threads)
                     /\ Resized(config, config.policy, n, replicas)
                     /\ UNCHANGED <<machine, config, loads>>
load_networks == /\ loads < MaxLoads
                 /\ loads' = loads + 1
                 /\ replicas' = ensure_network_replicated(prepare_replicate_from(config, loads + 1), threads)
                 /\ UNCHANGED <<machine, config, threads, histories>>

\* save_network leaves the other nodes' replicas to the threads that need them.
save_network == /\ replicas' = prepare_replicate_from(config, Min(replicas[1]))
                /\ UNCHANGED <<machine, config, threads, histories, loads>>
Access(t) == /\ replicas' = ensure_present(replicas, threads[t].token)
             /\ UNCHANGED <<machine, config, threads, histories, loads>>

NumaNext ==
    \/ \E policy \in Policies : SetNumaPolicy(policy)
    \/ \E n \in 1 .. MaxThreads : resize_threads(n)
    \/ load_networks \/ save_network
    \/ \E t \in DOMAIN threads : Access(t)

----------------------------------------------------------------------------
\* After any sequence of commands: no two nodes share a processor and none is empty;
\* a system's nodes are of allowed processors and within the machine's nodes, and
\* have all of them where the caches list all; every thread has its own number
\* among those of its node, the node's histories exist, are large enough, and each
\* part of them is cleared; bound threads run where their node is and are spread
\* evenly for its size; and a thread finds its own network, the one last loaded.
NumaSound ==
    LET nodes == config.nodes
        FromSystem == config.policy.name \in {"auto", "system", "hardware"}
        May == IF config.policy.name = "hardware" THEN machine.exist ELSE machine.affinity
        Occupation(a) == Cardinality({t \in DOMAIN threads : threads[t].token = a})
        Bound == threads[1].cpus # machine.affinity
    IN  /\ nodes # <<>>
        /\ \A a, b \in DOMAIN nodes : nodes[a] # {} /\ (a # b => nodes[a] \cap nodes[b] = {})
        /\ FromSystem => /\ UNION ToSet(nodes) \subseteq May
                         /\ machine.nodes # <<>> => \A a \in DOMAIN nodes : \E n \in DOMAIN machine.nodes :
                                                      nodes[a] \subseteq machine.nodes[n]
                         /\ machine.caches = {} \/ UNION machine.caches = machine.exist => UNION ToSet(nodes) = May
        /\ \A t \in DOMAIN threads :
             LET own == threads[t]
                 mates == {o \in DOMAIN threads : threads[o].token = own.token}
             IN  /\ own.token \in DOMAIN nodes \cap DOMAIN histories \cap DOMAIN replicas
                 /\ {threads[o].idx : o \in mates} = 0 .. own.total - 1
                 /\ own.total = Cardinality(mates) /\ own.total <= histories[own.token]
                 /\ \A x \in 0 .. 3 : x \in UNION {Slice(threads[o], 4) : o \in mates}
                 /\ Bound => own.cpus = nodes[own.token]
                 /\ replicas[own.token] \in {{}, {loads}}
        /\ Bound => \A a, b \in DOMAIN nodes :
             Occupation(a) * Cardinality(nodes[b]) <= (Occupation(b) + 1) * Cardinality(nodes[a])
        /\ replicas[1] = {loads}
=============================================================================
