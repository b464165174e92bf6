# Verification of mockturtle's restructuring operations

mockturtle is a C++ library for logic networks: AND-inverter graphs, majority
graphs and others are built, annotated by *views* and restructured by
*algorithms*. This directory holds TLA+ specifications of the parts whose
correctness depends on the order of many small updates, the TLC runs that check
them on small instances, and machine-checked proofs.

Paths below are relative to `src/include/mockturtle/`.

## 1. Inventory

### Components

| component | state | operations | what makes it correct |
|---|---|---|---|
| `networks/aig.hpp` (and `networks/storage.hpp`) | node array with two fanins per node, reference count and dead bit in one 32-bit word, inputs, outputs, structural hash table | `create_pi`, `create_po`, `create_and`, `take_out_node`, `revive_node`, `replace_in_node(_no_restrash)`, `replace_in_outputs`, `substitute_node(_no_restrash)`, `substitute_nodes` | the table names only live gates with the fanins of the key; counts equal references; nothing alive refers to a dead node; outputs keep their functions; no cycle; substitution returns |
| `networks/events.hpp` | three lists of handlers | register, release; handlers are called from within the operations | a handler sees the node in the state the event is about |
| `views/fanout_view.hpp` | a list of fanouts per node | three handlers, its own `substitute_node(_no_restrash)`, `foreach_fanout`, `update_fanout`, copies | the lists are exact; a visit of a copied list misses nothing |
| `views/choice_view.hpp` | two arrays that hold linked lists of equivalent nodes | `add_choice`, `update_choice_representative`, `remove_choice`, `set_representative`, `delete_choice_from_network`, `clear_choices`, walks, its own `substitute_node` | lists represent a partition; polarities are right; walks return |
| `views/depth_view.hpp`, `views/rank_view.hpp` | levels and depth; ranks and positions | one add handler each, `update_levels`, `swap`, `sort_rank` | levels and ranks agree with each other and with the network |
| `views/color_view.hpp`, visited flags | one counter per storage, one mark per node | `new_color`, `paint`, `incr_trav_id` | marks of nested traversals are kept apart |
| `views/fanout_limit_view.hpp` | last replica of each full gate, count of overwritten table entries | `create_maj`, `create_po`, `replicate_node` | no gate exceeds the limit; replicas compute what they stand for; gates are counted right |
| `views/topo_view.hpp` | an order of the nodes | `update_topo` | every gate the outputs need, once, after its fanins |
| `views/mffc_view.hpp`, `algorithms/detail/mffc_utils.hpp` | reference counts or node values, for the time of a call | `mffc_size`, `update_mffcs` | the cone is the maximal one; all counts are restored |
| `algorithms/window_rewriting.hpp` | levels, while it substitutes | `substitute_nodes`, `update_levels`, `update_depth` | levels and depth are exact when a call has returned |
| `views/mapping_view.hpp`, `cell_view`, `binding_view` and other annotations | one annotation per node | set, get | follow the node |
| XAG, MIG, XMG, X1G, TIG, MuxIG | as `aig.hpp`, other fanin counts and normal forms | as `aig.hpp` | as `aig.hpp` |
| k-LUT, cover, block, generic, crossed, buffered, AQFP, GIA, sequential networks | node arrays with other node types | building; substitution in one pass or none | as documented per type |
| other `algorithms/` | local to a call | rewriting, resubstitution, refactoring, balancing, mapping, retiming, simulation, synthesis | the network computes the same functions afterwards |
| `utils/`, `properties/`, `generators/`, `io/` | local to a call | containers, measures, readers, writers | – |

### How they interact

The library is single-threaded; what interleaves are *callbacks and recursion*.
A view is a subclass of the network that shares its storage and registers
handlers with the network's events. `take_out_node` and `revive_node` recurse
through the fanins and call handlers on the way; `substitute_node` runs a
worklist whose entries were computed before other entries changed the network
under them. Clients (the algorithms) call these operations in any order, with
signals they remembered from earlier, which may name nodes that have died.

### The hard behaviours

* a cascade: replacing a node makes a fanout equal to a gate that exists, which
  is put on the worklist and replaced in its turn, after other entries;
* an entry of the worklist whose new node has died in the meantime, and is
  either followed through `old_to_new` or revived;
* reference counts that are stale on purpose while a node awaits its removal,
  and are nevertheless what `take_out_node` decides by;
* two live gates with the same fanins, which re-hashing after a revival and
  substitution without re-hashing produce, and the one table entry they share;
* a view that visits a copy of a list while its own handlers change the list;
* linked lists that are joined, turned and cut in any order;
* a handler that edits the list its caller works through, and calls the
  operation that fires its event again (`substitute_nodes`);
* levels that are recomputed from fanins which are dead, or whose own levels are
  still to change;
* several views on one network, whose handlers run one after the other on
  vectors that copies share;
* recursions that take counts apart and must put them together again.

`PROJECT.json` lists every such hazard with its line and the property that would
catch it going wrong, or the reason why none does.

## 2. Plan

Done (sections 3 to 6), in this order:

1. `Aig`: the AIG and its restructuring; `AigFunction`: what its outputs compute.
2. `FanoutView`, composed with `Aig` through the events.
3. `ChoiceClasses` (abstract) and `ChoiceView` (its lists).
4. `AigProof`: types, soundness of the hash table, and the reference counts;
   `AigGuarantees`: references to dead nodes, what was replaced, and all of
   it from conditions on clients and cascades only;
   `AigOrder`: cascades close no cycle, which leaves one of these conditions;
   `AigFunctionProof`: what the outputs compute afterwards is what was asked for.
   `ChoiceViewProof`: the lists of `ChoiceView` implement `ChoiceClasses`.
   `FanoutViewProof`: the lists of `FanoutView` are never stale, and exact, and the
   network under the view stays sound.
5. `SubstituteNodes` over `Aig`: a list of substitutions in one call, and
   `WindowLevels` over it: the levels kept meanwhile.
6. `RankView`: `depth_view` and `rank_view`, several objects of them;
   `RankViewProof`: levels, depth and ranks stay exact.
7. `FanoutLimitView` on a majority-inverter graph.
8. `TopoView` and `Mffc`: pure algorithms on every network that the
   restructuring of `Aig` produces, against reference definitions.

Left, in the order in which it seems worth doing:

9. Proofs: `NotSelf` and `Acyclic` for clients that mix calls with and without
   re-hashing; the theorem on `fanout_view` without its assumption `Apart`.
10. `choice_view`'s own substitution with the choice flag in bit 30, and inputs
    created through the view; assignment and destruction of copies of a
    `fanout_view`.
11. XAG and MIG as variants of `Aig`; `color_view`'s shared counter.

## 3. The modules

### Aig

`Aig.tla` models `aig_network`. Nodes are indices; a signal is a node and a
complement bit; `hash` is a function from ordered pairs of fanins to nodes;
`h1` is the word that holds the reference count and, as its highest bit
`DeadBit`, the dead flag. `++` and `--` wrap at `2 * DeadBit`, so that a count
that runs over makes a node dead in the model as it does in the code.

Builders are one step each. `substitute_node` is a state machine with `pc`:

| `pc` | code |
|---|---|
| `pop` | `while ( !to_substitute.empty() )` (aig.hpp:668) |
| `resolve` | the search of `old_to_new` and the revival (672–686) |
| `begin` | before the loop over all nodes (688) |
| `scan` | inside it: one `replace_in_node` per step (693), then `replace_in_outputs` and `take_out_node` (699–707) |

`take_out_node` and `revive_node` recurse; `calls` is the stack of their
activations, and one step deals with the node itself or with one fanin. This
granularity is that of the events: every point at which a handler runs is
inside exactly one step, and all that a handler can see is a state of the model.
The loop over all nodes visits only what `replace_in_node` can change, the live
fanouts of `_old`, in the order of their indices; `replace_in_node` on any other
node returns at once.

What clients may do is in `Next` and its variants. They name live nodes when
they build; a replacement may be any node, dead or alive, that does not depend
on the node replaced (replacing a node by its own cone is no documented use).
`AnyNext` adds substitution without structural hashing and of a node by its own
complement, and `OldInputs` names the inputs that clients replace.

Left out: the visited flag and the value of a node (read by nothing modelled),
the derived builders (`create_or`, `create_xor`, ... are sequences of
`create_and`), iteration, and reallocation of the node array.

### AigFunction

Adds `promise`, the functions of the inputs that the outputs must compute. It
changes when a client calls an operation: `create_po` adds one, `substitute_node`
replaces the meaning of the old node by that of the new signal in all of them.
It never changes while an operation runs. The functions are computed from the
network as simulation would.

### FanoutView

Adds the lists `_fanout` and conjoins the handlers to the steps of `Aig` that
fire their events. Its own `substitute_node` differs from that of the network:
it revives the new node before the worklist starts, drops pairs that have become
trivial and visits a copy of the list of `_old`. The lists may be recomputed
whenever no operation runs (`UpdateFanout`), which is also what the constructor does
with an existing network. A copy of the view (`VCopy`) carries out every event once
more on the same lists: `Added`, `Modified` and `Deleted` apply the handler of one view
after the other. `FanoutViewProof` proves what the lists promise.

### ChoiceClasses and ChoiceView

`ChoiceClasses` is what `choice_view` promises: a partition with a
representative per class and a polarity per node. `ChoiceView` has the arrays
`_choice_repr` and `_choice_phase` as the code does, in which the entry of a
representative means something else than that of other nodes. The refinement
maps a node to the end of its list and to its phase, and `ClassesKept` states
that every step of the arrays is the step of the partition that was asked for.
`ChoiceViewProof` proves it.

### SubstituteNodes

`substitute_nodes` takes a list of substitutions. Each pair holds a reference to
its new node, and a delete handler, `clean_substitutions`, drops the pairs whose
old node has died. The comment above it (aig.hpp:765) speaks of the right-hand
side nodes, but the code compares `s.first`, the left-hand side; the model
follows the code. `todo` of `Aig` is the list; `pc` is `next`, `scan` or
`release`; `take_out_node` is that of `Aig`, step by step. The handler runs inside
it: entering a node pushes an activation on `cleans`, with the two iterators of
`std::remove_if` as positions, and until that activation has erased the end of
the list `take_out_node` does not go on. A pair that is dropped may take out its
new node, which calls `take_out_node` and the handler again. A fanout that awaits its
own pair is skipped (aig.hpp:787). (Without that the run passes too, because the
handler drops the second pair of a node with the first.)

`window` chooses between this function and its twin in window rewriting, which
visits the fanouts a `fanout_view` lists, in the order of the list, and finally
takes out a new node that is referenced by nothing. `promise` is as in
`AigFunction`, for all pairs at once: clients substitute gates by signals that
compute the same.

### WindowLevels

Adds what window rewriting does on the events: `level` and `depth` of its
`depth_view`, `update_node_level_precise` with its vectors of nodes per level,
`update_node_level_eager`, and `update_depth`. (`dont_update` touches no level, and
`recompute` calls `update_levels` of the `depth_view` at the end of the call.) An update runs to its end inside
the step that fires the event, on the fanins and counts the network has at that
moment, some of them dead. Levels are 32-bit numbers, counted modulo `Wrap`; a
deleted node gets the level -1.

### RankView

`rank_view` over `depth_view`, as objects: construction, copy, assignment,
destruction. A `node_map` is a shared pointer, so that the copy of a view writes
the same vectors as the original: `levelMap` and `posMap` say which data a view
points to. Add handlers run in the order of their registration. The network only
grows, as the documentation of the view asks. Levels are recomputed, and views
constructed, while every gate is in the cone of an output: to others `update_levels`
gives level 0. Clients change the order, and create inputs and outputs, through a view
that is alone; `AnySpec` has the others.

### FanoutLimitView

`fanout_limit_view` over the `create_maj` of `networks/mig.hpp`. A call is one
action, because nothing runs in between, but inside it the network is passed from
step to step as the code does: a fanin that is full is replaced by a replica,
which may need replicas of its own fanins, and only then is the next fanin looked
at. Clients pass fanins in any order, which is that in which they are looked at, and
also the same fanin twice; of the complements of three fanins they pass at most one,
since `create_maj` turns two or three into one or none and a complemented signal.

### TopoView and Mffc

The recursions of `topo_view` (`update_topo`), of `mffc_size` and of `mffc_view`
(`collect`, `compute_sets`, the restoring of counts), as recursive operators on
the state of `Aig`. They are compared in every state at rest with a definition
that does not recurse: reachability from the outputs, and the gates that
nothing outside uses.

## 4. What is checked

All runs search the whole state space of their instance. `CHECK_DEADLOCK FALSE`
is set everywhere because a library at rest need not be called again, and
because the bounds stop builders.

| run | instance | shows |
|---|---|---|
| `aig_unate` | 2 inputs, 4 gates in all, 1 output, no complements; up to 2 gates also without re-hashing | counts, table and references consistent at every step of every history, and no count near the dead bit, if no call without re-hashing makes the fanins of a gate the same node |
| `aig_cascade` | three networks of 4 and 5 gates, any complement | deep cascades are resolved correctly and return; in every network they leave, `topo_view` finds an order, and the fanout-free cones are the maximal ones |
| `aig_function` | 3 inputs, 2 gates, inputs replaced too; and the networks of `aig_cascade` | outputs compute what clients asked for; no cycle arises |
| `fanout_view` | 2 inputs, 3 gates, 1 output, all clients but those that replace inputs; the lists recomputed at any time, and a copy of the view | the lists are exact between operations and complete when visited, and hold nothing stale at any step in between |
| `choice_view` | 4 nodes | the lists implement the partition; walks visit exactly one class |
| `substitute_nodes` | four networks of up to 6 gates, two pairs in a call, both functions and both ways of updating levels | outputs, counts, levels and depth are right after a call, whatever the handler drops, and it returns; the levels of the eager update too, against its comments |
| `rank_view` | 2 views, 5 nodes | levels, depth and ranks are exact through copies and assignments |
| `fanout_limit` | limits 1 and 2, up to 5 nodes before a call, fanins in any order, 1 output, complements | outputs compute the right functions through any replicas of replicas, gates are counted right |
| `complement`, `choice_removed`, `fanout_limit_exceeded`, `revived` | | violations: see below |

The properties, in the order in which they matter:

* `OutputsKept` – substitution changes the outputs exactly as asked.
* `RefCountExact` – in *every* state, inside any recursion, the count of a live
  node is the number of its references, but for the fanins that the stack is
  about to release or count and for the node being replaced. `take_out_node`
  decides by the count alone.
* `OnlyUnreferencedDies`, `NoDeadReference`, `DeadFaninPending` – what is taken
  out is unused, nothing alive is left with a dead fanin, and in between only
  gates that are still to be dealt with are.
* `HashSound` – the table, which is written at five places, never names a dead
  node or one with other fanins.
* `OldIsGone`, `ReplacedStaysDead` – a replaced node is unreferenced when the
  call returns, and is not revived before.
* `CascadeSound` – no pair of a cascade makes a node its own replacement, and none
  revives a node that something alive refers to already.
* `Acyclic`, `Terminates`, `NoOverflow`.
* `FanoutExact`, `NoFanoutMissed` – the lists of `fanout_view` between operations, and
  when they are visited; `NoStaleFanout` – in *every* state, inside any recursion and
  any visit, they hold live fanouts only, and so does the copy being visited: dead
  gates in it would be rewired and entered in the table again.
* `ClassesListed`, `ClassesKept`.
* `SOutputsKept`, `SRefCountExact`, `PairsHold`, `OldAlive`, `STerminates` – of
  `substitute_nodes`: every reference a pair holds is given back once, by the loop
  or by the handler; until then the new node is alive; the old one is alive when it
  is taken out, as the code asserts (aig.hpp:817).
* `LevelsExact`, `AssertionsHold` – the levels of window rewriting's precise update
  are exact after every call, as the code asserts (window_rewriting.hpp:374), though
  computed from dead fanins on the way, and its vectors are never written behind the
  point they have been worked through to. `EagerLevelsExact` – so are the levels of
  the eager update, of which the code claims the contrary (see the disagreements).
* `LevelsExact`, `DepthExact`, `RanksExact` – of every view in `RankView`.
* `OutputsKept`, `NumGates`, `LimitKeptIfSeparate` – of
  `FanoutLimitView`.
* `TopoSorted`, `SizeExact`, `ViewExact` – the pure algorithms.

Every property of a passing run comes with a mutated definition (the "slips" in
the modules: a dropped erase, a missing decrement, an entry resolved too early,
a handler that ignores revived nodes) that violates it under the same instance.

### Bounds

* `MaxNodes`, `MaxPis`, `MaxPos` bound what clients build; dead nodes stay in
  the array and use it up. Four gates over two inputs are enough for a cascade
  of two, for twins and for a revival; deeper ones do not arise from so few
  nodes, which is why `aig_cascade` starts from three given networks: those of
  two regression tests (`test/networks/aig.cpp:942` and `:982`) and one in
  which `old_to_new` must be followed. They are states that building reaches.
* The runs that start with the inputs in place leave out only the order in which
  inputs and gates are created.
* In `aig_unate` clients substitute without re-hashing while the network has at most
  `MaxPlain` = 5 nodes, two of them gates: enough for a call that leaves two gates
  with the same fanins, which the hashing ones then build upon.
* `DeadBit` is 2^31 in the code and 8 or 16 here; no run with the other clients comes
  near it (`NoOverflow`, checked with 8 in `aig_unate`). That no client that replaces
  gates ever comes near it, if it leaves room for two references of every node, is
  proved. Clients that replace an input or
  complement a node leave references counted that are gone, so that a
  count can be driven up without limit; in `aig_function` and `fanout_view` they
  stop when a count passes `MaxDrift` = 3. In `fanout_view` clients that complement
  nodes create no output, which halves the states and leaves nothing out that
  concerns the lists. There are up to `MaxViews` = 2 views; while there are two,
  clients create no output and hash structurally. (Without the latter bound the run
  passes too, with a fifth more states.) In `aig_function` clients build up to `MaxBuilt` = 6 nodes,
  or start from one of the larger networks.
* `choice_view` has 4 nodes: two lists of two can be joined, and a list of four
  has a head, a representative, and two nodes between.
* `MffcLimit` is 100 in the code and 3 here, so that `collect` also gives up.
* `substitute_nodes` starts from four networks: that of
  `test/networks/aig.cpp:895`, two in which a pair is added while another waits
  (once with a complement), and a chain with short equivalents. Calls have up to
  `MaxPairs` = 2 pairs and may follow one another. `Wrap` = 16 is above every
  level that arises, so that the level -1 of a dead node stands out;
  `AssertionsHold` also fails if an update were not done after `MaxWork` = 20
  nodes.
* `rank_view` has 5 nodes, which is two ranks of gates, and two views: copy and
  original, or two constructed at different times.
* `fanout_limit` allows a call on networks of up to 5 nodes; the replicas that it
  makes come on top.

### Fairness

`Terminates` assumes `WF_vars(Unwind)` and `WF_vars(Substitute)`: a call that
has been made runs on. The code is sequential and returns to its caller only at
the end; clients are not assumed to call anything. In `aig_cascade` they
substitute live gates by live signals, so that each call leaves fewer gates.
`STerminates` assumes the same of the two parts of a `substitute_nodes` call, the
loop with `take_out_node` (`SRun`) and the handler (`SClean`). The call returns because
the loop goes once through the fanouts that a node had when it was taken from the
list, and takes the node out then. Its slip, `StillFanouts`, is a loop that
runs as long as there are fanouts: one that awaits its own pair is skipped and stays
a fanout, and the loop spins on it without changing anything, which in the model is
`SVisit` enabled for ever in a step that leaves all variables as they are.

### Disagreements with the documentation

Four have a run that shows the violation:

* `complement` – replacing a node by its own complement, as a test does, gives
  wrong outputs when the replacement cascades.
* `choice_removed` – a representative that `remove_choice` removed still names
  the head of the list it left; walks from it do not return. The mapper removes
  only nodes that are not representatives (`algorithms/emap.hpp:5592`), and
  `delete_choice_from_network` nodes that are not used again: those are the
  clients of the passing run.
* `fanout_limit_exceeded` – `create_maj` looks at its fanins one by one and counts
  them at the end. A fanin that was one below the limit can be referenced by the
  replica that is made for the next one, and then once more. `LimitKeptIfSeparate`
  shows that this is the only way: the limit is kept as long as no fanin of a gate
  occurs in the cone of another.
* `revived` – of two pairs that wait in a cascade, the gate of the first still has
  the old node of the second as a fanin. When the second has been replaced and the
  first is popped, its new node, dead by then, is revived together with its fanins,
  and one of those is the node that has been replaced. It is referenced again when
  the call returns, though "Afterwards, the fan-out count of `old_node` is guaranteed
  to be 0" (`interface.hpp:305`). It takes eight gates; the run follows one client.

The specifications show more, each as a violated invariant under a specification
and constants given here:

* `num_gates()` is the size of the hash table, "the number of gates (without dead
  nodes)" by `interface.hpp:403`. When a gate is revived or re-hashed to fanins
  that another live gate has, they share an entry. (`NumGates` under `MCSpec` of
  `MCAig`, constants of `aig_unate`. That it is never ahead is proved.)
* `replace_in_node_no_restrash` replaces the first fanin that is the old node. A
  gate that an earlier call gave the same node twice keeps it as its other fanin,
  dead, though "all nodes that have old_node as fanin" are to have the new signal
  (`interface.hpp:302`). `aig_unate` shows that nothing goes wrong without such
  gates, and `PlainSubstitutionsAreSafe` proves it. (`OldIsGone` under `MCTwinSpec` of
  `MCAig`, constants of `aig_unate`.)
* `update_fanout` lists a gate once per fanin *node*, the add and modified handlers
  once per *fanin*. For a gate with the same node twice this makes a difference: the
  view's `substitute_node_no_restrash` visits the gate once per entry and replaces
  one fanin per visit, so that after `update_fanout` one of the two stays, dead.
  Clients of `fanout_view` recompute the lists only without such gates.
  (`NoDeadReference`, `FanoutExact` and `NoFanoutMissed` are violated within 22
  steps when `~Twin` is dropped from `VNext`, constants of `fanout_view`.)
* Copies of a `fanout_view` share their lists, and each answers every event, so
  that `foreach_fanout` visits a fanout of a new node twice. Substitution does not
  suffer: `FanoutExact` asks for the right nodes, and for the right number of
  entries as long as there is one view.
* A replaced *input* keeps its fanout size, because `take_out_node` returns at once
  for it (aig.hpp:601) and nothing else releases the references; `OldIsGone` is
  therefore checked only where clients replace gates.
* `clean_substitutions` runs inside the predicate of the `std::remove_if` of another
  activation of itself, on the same `std::list`. With three pairs the inner one can
  erase elements at which the iterators of the outer one are. (`IteratorsValid`
  under `MCErasedSpec` of `MCSubstituteNodes`, constants of `substitute_nodes` with
  `MaxNodes` = 11 and `MaxPairs` = 3. With two pairs it does not happen.)
* Clients of `substitute_nodes` must see to it that no new node depends on *any* of
  the old ones. If they only see to it that the pairs together close no cycle, a
  pair that a cascade adds can close one through a node that another pair has
  yet to replace, and a dead node stays referenced. (`NoDeadReference` under
  `MCCycleSpec` of `MCSubstituteNodes`, `MaxNodes` = 8.)
* `update_node_level_precise` asserts first of all that no dead node is reachable
  from the node it starts at (window_rewriting.hpp:655). In the middle of
  `substitute_nodes` a node may be rewired above a gate that awaits its own pair and
  has a dead fanin. (`ConeAlive` under `MCSpec` of `MCSubstituteNodes`, constants of
  `substitute_nodes`.) The levels come out right all the same (`LevelsExact`).
* With the strategy `eager` "some levels are wrong" (window_rewriting.hpp:68) and
  "some levels will be wrong" (`:76`), and `check_network_levels` is asserted for
  `precise` and `recompute` only (`:370`). In all instances checked every level is
  exact when a call has returned (`EagerLevelsExact`). The reason is the same for any
  network: when `update_node_level_eager` has changed a level it visits all live
  fanouts, and a node that is rewired is visited too, so that the last visit of a
  node comes after the last change below it. What it does without is the topological
  order, and the price is that it may visit a node several times; levels are wrong
  only in between, as with `precise`. The comments can be read as a warning of that,
  but do not say so. No theorem covers this.
* Copies of a `rank_view` share their positions but not their ranks: `swap` in
  one puts the other in disorder. (`RanksExact` under `AnySpec` of `RankView`.)

## 5. What is proved

`AigProof.tla` holds for every value of the constants and for all clients
(`AnySpec`).

* `TypeCorrect`: `AnySpec => []TypeOK`. Counts stay in their 32 bits, every
  index stays in the array and the stack of calls is well formed.
* `HashTableSound`: `AnySpec /\ []NoOverflow => [](HashSound /\ Allocated)`.
  Every entry of the hash table leads to a live gate with the fanins of its key,
  and whatever a fanin, an output, the worklist, `old_to_new` or the stack names
  has been allocated.
* `NumGatesNeverAhead`: under the same assumption `num_gates()` is at most the
  number of live gates, because a sound table is an injection into them. That it
  can be less is the disagreement about `num_gates()` above.

The assumption `[]NoOverflow` says that no count reaches the dead bit. It cannot
be dropped: with enough references an increment kills a node that the table
names. The constants are assumed to be what their `ASSUME`s state.

`HashSound` alone is not inductive. `RestrashNode` writes an entry for a node of
`scan`, so `Scanning` keeps `scan` live, which in turn holds because no call is
active while the loop runs. `ReviveEnter` makes a node live and writes its
entry, so that the node must have been allocated (`Allocated`) and be a gate
(`OnlyGatesDie`, by which a dead node met as a fanin is a gate). Counting a
reference must not kill a node, so new nodes need a count of 0 (`Fresh`). An
entry that another node holds survives only if its own fanins did not change:
that is `HashSound` of the step before. The invariant is

    IInv == TypeOK /\ Allocated /\ Fresh /\ OnlyGatesDie /\ Scanning /\ HashSound

and the proof has one lemma per conjunct and one step per action, over lemmas
on counts (`CountsUp`, `CountsDown`), on stacks (`PushInSeq`, `PopFromSeq`) and
on tables (`InsertType`, `Rehash`).

The second half of `AigProof.tla` is about the reference counts, for the same clients:

* `CountsStayExact`:
  `AnySpec /\ OldInputs = {} /\ []NoOverflow /\ []CascadeSound
     => [](RefCountExact /\ OnlyUnreferencedDies)`.
  At every step of every recursion the count of a live node is the number of its
  references, but for the fanins that running calls are about to release or to
  count; and what `take_out_node` removes on its way down is referenced by nothing,
  although it goes by the counts alone.

Its assumptions, besides `NoOverflow`:

* `OldInputs = {}`: clients replace gates. A replaced input keeps its count, as the
  disagreement above says, and from then on it is not exact.
* `CascadeSound`: no pair of a cascade makes a node its own replacement
  (`replace_in_node` would rewire its fanouts to the node itself and count them
  twice), and no live gate refers to a node that is about to be revived, whose
  count `revive_node` sets to 0. Both depend on how `old_to_new` and the table lead
  a cascade on, which is a matter of the functions and the order of the nodes. TLC
  checks `CascadeSound` in `aig_cascade`; where it holds, the theorem says that the
  counts can go wrong in no other way. Its mutant shows that it is not for nothing:
  a dead node that is revived before `old_to_new` has been asked violates it.

The equation between counts and references (`CountsExact`) is not inductive by
itself. `TakeOutFanin` leaves a fanin alone whose fanout size is 0: that is right
only if the fanin is dead, which follows from the equation, as the fanin is still
ahead of the call, provided that nothing is to be revived meanwhile (`OneKind`: the
activations on the stack are all of one kind). The node that a `take_out_node` is
about to enter has count 0 because that is why it was called, and only the
innermost activation can be at that point (`Nested`). `replace_in_node` counts
_new_, which must be live by then (`Phases`). The count of _old_ is stale from its
first rewired fanout until it dies, so that it must die: it is a gate (`OldGates`),
and it is not _new_ (`NotSelf`). And a dead node has no count (`DeadUncounted`), so
that nobody releases a reference to it twice. The invariant is

    CInv == IInv /\ OneKind /\ OldGates /\ Phases /\ DeadUncounted /\ CountsExact /\ Nested

with one lemma per conjunct, and one for each kind of step that changes a count.
Below them are two kinds of lemmas on cardinalities: what one gate that appears,
dies or is rewired does to the number of references (`OneGateChanges`), and what a
frame that is pushed, advances or returns does to the number of fanins ahead
(`AheadPush`, `AheadAdvance`). Before it was proved, `CInv` was checked by TLC with
the constants of `aig_unate` and `aig_cascade`.

`AigGuarantees.tla` is first about dead nodes that something still refers to:

* `NothingRefersToTheDead`:
  `AnySpec /\ OldInputs = {} /\ []NoOverflow /\ []CascadeSound /\ []NoTwins
     => [](DeadFaninPending /\ NoDeadReference)`.
  While a cascade runs, only gates that wait for their own pair refer to a dead node;
  when an operation has returned, nothing does.
* `HashingLeavesNoDeadReference`: the same of `Spec` without the assumption
  `[]NoTwins`, which it proves. `NoTwins`, that no gate has the same node twice, is
  what the trivial cases of `create_and` and `replace_in_node` see to; without
  hashing clients must, as `replace_in_node_no_restrash` replaces one fanin only.
* `ReplacedNodesAreGone`: under `ReplacedStaysDead` a substitution with hashing ends
  with `OldIsGone`: every node it replaced is dead and has fanout size 0.

`DeadFaninPending` says nothing of how a fanin comes to be dead. The invariant adds
to it what the loop has not visited yet (`Missed`: a live fanout of _old_ is in `scan`
or waits for its own pair), what is about to be taken out (`Unneeded`: only gates
that wait refer to it), that activations deal with their node before its fanins
(`Frames`), and that outputs are never dead, because `FinishPair` redirects them
before it takes _old_ out (`OutputsLive`):

    DInv == QuietIdle /\ Missed /\ Unneeded /\ Frames /\ OutputsLive /\ DeadFaninPending

`Hashed` is the invariant for the clients of `Spec`: no gate, dead or alive, has the
same node twice, since a dead one may be revived. `Buried` says that what `old_to_new`
records is a dead gate, or the one that is being taken out at this moment.

It then removes the assumptions that are about the inside of the network:

* `CountersNeverOverflow`: `AnySpec /\ OldInputs = {} /\ Room /\ []CascadeSound
  => []NoOverflow`, where `Room` is `2 * MaxNodes + 2 * MaxPos + 1 < DeadBit`. Exact
  counts are bounded by what gates and outputs can refer to; `Bounded` extends this to
  those that are not exact, a replaced node and one that frames still release, because
  nothing raises them.
* `OnlyTwoWaysToFail`: for all clients that replace gates and give no gate the same
  node twice, everything above holds as long as no pair makes a node its own
  replacement (`NotSelf`) and no replaced node is revived (`ReplacedStaysDead`), and
  no node is revived while something refers to it. So these are the only two ways in
  which a cascade can damage a network.
* `OnlyTwoWaysToFailHashed`: the same for `Spec`, without the assumption on clients.
* `PlainSubstitutionsAreSafe`: clients that never re-hash and give no gate the same
  node twice need none of the two. There is no worklist then.

`NotSelf` and `ReplacedStaysDead` are about where the hash table and `old_to_new` lead
a cascade. `AigOrder.tla` proves the first for the clients of `Spec`. The second does
not hold in general, as the run `revived` shows, so that a theorem cannot do without
it.

That a node which is revived is referenced by nothing (`RevivedUnreferenced`, the
other half of `CascadeSound`) needs an account of who may refer to a dead node.
`Forgotten` says it: references to a dead node that was not replaced are exactly those
that revivals are about to count. For this to be inductive, what is taken out must
have no references left but for the node replaced (`Doomed`), that node must have been
recorded before (`Recorded`), and without re-hashing no pair waits (`PlainAlone`):

    EInv == PlainAlone /\ Recorded /\ Doomed /\ Forgotten

`AigOrder.tla` is about the order of the gates:

* `OnlyOneWayToFail`: `Spec /\ OldInputs = {} /\ Room /\ ReplacedStaysDead =>
  [](Acyclic /\ NotSelf /\ NoTwins /\ HashSound /\ NoOverflow /\ RefCountExact
  /\ OnlyUnreferencedDies /\ DeadFaninPending /\ NoDeadReference /\ OldIsGone)
  /\ [][ReviveEnter => RevivedUnreferenced]_vars`. A client must choose _new_ outside
  the gates that depend on _old_, as `Begin` asks. Nothing asks that of the pairs that
  the cascade adds: a gate that becomes equal to another one is replaced by it, and
  that other one is then led on through `old_to_new`. The theorem says that no such
  pair closes a cycle, so that reviving a replaced node is the only way in which a
  substitution with re-hashing can damage a network.

That the gates are acyclic is not inductive: whether a pair may be applied depends on
what has been replaced before, on what waits, and on what each of them will be led on
to. The invariant speaks of the network as it will be. `rep` tells what every node has
become in this call (`Represents`); the `Quotient` has the references of live gates
and those of dead ones that were not replaced, each to what the fanin has become, and
an edge from the old node of each pending pair to what its new node has become.
It is this graph that has no cycle, besides the references themselves:

    OInv == \E rep, w : Order(rep, w) /\ Waits

Three things keep it so.

* A pair that a collapsing gate adds leads to a constant, to one of its own fanins, or
  to a gate with the same fanins (`Covers`): what its edge adds to reachability was there already.
  Later replacements may change the fanins of the one or of the other; `Covered`
  says what is left of that when they do.
* The gate that the table holds may be rewired before its twin is dealt with.
  `Weights` gives every replaced node more than two that were replaced after it, so
  that fanins that have become equal can be told apart by when they were replaced: the
  gate that was rewired later has the lighter fanins.
* A live gate that still refers to a replaced node waits for its own pair, and
  everything that is dealt with before it depends on that node too, is about to be
  taken out, or is being revived (`Waits`). So a pair that is skipped, or whose node
  died meanwhile, leaves nothing behind.

`rep` and `w` are no variables of the code; each step of the proof gives the next
ones. Before the proof they were checked by TLC as history variables with the
networks and clients of `aig_cascade` and `revived`.

`Cone`, in which `Acyclic` is stated, is a recursive function. It is unfolded
(`StepsExist`, `ConeReach`) by an induction over numbers (`AllNumbers`: a set of
numbers that has 0 and every successor has them all), which needs no operator as
parameter. `Paths.tla` has this and the facts on
graphs: reachability as the least closed set, and which changes leave a graph without
cycles (edges that follow paths, an edge whose head does not reach its tail, edges
from a vertex that no edge leads to).

`AigFunctionProof.tla` is about what a network computes:

* `SubstitutionKeepsOutputs`: `FSpec /\ OldInputs = {} /\ Room /\ ReplacedStaysDead =>
  []OutputsKept`. When an operation has returned, every output computes what its
  client asked for: the function it had, with the replaced gate computing what its
  replacement did. The order in which a cascade deals with its pairs, the pairs that
  hash hits and trivial gates add, and those that are skipped make no difference.

`TablesWith` computes the functions of all nodes in `MaxNodes` rounds, one level of the
network more in each. In a network without cycles they settle (`TablesSettle`: after
as many rounds as there are nodes below it, the entry of a node no longer changes),
and nothing but their result solves the equations of the gates (`OneTable`), on any
set of nodes that has the fanins of its members. So it is enough to have one solution
at every step of a cascade:

    FInv == ~isCi[0] /\ \E T \in Table : Consistent(T) /\ promise = FunctionsOf(T)

`T` is the table the client asked for when the substitution began. `Consistent` says
that every node computes its entry from those of its fanins, but for what this call
replaces: the node the client named, until its fanouts have left it, and the nodes
that were retired. And it says that both sides of every pair that waits, and of every
entry of `old_to_new`, have the same function, up to the complement they record: why a
cascade may replace, skip and chain them at will. That a gate which collapses or meets
its twin has the function of its replacement is then a matter of its two fanins
(`TrivialComputes`, `RewiredComputes`). The order of the gates is needed from
`AigOrder` at each step (`OrderKept`): with a cycle, the equations say nothing. `FInv`
was checked by TLC with the networks of `aig_function` before it was proved.

`FanoutViewProof.tla` is about the lists of `fanout_view`, for any number of copies of
the view:

* `ListsNeverStale`: `VAnySpec /\ []NoOverflow => [](NoStaleFanout /\ fanout \in Lists)`.
  Whatever clients replace, complement, take out or revive, and in the middle of it, a
  list holds live gates that have its node as a fanin.
* `ListsAreExact`: `VSpec /\ OldInputs = {} /\ []NoOverflow /\ []NoTwins /\ []Apart /\
  []RevivedUnreferenced => [](FanoutExact /\ NoFanoutMissed)`. Between operations the
  list of a live node holds each of its fanouts, once if there is one view, and a
  visit of the copied list misses no fanout of the node that is replaced.
* `ViewKeepsNetwork`: under the assumptions of `ListsAreExact`,
  `[](RefCountExact /\ OnlyUnreferencedDies /\ DeadFaninPending /\ NoDeadReference)`.
  The view's own `substitute_node` is as safe for the network as the network's.

The invariant of the first is that of the network, which the view's own
`substitute_node` keeps though it meets the fanouts of _old_ in another order
(`AnyVisit`), with what the lists hold (`ListsCurrent`) and the copy (`CopyAlive`):

    VInv == IInv /\ scan = {} /\ VTypes /\ ListsCurrent /\ CopyAlive

A node is listed when it comes to life and taken from the lists of its fanins when it
dies, in the step that does so; the copy stays alive because nothing is taken out
while it is visited.

That nothing is *missing* is harder. `on_delete` empties the list of a node that is
taken out although live gates may still have it as a fanin: a gate that collapsed when
it was visited keeps _old until its own pair is dealt with, and _old is taken out
meanwhile. So a fanout may be unlisted while it is leaving itself, and only then:

    Complete == \A g \in LiveGates : \A m \in FaninNodes(g) :
                  g \in Members(fanout[m]) \/ (m # g /\ Leaving(g))

This rests on the counts, because they decide what is taken out. The view does not take
the steps of the network's `substitute_node`, so that `CInv` (`VisitCounts`) and the
invariant that what is taken out is needed by nobody else (`CountsKept`, with
`Unneeded` of `AigGuarantees`) are proved again for its own loop. `ToVisit` says that a
fanout of _old_ which is not in the rest of the copy awaits its pair, and `ListedOnce`
that a single view has no entry twice. The whole is

    VFullInv == VInv /\ CInv /\ Unneeded /\ QuietIdle /\ Complete /\ ToVisit /\ ListedOnce

For `ViewKeepsNetwork` this is taken together with the parts of `DInv` that do not speak
of the network's own loop (`VDeadInv`): a visit leads a gate only to _new_, which is alive
(`VisitKeepsAlive`), and when the loop ends, `ToVisit` says of the copy what `Missed`
says of `scan`.

The assumptions are those of `NothingRefersToTheDead`, except that `Apart` asks of a pair
that it is no replacement of a node by itself already when the loop begins: `Drop`, by
which the view skips such a pair, would leave alive a gate whose fanins may have been
taken out in view of its going. Whether that can happen is open; the run `fanout_view`,
in which pairs are dropped, finds no such gate. `VFullInv` and `Apart` were checked by
TLC before they were used, with the constants of `fanout_view` but no output and no
clients that complement nodes, and with the networks of `aig_cascade`. The
handlers of several views are recursive functions on the number of views (`Added`,
`Modified`, `Deleted`); what the first brings about the others keep (`EveryView`).

`ChoiceViewProof.tla` is about the lists of `choice_view`, for any number of nodes:

* `ListsListClasses`: `Spec => []ClassesListed`.
* `ListsKeepClasses`: `Spec => ClassesKept`, the refinement: the initial arrays map to
  the initial partition, and every step to the one of `ChoiceClasses` that the
  operation is meant to be, or to none.

The walks are recursive functions that take as many steps as there are nodes. What
they compute is known as soon as it is known how far every node is from the end of its
list, which the code stores nowhere:

    CInv == \E lead, d : Stored(lead, d)

`lead` names the leader of every node and `d` the number of steps to it. A node that is
not a leader is one step further away than the next one of its list, and no two nodes
of a class are equally far (`Chained`): so a class is one list and not a tree, and a
walk is never longer than there are nodes (`FewSteps`). The phase of a leader names the
node that is farthest from it (`Heads`), and that of any other node names itself. Each
operation gives the next `lead` and `d`: joining two lists (`MergedLists`), turning one
so that another node leads it (`ElectedLists`), and taking a node out of one that it
leads, where another takes over (`DeposedLists`), of which it is the head
(`HeadLeftLists`) or inside (`InnerLeftLists`). TLC checked the invariant with the
constants of `choice_view` first.

`RankViewProof.tla` is about `depth_view` and `rank_view`, for any finite set of view
objects and any bound on the nodes:

* `LevelsStayExact`: `Spec => []LevelsExact`. Every view has the exact level of every
  node. In `Spec` views are constructed, and levels recomputed, only while every gate
  is in the cone of an output (`NoDangling`).
* `DepthStaysExact`: `Spec => []DepthExact`. A view that is alone has the exact depth.
* `RanksStayExact`: `Spec => []RanksExact`. In every view `rank_position` and
  `at_rank_position` are inverse to each other, and the width is that of the widest
  rank.

The invariant says the same of all views at once, and why their handlers keep it:

    RInv == WellBuilt(fanins) /\ outs \subseteq Nodes /\ RTypes
            /\ Handlers(handlers, live) /\ (\A v \in live : ViewIsExact(v)) /\ SharedAlike

A new gate is entered once by each view, one after the other, and copies write to the
same vector of positions. That goes well only because copies have the same ranks
(`SharedAlike`): the second one writes the position that the first one wrote, which is
then right for both. It is why the swaps of one of several views are excluded. In the
middle of this some views have entered the node and others have not, and what is true
then is `TurnedTo`: the views whose turn has come have the new ranks, and so has every
vector of positions that one of them uses. Each view has its turn exactly once
(`Handlers`), also after an assignment, which gives its handler back and registers
another at the end. The level of the new node is right whichever view asks, because
the handlers of the depth views have run before. For the constructor, `Entering` says
what has been entered after each node; ranks up to the depth are enough for it because
every gate is in the cone of an output (`NoDangling`). A constructed view writes to
vectors nobody else uses: there is one for
each view, so that one is unused while not all views exist.

The recursions (`Heights`, `ComputedLevels`, `Reached`, `AllOnAdd`, `InitRanks`) are
recursive functions on numbers, unfolded by `AllNumbers`. `Heights` is proved to be the
only solution of its equation (`IsHeights`), and `ComputedLevels` to solve it. What is
assumed are the `ASSUME`s of `RankView`: there are finitely many views, and the bounds
are numbers.

Only model-checked: the other modules, and `NotSelf` and `Acyclic` for clients that
switch between calls with and without re-hashing. `ReplacedStaysDead` is checked, and
false for a large enough network. Out of the prover's reach: liveness (`Terminates`),
anything about `ENABLED`, and the modules that declare a RECURSIVE operator
(`FanoutLimitView`, `TopoView`, `Mffc`, and what is built over them). Induction on data
by the library's theorems is too; where a definition is a recursive function it is
unfolded as above, but the folds and filters of the community modules (`FoldLeft`,
`SelectSeq`) in `SubstituteNodes` and `WindowLevels` are left to TLC.

## 6. Not modelled

See `components` in `PROJECT.json`. In short: the restructuring of other network
types, which is that of the AIG with other trivial cases; views that annotate
nodes or forward to the network; and the algorithms but for window rewriting's
substitution and levels. Which nodes an algorithm chooses to replace is covered by
the client's free choice in `Aig`; how it chooses them (truth tables,
floating-point costs, SAT) is not the subject of these specifications. Of
`depth_view` other costs than one per gate, and the critical path; of
`choice_view` its own substitution; of `fanout_view` the assignment and the
destruction of copies. Handlers are not
registered or released while others run.
