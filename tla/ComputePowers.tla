---------------------------- MODULE ComputePowers ----------------------------
(***************************************************************************)
(* Receiver::ComputePowers (uMCRG/MCRG/receiver/apsu/receiver_ddh.cpp) on  *)
(* a PowersDag: parallel_apply (common/apsu/powers.h) runs one node_worker *)
(* per pool thread over a shared array of atomic node states, each turning *)
(* the node it claimed into a product of its two parents; when every       *)
(* worker has returned, one task per power switches it to the form the     *)
(* polynomial evaluation wants, in place.                                  *)
(*                                                                         *)
(* A ciphertext is the exponent of the power it encrypts and the form it   *)
(* is in.  A product reads its parents when it begins and stores its       *)
(* result when it ends, two steps, so that workers overlap inside it.  The *)
(* worker's std::all_of over the states is one step: Computed is final, so *)
(* the scan is true only if all are computed when it ends and false only   *)
(* if one was not when it began.                                           *)
(***************************************************************************)
EXTENDS PowersDag

CONSTANTS
    Threads,   \* ThreadPoolMgr::GetThreadCount(): the workers enqueued
    LowDegree, \* ps_low_degree
    Throwing   \* the powers whose multiplication throws

ASSUME ThreadsAssumption == Threads \in Nat \ {0}
ASSUME LowDegreeAssumption == LowDegree \in Nat
ASSUME ThrowingAssumption == Throwing \subseteq Nat

VARIABLES
    state,   \* node_states: power -> "uncomputed", "computing", "computed"
    powers,  \* powers_at_this_bundle_idx: power -> ciphertext
    worker,  \* worker -> its stage, its power_idx, what it read
    main,    \* where ComputePowers is
    awaited, \* main: futures it has collected
    applied  \* power -> how often func was applied to its node

applyVars == <<state, powers, worker, main, awaited, applied>>
vars == <<dagVars, applyVars>>

Workers == 1..Threads

Blank == [exp |-> 0, form |-> "blank"]
Ciphertext(e, f) == [exp |-> e, form |-> f]

(* What the second phase makes of a power: mod_switch_to_inplace to the    *)
(* high or the low level, and NTT form except for Paterson-Stockmeyer's    *)
(* high powers.                                                            *)
FinalForm(p) ==
    CASE LowDegree = 0 -> "ntt_high"
      [] LowDegree # 0 /\ p <= LowDegree -> "ntt_low"
      [] OTHER -> "high"

Forms == {"blank", "coefficients", "ntt_high", "ntt_low", "high"}

Order == Ascending(targets)    \* target_powers_vec
Claimed(w) == Order[worker[w].idx]
AllComputed == \A p \in DOMAIN state : state[p] = "computed"

Idle == [at |-> "queued", idx |-> 1, ready |-> FALSE, prod |-> 0]

-----------------------------------------------------------------------------
Init ==
    /\ DagInit
    /\ state = <<>> /\ powers = <<>> /\ applied = <<>>
    /\ worker = [w \in Workers |-> Idle]
    /\ main = "configure"
    /\ awaited = 0

Prepare == main = "configure" /\ Configure /\ UNCHANGED applyVars

(* No cache at this bundle index: nothing to evaluate, nothing to compute. *)
NothingToDo ==
    /\ main = "configure" /\ configured
    /\ main' = "returned"
    /\ UNCHANGED <<dagVars, state, powers, worker, awaited, applied>>

(* An unconfigured dag makes parallel_apply throw before anything else. *)
NotConfigured ==
    /\ main = "configure" /\ ~ configured
    /\ main' = "threw"
    /\ UNCHANGED <<dagVars, state, powers, worker, awaited, applied>>

(* RunQuery: the powers of the query, and at the others empty ciphertexts. *)
LoadInputs ==
    [p \in targets |-> IF p \in sources THEN Ciphertext(p, "coefficients") ELSE Blank]

(* The workers are enqueued. *)
StartApply ==
    /\ main = "configure" /\ configured
    /\ state' = [p \in targets |-> "uncomputed"]
    /\ powers' = LoadInputs
    /\ applied' = [p \in targets |-> 0]
    /\ main' = "apply"
    /\ UNCHANGED <<dagVars, worker, awaited>>

-----------------------------------------------------------------------------
(* node_worker.  The states and the powers it uses live in main's frame:   *)
(* it is modelled while main is in parallel_apply.  When main has left on  *)
(* an exception, what the others still do is undefined, and no more is     *)
(* said of them.                                                           *)
At(w, stage) == main = "apply" /\ worker[w].at = stage
GoesTo(w, stage) == worker' = [worker EXCEPT ![w].at = stage]

MovesOn(w) ==
    worker' = [worker EXCEPT ![w].at = "check",
                             ![w].idx = (@ % Len(Order)) + 1]

Starts(w) ==
    /\ At(w, "queued")
    /\ GoesTo(w, "check")
    /\ UNCHANGED <<dagVars, state, powers, main, awaited, applied>>

ChecksDone(w) ==
    /\ At(w, "check")
    /\ GoesTo(w, IF AllComputed THEN "done" ELSE "claim")
    /\ UNCHANGED <<dagVars, state, powers, main, awaited, applied>>

\* Mutant: a claim that tests for Computed instead of exchanging.
ClaimsUnlocked(w) ==
    /\ At(w, "claim")
    /\ state[Claimed(w)] # "computed"
    /\ state' = [state EXCEPT ![Claimed(w)] = "computing"]
    /\ GoesTo(w, IF IsSource(nodes[Claimed(w)]) THEN "begin" ELSE "first_parent")
    /\ UNCHANGED <<dagVars, powers, main, awaited, applied>>

Claims(w) ==
    /\ At(w, "claim")
    /\ state[Claimed(w)] = "uncomputed"
    /\ state' = [state EXCEPT ![Claimed(w)] = "computing"]
    /\ GoesTo(w, IF IsSource(nodes[Claimed(w)]) THEN "begin" ELSE "first_parent")
    /\ UNCHANGED <<dagVars, powers, main, awaited, applied>>

PassesBy(w) ==
    /\ At(w, "claim")
    /\ state[Claimed(w)] # "uncomputed"
    /\ MovesOn(w)
    /\ UNCHANGED <<dagVars, state, powers, main, awaited, applied>>

ParentsKnown(p) == \A i \in {1, 2} : nodes[p].parents[i] \in targets

(* "PowersDag is in an invalid state": the claimed node stays Computing. *)
ParentMissing(w) ==
    /\ At(w, "first_parent")
    /\ ~ ParentsKnown(Claimed(w))
    /\ GoesTo(w, "threw")
    /\ UNCHANGED <<dagVars, state, powers, main, awaited, applied>>

ReadsFirstParent(w) ==
    LET node == nodes[Claimed(w)]
    IN  /\ At(w, "first_parent")
        /\ ParentsKnown(Claimed(w))
        /\ worker' = [worker EXCEPT
                ![w].at = "second_parent",
                ![w].ready = state[node.parents[1]] = "computed"]
        /\ UNCHANGED <<dagVars, state, powers, main, awaited, applied>>

\* Mutant: one computed parent is enough.
ReadsEitherParent(w) ==
    LET node == nodes[Claimed(w)]
        ready == worker[w].ready \/ state[node.parents[2]] = "computed"
    IN  /\ At(w, "second_parent")
        /\ worker' = [worker EXCEPT
                ![w].at = IF ready THEN "begin" ELSE "release",
                ![w].ready = FALSE]
        /\ UNCHANGED <<dagVars, state, powers, main, awaited, applied>>

ReadsSecondParent(w) ==
    LET node == nodes[Claimed(w)]
        ready == worker[w].ready /\ state[node.parents[2]] = "computed"
    IN  /\ At(w, "second_parent")
        /\ worker' = [worker EXCEPT
                ![w].at = IF ready THEN "begin" ELSE "release",
                ![w].ready = FALSE]
        /\ UNCHANGED <<dagVars, state, powers, main, awaited, applied>>

\* Mutant: the claim is not given back.
ReleasesNothing(w) ==
    /\ At(w, "release")
    /\ MovesOn(w)
    /\ UNCHANGED <<dagVars, state, powers, main, awaited, applied>>

Releases(w) ==
    /\ At(w, "release")
    /\ state' = [state EXCEPT ![Claimed(w)] = "uncomputed"]
    /\ MovesOn(w)
    /\ UNCHANGED <<dagVars, powers, main, awaited, applied>>

(* func begins: a source needs nothing, a product reads both parents. *)
BeginsFunc(w) ==
    LET p == Claimed(w)
        node == nodes[p]
        prod == IF IsSource(node)
                THEN powers[p].exp
                ELSE powers[node.parents[1]].exp + powers[node.parents[2]].exp
    IN  /\ At(w, "begin")
        /\ applied' = [applied EXCEPT ![p] = @ + 1]
        /\ worker' = [worker EXCEPT ![w].at = "end", ![w].prod = prod]
        /\ UNCHANGED <<dagVars, state, powers, main, awaited>>

FuncThrows(w) ==
    /\ At(w, "end")
    /\ Claimed(w) \in Throwing /\ ~ IsSource(nodes[Claimed(w)])
    /\ GoesTo(w, "threw")
    /\ UNCHANGED <<dagVars, state, powers, main, awaited, applied>>

EndsFunc(w) ==
    LET p == Claimed(w)
    IN  /\ At(w, "end")
        /\ p \notin Throwing \/ IsSource(nodes[p])
        /\ powers' = [powers EXCEPT
                ![p] = Ciphertext(worker[w].prod, "coefficients")]
        /\ worker' = [worker EXCEPT ![w].at = "mark", ![w].prod = 0]
        /\ UNCHANGED <<dagVars, state, main, awaited, applied>>

Marks(w) ==
    /\ At(w, "mark")
    /\ state' = [state EXCEPT ![Claimed(w)] = "computed"]
    /\ MovesOn(w)
    /\ UNCHANGED <<dagVars, powers, main, awaited, applied>>

NodeWorker(w) ==
    \/ Starts(w) \/ ChecksDone(w) \/ Claims(w) \/ PassesBy(w)
    \/ ParentMissing(w) \/ ReadsFirstParent(w) \/ ReadsSecondParent(w)
    \/ Releases(w) \/ BeginsFunc(w) \/ FuncThrows(w) \/ EndsFunc(w) \/ Marks(w)

-----------------------------------------------------------------------------
(* main collects the futures in the order it made them.  One that holds an *)
(* exception throws it out of ComputePowers: the frame is gone, whatever   *)
(* the other workers are doing.                                            *)
AwaitsWorker ==
    /\ main = "apply" /\ awaited < Threads
    /\ worker[awaited + 1].at = "done"
    /\ awaited' = awaited + 1
    /\ UNCHANGED <<dagVars, state, powers, worker, main, applied>>

Rethrows ==
    /\ main = "apply" /\ awaited < Threads
    /\ worker[awaited + 1].at = "threw"
    /\ main' = "threw"
    /\ UNCHANGED <<dagVars, state, powers, worker, awaited, applied>>

\* Mutant: main goes on after the first worker to return.
SwitchesEarly ==
    /\ main = "apply" /\ awaited >= 1
    /\ main' = "switch"
    /\ UNCHANGED <<dagVars, state, powers, worker, awaited, applied>>

Switches ==
    /\ main = "apply" /\ awaited = Threads
    /\ main' = "switch"
    /\ UNCHANGED <<dagVars, state, powers, worker, awaited, applied>>

(* One task of the second phase, in any order, on whichever thread. *)
SwitchTask(p) ==
    /\ main = "switch"
    /\ powers[p].form = "coefficients"
    /\ powers' = [powers EXCEPT ![p].form = FinalForm(p)]
    /\ UNCHANGED <<dagVars, state, worker, main, awaited, applied>>

Switched(p) == powers[p].form = FinalForm(p)

Returns ==
    /\ main = "switch"
    /\ \A p \in targets : Switched(p)
    /\ main' = "returned"
    /\ UNCHANGED <<dagVars, state, powers, worker, awaited, applied>>

Finished == main \in {"returned", "threw"} /\ UNCHANGED vars

Next ==
    \/ Prepare \/ NothingToDo \/ NotConfigured \/ StartApply
    \/ \E w \in Workers : NodeWorker(w)
    \/ AwaitsWorker \/ Rethrows \/ Switches
    \/ \E p \in targets : SwitchTask(p)
    \/ Returns
    \/ Finished

(* Every pool thread and main are scheduled again and again. *)
Fairness ==
    /\ \A w \in Workers : WF_vars(NodeWorker(w))
    /\ WF_vars(AwaitsWorker \/ Rethrows \/ Switches \/ Returns)
    /\ WF_vars(\E p \in targets : SwitchTask(p))

Spec == Init /\ [][Next]_vars /\ Fairness

-----------------------------------------------------------------------------
Holding(w) == worker[w].at \in
    {"first_parent", "second_parent", "release", "begin", "end", "mark"}

TypeOK ==
    /\ DagTypeOK
    /\ main \in {"configure", "apply", "switch", "returned", "threw"}
    /\ awaited \in 0..Threads
    /\ \A p \in DOMAIN state : state[p] \in {"uncomputed", "computing", "computed"}
    /\ \A p \in DOMAIN powers : powers[p] \in [exp : Nat, form : Forms]
    /\ DOMAIN worker = Workers
    /\ main = "apply" =>
        \A w \in Workers : worker[w].idx \in 1..Cardinality(targets)

(* The plan is PlanSound for the parameters' low degree: every parent is a *)
(* target and is computed in an earlier round, and the depth is least.     *)
QueryPlanSound == PlanSound(LowDegree)

(* Whatever the workers' interleaving, a node is claimed by one of them at *)
(* a time, and a claim nobody holds is left by a worker that threw: the    *)
(* compare_exchange on node_states is the only lock there is.              *)
OneWorkerPerNode ==
    main = "apply" =>
        /\ \A v, w \in Workers :
            (v # w /\ Holding(v) /\ Holding(w)) => Claimed(v) # Claimed(w)
        /\ \A p \in targets :
            state[p] = "computing" <=>
                \E w \in Workers :
                    /\ Holding(w) \/ worker[w].at = "threw"
                    /\ Claimed(w) = p

(* A node that is marked computed holds its own power, func was applied to *)
(* it once, and both its parents were marked before it: "Applies a         *)
(* function in a topological order to each node".                          *)
ComputedInOrder ==
    \A p \in DOMAIN state : state[p] = "computed" =>
        /\ powers[p].exp = p
        /\ applied[p] = 1
        /\ ~ IsSource(nodes[p]) =>
            \A i \in {1, 2} : state[nodes[p].parents[i]] = "computed"

(* No ciphertext leaves coefficient form while a worker may still multiply *)
(* with it ("the multiplications must all be done before transforming to   *)
(* NTT form"), and a normal return finds every power in its final form.    *)
FormsSafe ==
    /\ (\E p \in DOMAIN powers : powers[p].form \in {"ntt_high", "ntt_low", "high"})
        => /\ AllComputed
           /\ \A w \in Workers : worker[w].at = "done"
    /\ (main = "returned" /\ DOMAIN powers # {}) =>
        \A p \in targets : powers[p] = Ciphertext(p, FinalForm(p))

(* Workers that keep giving back nodes whose parents are not ready do not  *)
(* do so for ever: with fair threads, a computation that starts returns,   *)
(* or a worker has thrown.                                                 *)
ApplyReturns ==
    main = "apply" ~> \/ main = "returned"
                      \/ \E w \in Workers : worker[w].at = "threw"

=============================================================================
