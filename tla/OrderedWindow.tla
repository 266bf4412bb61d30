--------------------------- MODULE OrderedWindow ---------------------------
(***************************************************************************)
(* Bounded speculative search with in-order delivery.                      *)
(*                                                                         *)
(* src/ordered_window.rs runs the candidates of one grep request on the    *)
(* request's own coordinator and on "extra" runners borrowed from the      *)
(* process-wide executor of src/file_executor.rs, and hands every result   *)
(* to the reducer in candidate order.  All requests share the executor's   *)
(* P-1 CPU credits and P-1 runner tickets.                                 *)
(*                                                                         *)
(* A step is one critical section of the window's mutex, one access to an  *)
(* atomic, or one run of the worker.  A runner of the model is a runner    *)
(* ticket and the leaf it is moved into; its identity stands for the       *)
(* runner_id of the lease, which the leaf never changes.                   *)
(*                                                                         *)
(* A definition named Operator_Mutation is a plausible bug in Operator that *)
(* the properties are tested against; no action uses one.                  *)
(***************************************************************************)
EXTENDS Integers, FiniteSets, Sequences

CONSTANTS
    Requests,   \* grep requests being served at the same time
    Runners,    \* runner tickets that may ever be in circulation
    P,          \* search parallelism: one base lane and P-1 extra ones
    Count,      \* Count[q]: number of candidates of request q
    GenLimit,   \* the largest generation (u64::MAX in the code)
    NoRequest   \* the request of a runner that has none

ASSUME POK == P \in Nat \ {0}
ASSUME CountOK == Count \in [Requests -> Nat]
ASSUME GenLimitOK == GenLimit \in Nat
ASSUME RunnersOK == IsFiniteSet(Runners)
ASSUME RequestsOK == IsFiniteSet(Requests) /\ NoRequest \notin Requests

VARIABLES
    burst,          \* CpuBurstCredits: free extra CPU credits
    leaf_tasks,     \* ExtraTaskTickets: free runner tickets
    extra_pool,     \* the OnceLock holding the pool or its build failure
    extra_disabled, \* set for good by a failed build or a panicking leaf
    cancelled,      \* the request's cancellation token
    generation,     \* generation of the window, and its published atomic
    next_reduce,    \* the candidate the reducer consumes next
    accepting,      \* whether runners may claim and publish
    live_slots,     \* the counter the window keeps of its occupied slots
    slots,          \* the window: one slot per index modulo the width
    pc,             \* where the coordinator of each request is
    plan,           \* fill_epoch's snapshot: generation, tickets wanted
    value,          \* the value the coordinator is about to reduce
    result,         \* what for_each_ordered returned
    delivered,      \* values handed to the reducer, in order
    runner          \* the runner tickets and the leaves that own them

execVars  == <<burst, leaf_tasks, extra_pool, extra_disabled>>
winVars   == <<generation, next_reduce, accepting, live_slots, slots>>
coordVars == <<pc, plan, value, result, delivered>>
vars == <<execVars, cancelled, winVars, coordVars, runner>>

----------------------------------------------------------------------------
(* Slots, runners and values *)

ExtraThreads_OffByOne == P
E == P - 1                        \* extra_threads
Width == P                        \* the window is as wide as the parallelism
Positions == 0 .. Width - 1
Generations == 0 .. GenLimit

Empty == [kind |-> "empty", index |-> 0, gen |-> 0, runner |-> {}]
RunningSlot(i, g, r) == [kind |-> "running", index |-> i, gen |-> g, runner |-> {r}]
ReadySlot(i, g) == [kind |-> "ready", index |-> i, gen |-> g, runner |-> {}]

(* A value is known by the candidate it was computed for and by the        *)
(* generation in which it was computed; "none" before the first one.       *)
Value(i, g) == [index |-> i, gen |-> g]

CoordPC == {"loop", "fill", "tickets", "spawn", "dropTickets", "frontier",
            "peek", "ready", "inline", "reduce", "consume", "exact",
            "advance", "exit", "done"}

(* "ticketed" belongs to a coordinator, "idle" to nobody; the others are   *)
(* points of the leaf that owns the ticket.                                *)
RunnerPC == {"idle", "ticketed", "queued", "burst", "admitted", "claim",
             "claimed", "publish", "refused", "drop", "permit", "unwind",
             "unwindPermit", "disable", "exit"}

IdleRunner == [pc |-> "idle", req |-> NoRequest, gen |-> 0, index |-> 0]

(* Points at which the leaf owns the burst permit it acquired.             *)
PermitPC == {"admitted", "claim", "claimed", "publish", "drop", "permit",
             "unwind", "unwindPermit"}
(* Points at which its lease is bound to a candidate and still armed.      *)
LeasePC == {"claimed", "publish", "refused", "drop", "unwind"}

HoldsPermit(r) == runner[r].pc \in PermitPC
TicketsOf(q) == {r \in Runners : runner[r].pc = "ticketed" /\ runner[r].req = q}

extra_enabled == E > 0 /\ ~extra_disabled
Occupied(q) == {p \in Positions : slots[q][p].kind # "empty"}
ReadySlots == {s \in Requests \X Positions : slots[s[1]][s[2]].kind = "ready"}
ReadySlotsOf(q) == {s \in ReadySlots : s[1] = q}

(* RequestSpecShared::slot: the slot of index i, if it holds that index.   *)
SlotIsNone(q, i) ==
    LET s == slots[q][i % Width] IN s.kind = "empty" \/ s.index # i

(* The speculative part of the window: the frontier itself is excluded.    *)
Window_WithFrontier(q) == {i \in next_reduce[q] .. next_reduce[q] + Width - 1 : i < Count[q]}
Window(q) == {i \in next_reduce[q] + 1 .. next_reduce[q] + Width - 1 : i < Count[q]}
Vacancies(q) == {i \in Window(q) : SlotIsNone(q, i)}

(* WorkCtx::check of a runner's work, and OperationCtx::check.             *)
WorkOK(r) == ~cancelled[runner[r].req] /\ generation[runner[r].req] = runner[r].gen
OperationOK(q) == ~cancelled[q]

----------------------------------------------------------------------------
Init ==
    /\ burst = E
    /\ leaf_tasks = E
    /\ extra_pool = "unbuilt"
    /\ extra_disabled = FALSE
    /\ cancelled = [q \in Requests |-> FALSE]
    /\ generation = [q \in Requests |-> 0]
    /\ next_reduce = [q \in Requests |-> 0]
    /\ accepting = [q \in Requests |-> TRUE]
    /\ live_slots = [q \in Requests |-> 0]
    /\ slots = [q \in Requests |-> [p \in Positions |-> Empty]]
    /\ pc = [q \in Requests |-> "loop"]
    /\ plan = [q \in Requests |-> [gen |-> 0, wanted |-> 0]]
    /\ value = [q \in Requests |-> Value(0, 0)]
    /\ result = [q \in Requests |-> "none"]
    /\ delivered = [q \in Requests |-> <<>>]
    /\ runner = [r \in Runners |-> IdleRunner]

Goto(q, label) == pc' = [pc EXCEPT ![q] = label]
RunnerGoto(r, label) == runner' = [runner EXCEPT ![r].pc = label]
Return(q, outcome) ==
    /\ Goto(q, "exit")
    /\ result' = [result EXCEPT ![q] = outcome]

(* The linear owners: a ticket, a credit, and an occupied slot given back. *)
ReturnTicket_Leaks(r) ==
    /\ UNCHANGED leaf_tasks
    /\ runner' = [runner EXCEPT ![r] = IdleRunner]
ReturnTicket(r) ==
    /\ leaf_tasks' = leaf_tasks + 1
    /\ runner' = [runner EXCEPT ![r] = IdleRunner]
Vacate_Uncounted(q, p) ==
    /\ slots' = [slots EXCEPT ![q][p] = Empty]
    /\ UNCHANGED live_slots
Vacate(q, p) ==
    /\ slots' = [slots EXCEPT ![q][p] = Empty]
    /\ live_slots' = [live_slots EXCEPT ![q] = @ - 1]

(***************************************************************************)
(* The client goes away, or cancels: RequestWorkGuard or its parent token. *)
(***************************************************************************)
Cancel(q) ==
    /\ pc[q] # "done"
    /\ ~cancelled[q]
    /\ cancelled' = [cancelled EXCEPT ![q] = TRUE]
    /\ UNCHANGED <<execVars, winVars, coordVars, runner>>

----------------------------------------------------------------------------
(* The coordinator: for_each_ordered *)

AllReduced_OffByOne(q) == next_reduce[q] + 1 >= Count[q]
AllReduced(q) == next_reduce[q] >= Count[q]

LoopTest(q) ==
    /\ pc[q] = "loop"
    /\ IF AllReduced(q) THEN Return(q, "ok")
       ELSE IF OperationOK(q) THEN Goto(q, "fill") /\ UNCHANGED result
       ELSE Return(q, "cancelled")
    /\ UNCHANGED <<execVars, cancelled, winVars, plan, value, delivered, runner>>

(* fill_snapshot, and how many tickets the fill asks for.                  *)
FillSnapshot(q) ==
    /\ pc[q] = "fill"
    /\ LET n == Cardinality(Vacancies(q)) IN
       IF accepting[q] /\ next_reduce[q] < Count[q] /\ n > 0 /\ extra_enabled
       THEN /\ plan' = [plan EXCEPT ![q] = [gen |-> generation[q],
                                            wanted |-> IF n < E THEN n ELSE E]]
            /\ Goto(q, "tickets")
       ELSE Goto(q, "frontier") /\ UNCHANGED plan
    /\ UNCHANGED <<execVars, cancelled, winVars, value, result, delivered, runner>>

(* try_up_to takes the tickets one by one and stops at the first refusal.  *)
TryTicket(q, r) ==
    /\ pc[q] = "tickets"
    /\ plan[q].wanted > 0
    /\ leaf_tasks > 0
    /\ runner[r].pc = "idle"
    /\ leaf_tasks' = leaf_tasks - 1
    /\ runner' = [runner EXCEPT ![r] =
                    [pc |-> "ticketed", req |-> q, gen |-> plan[q].gen, index |-> 0]]
    /\ plan' = [plan EXCEPT ![q].wanted = @ - 1]
    /\ UNCHANGED <<burst, extra_pool, extra_disabled, cancelled, winVars,
                   pc, value, result, delivered>>

TicketsTaken(q) ==
    /\ pc[q] = "tickets"
    /\ plan[q].wanted = 0 \/ leaf_tasks = 0
    /\ Goto(q, "spawn")
    /\ plan' = [plan EXCEPT ![q].wanted = 0]
    /\ UNCHANGED <<execVars, cancelled, winVars, value, result, delivered, runner>>

(* One turn of the spawning loop.  The pool is built by the first spawn; a *)
(* failed build disables the extra lanes, and the ticket comes back.       *)
Spawn(q, r) ==
    /\ pc[q] = "spawn"
    /\ r \in TicketsOf(q)
    /\ IF OperationOK(q) /\ extra_enabled
       THEN /\ extra_pool' \in (IF extra_pool = "unbuilt" THEN {"built", "failed"}
                                ELSE {extra_pool})
            /\ extra_disabled' = (extra_pool' = "failed")
            /\ IF extra_pool' = "built"
               THEN RunnerGoto(r, "queued") /\ UNCHANGED pc
               ELSE Goto(q, "dropTickets") /\ UNCHANGED runner
       ELSE /\ Goto(q, "dropTickets")
            /\ UNCHANGED <<extra_pool, extra_disabled, runner>>
    /\ UNCHANGED <<burst, leaf_tasks, cancelled, winVars, plan, value, result, delivered>>

DropTicket(q, r) ==
    /\ pc[q] = "dropTickets"
    /\ r \in TicketsOf(q)
    /\ ReturnTicket(r)
    /\ UNCHANGED <<burst, extra_pool, extra_disabled, cancelled, winVars, coordVars>>

SpawnEnd(q) ==
    /\ pc[q] \in {"spawn", "dropTickets"}
    /\ TicketsOf(q) = {}
    /\ Goto(q, "frontier")
    /\ UNCHANGED <<execVars, cancelled, winVars, plan, value, result, delivered, runner>>

(* take_frontier: the check of each turn, then one look under the mutex.   *)
FrontierCheck(q) ==
    /\ pc[q] = "frontier"
    /\ IF OperationOK(q) THEN Goto(q, "peek") /\ UNCHANGED result
       ELSE Return(q, "cancelled")
    /\ UNCHANGED <<execVars, cancelled, winVars, plan, value, delivered, runner>>

IsCurrent(q, s) == s.index = next_reduce[q] /\ s.gen = generation[q]

TakeReady(q) ==
    LET p == next_reduce[q] % Width
        s == slots[q][p] IN
    /\ pc[q] = "peek"
    /\ s.kind = "ready" /\ IsCurrent(q, s)
    /\ Vacate(q, p)
    /\ value' = [value EXCEPT ![q] = Value(s.index, s.gen)]
    /\ Goto(q, "ready")
    /\ UNCHANGED <<execVars, cancelled, generation, next_reduce, accepting,
                   plan, result, delivered, runner>>

HeldByRunner_Ignored(q, s) == FALSE
HeldByRunner(q, s) == s.kind = "running" /\ IsCurrent(q, s)

(* A runner of this generation has it: wait, for at most a slice.          *)
WaitFrontier(q) ==
    LET s == slots[q][next_reduce[q] % Width] IN
    /\ pc[q] = "peek"
    /\ HeldByRunner(q, s)
    /\ Goto(q, "frontier")
    /\ UNCHANGED <<execVars, cancelled, winVars, plan, value, result, delivered, runner>>

GoInline(q) ==
    LET s == slots[q][next_reduce[q] % Width] IN
    /\ pc[q] = "peek"
    /\ ~(s.kind = "ready" /\ IsCurrent(q, s)) /\ ~HeldByRunner(q, s)
    /\ Goto(q, "inline")
    /\ UNCHANGED <<execVars, cancelled, winVars, plan, value, result, delivered, runner>>

(* BurstEnvelope::into_value gives the credit back before the reducer runs. *)
IntoValue_KeepsCredit(q) ==
    /\ pc[q] = "ready"
    /\ Goto(q, "reduce")
    /\ UNCHANGED <<execVars, cancelled, winVars, plan, value, result, delivered, runner>>
IntoValue(q) ==
    /\ pc[q] = "ready"
    /\ burst' = burst + 1
    /\ Goto(q, "reduce")
    /\ UNCHANGED <<leaf_tasks, extra_pool, extra_disabled, cancelled, winVars,
                   plan, value, result, delivered, runner>>

(* The worker on the coordinator's own lane; it may notice a cancellation. *)
InlineWork(q) ==
    /\ pc[q] = "inline"
    /\ \/ /\ value' = [value EXCEPT ![q] = Value(next_reduce[q], generation[q])]
          /\ Goto(q, "reduce")
          /\ UNCHANGED result
       \/ /\ cancelled[q]
          /\ Return(q, "cancelled")
          /\ UNCHANGED value
    /\ UNCHANGED <<execVars, cancelled, winVars, plan, delivered, runner>>

ReduceCheck(q) ==
    /\ pc[q] = "reduce"
    /\ IF OperationOK(q) THEN Goto(q, "consume") /\ UNCHANGED result
       ELSE Return(q, "cancelled")
    /\ UNCHANGED <<execVars, cancelled, winVars, plan, value, delivered, runner>>

Deliver(q) == delivered' = [delivered EXCEPT ![q] = Append(@, value[q])]

(* The reducer keeps going, or has what it needs and breaks.               *)
Consume(q) ==
    /\ pc[q] = "consume"
    /\ Deliver(q)
    /\ \/ Goto(q, "advance") /\ UNCHANGED result
       \/ Return(q, "break")
    /\ UNCHANGED <<execVars, cancelled, winVars, plan, value, runner>>

(* retire_generation: stop accepting, drop every slot with the credits of  *)
(* its ready envelopes, then open the next generation if there is one.     *)
RetireGeneration(q, reactivate) ==
    /\ slots' = [slots EXCEPT ![q] = [p \in Positions |-> Empty]]
    /\ live_slots' = [live_slots EXCEPT ![q] = 0]
    /\ burst' = burst + Cardinality(ReadySlotsOf(q))
    /\ IF generation[q] < GenLimit
       THEN /\ generation' = [generation EXCEPT ![q] = @ + 1]
            /\ accepting' = [accepting EXCEPT ![q] = reactivate]
       ELSE /\ accepting' = [accepting EXCEPT ![q] = FALSE]
            /\ UNCHANGED generation
    /\ UNCHANGED <<leaf_tasks, extra_pool, extra_disabled, next_reduce>>

(* The reducer met a capture overflow: it retires the speculation and      *)
(* searches the candidate again by itself, or gives up on overflow.        *)
ConsumeRetire(q) ==
    /\ pc[q] = "consume"
    /\ Deliver(q)
    /\ RetireGeneration(q, TRUE)
    /\ IF generation[q] < GenLimit
       THEN Goto(q, "exact") /\ UNCHANGED result
       ELSE Return(q, "break")
    /\ UNCHANGED <<cancelled, plan, value, runner>>

ConsumeExact(q) ==
    /\ pc[q] = "exact"
    /\ \/ Goto(q, "advance") /\ UNCHANGED result
       \/ Return(q, "break")
    /\ UNCHANGED <<execVars, cancelled, winVars, plan, value, delivered, runner>>

Advance(q) ==
    /\ pc[q] = "advance"
    /\ next_reduce' = [next_reduce EXCEPT ![q] = @ + 1]
    /\ Goto(q, "loop")
    /\ UNCHANGED <<execVars, cancelled, generation, accepting, live_slots, slots,
                   plan, value, result, delivered, runner>>

(* RetireOnDrop, on every way out.                                         *)
RetireOnExit_Missing(q) ==
    /\ pc[q] = "exit"
    /\ Goto(q, "done")
    /\ UNCHANGED <<execVars, cancelled, winVars, plan, value, result, delivered, runner>>
RetireOnExit(q) ==
    /\ pc[q] = "exit"
    /\ RetireGeneration(q, FALSE)
    /\ Goto(q, "done")
    /\ UNCHANGED <<cancelled, plan, value, result, delivered, runner>>

Coordinator(q) ==
    \/ LoopTest(q) \/ FillSnapshot(q) \/ TicketsTaken(q) \/ SpawnEnd(q)
    \/ \E r \in Runners : TryTicket(q, r) \/ Spawn(q, r) \/ DropTicket(q, r)
    \/ FrontierCheck(q) \/ TakeReady(q) \/ WaitFrontier(q) \/ GoInline(q)
    \/ IntoValue(q) \/ InlineWork(q) \/ ReduceCheck(q)
    \/ Consume(q) \/ ConsumeRetire(q) \/ ConsumeExact(q)
    \/ Advance(q) \/ RetireOnExit(q)

----------------------------------------------------------------------------
(* The runner: the leaf spawned by fill_epoch *)

(* The checks before the acquisition and before the claim.                 *)
StartCheck(r) ==
    /\ runner[r].pc = "queued"
    /\ RunnerGoto(r, IF WorkOK(r) THEN "burst" ELSE "exit")
    /\ UNCHANGED <<execVars, cancelled, winVars, coordVars>>

TryBurst(r) ==
    /\ runner[r].pc = "burst"
    /\ IF extra_enabled /\ burst > 0
       THEN burst' = burst - 1 /\ RunnerGoto(r, "admitted")
       ELSE RunnerGoto(r, "exit") /\ UNCHANGED burst
    /\ UNCHANGED <<leaf_tasks, extra_pool, extra_disabled, cancelled, winVars, coordVars>>

AdmittedCheck(r) ==
    /\ runner[r].pc = "admitted"
    /\ RunnerGoto(r, IF WorkOK(r) THEN "claim" ELSE "permit")
    /\ UNCHANGED <<execVars, cancelled, winVars, coordVars>>

(* try_claim: the first vacant index after the frontier, if the window is  *)
(* still in the runner's generation.                                       *)
WindowOpen_IgnoresAccepting(r) == generation[runner[r].req] = runner[r].gen
WindowOpen(r) == accepting[runner[r].req] /\ generation[runner[r].req] = runner[r].gen

Claim(r, i) ==
    LET q == runner[r].req IN
    /\ slots' = [slots EXCEPT ![q][i % Width] = RunningSlot(i, runner[r].gen, r)]
    /\ live_slots' = [live_slots EXCEPT ![q] = @ + 1]
    /\ runner' = [runner EXCEPT ![r].pc = "claimed", ![r].index = i]

TryClaim(r) ==
    LET vacant == Vacancies(runner[r].req) IN
    /\ runner[r].pc = "claim"
    /\ \/ /\ WindowOpen(r)
          /\ \E i \in vacant : (\A j \in vacant : i <= j) /\ Claim(r, i)
       \/ /\ ~WindowOpen(r) \/ vacant = {}
          /\ RunnerGoto(r, "permit")
          /\ UNCHANGED <<slots, live_slots>>
    /\ UNCHANGED <<execVars, cancelled, generation, next_reduce, accepting, coordVars>>

(* The worker with the checks around it: a value to publish, or an early   *)
(* stop that drops the lease.  A panic of the worker is a value too; one   *)
(* of panic_value unwinds the leaf.                                        *)
Work(r) ==
    /\ runner[r].pc = "claimed"
    /\ \/ WorkOK(r) /\ RunnerGoto(r, "publish")
       \/ ~WorkOK(r) /\ RunnerGoto(r, "drop")
       \/ RunnerGoto(r, "unwind")
    /\ UNCHANGED <<execVars, cancelled, winVars, coordVars>>

(* The exact slot a lease was given: no other may be touched through it.   *)
OwnsSlot(r) ==
    LET s == slots[runner[r].req][runner[r].index % Width] IN
    s = RunningSlot(runner[r].index, runner[r].gen, r)

(* RunningLease::publish.  A refused value is dropped with its permit, and *)
(* the lease, still armed, is dropped after it.                            *)
Publish(r) ==
    LET q == runner[r].req
        i == runner[r].index IN
    /\ runner[r].pc = "publish"
    /\ IF WindowOpen(r) /\ OwnsSlot(r)
       THEN /\ slots' = [slots EXCEPT ![q][i % Width] = ReadySlot(i, runner[r].gen)]
            /\ RunnerGoto(r, "exit")
            /\ UNCHANGED burst
       ELSE /\ burst' = burst + 1
            /\ RunnerGoto(r, "refused")
            /\ UNCHANGED slots
    /\ UNCHANGED <<leaf_tasks, extra_pool, extra_disabled, cancelled, generation,
                   next_reduce, accepting, live_slots, coordVars>>

AfterLease_ReleasesTwice == [drop |-> "permit", unwind |-> "unwindPermit", refused |-> "permit"]
AfterLease == [drop |-> "permit", unwind |-> "unwindPermit", refused |-> "exit"]

LeaseMatches_ByIndex(r) ==
    LET s == slots[runner[r].req][runner[r].index % Width] IN
    s.kind = "running" /\ s.index = runner[r].index
LeaseMatches_Never(r) == FALSE
LeaseMatches(r) == OwnsSlot(r)

(* Drop of an armed RunningLease: clear its slot, then drop its permit.    *)
LeaseDrop(r) ==
    LET q == runner[r].req
        i == runner[r].index IN
    /\ runner[r].pc \in {"drop", "unwind", "refused"}
    /\ IF LeaseMatches(r) THEN Vacate(q, i % Width)
       ELSE UNCHANGED <<slots, live_slots>>
    /\ RunnerGoto(r, AfterLease[runner[r].pc])
    /\ UNCHANGED <<execVars, cancelled, generation, next_reduce, accepting, coordVars>>

PermitDrop(r) ==
    /\ runner[r].pc \in {"permit", "unwindPermit"}
    /\ burst' = burst + 1
    /\ RunnerGoto(r, IF runner[r].pc = "permit" THEN "exit" ELSE "disable")
    /\ UNCHANGED <<leaf_tasks, extra_pool, extra_disabled, cancelled, winVars, coordVars>>

DisableAfterPanic(r) ==
    /\ runner[r].pc = "disable"
    /\ extra_disabled' = TRUE
    /\ RunnerGoto(r, "exit")
    /\ UNCHANGED <<burst, leaf_tasks, extra_pool, cancelled, winVars, coordVars>>

LeafExit(r) ==
    /\ runner[r].pc = "exit"
    /\ ReturnTicket(r)
    /\ UNCHANGED <<burst, extra_pool, extra_disabled, cancelled, winVars, coordVars>>

RunnerStep(r) ==
    \/ StartCheck(r) \/ TryBurst(r) \/ AdmittedCheck(r) \/ TryClaim(r) \/ Work(r)
    \/ Publish(r) \/ LeaseDrop(r) \/ PermitDrop(r) \/ DisableAfterPanic(r) \/ LeafExit(r)

----------------------------------------------------------------------------
Next ==
    \/ \E q \in Requests : Coordinator(q) \/ Cancel(q)
    \/ \E r \in Runners : RunnerStep(r)

Spec == Init /\ [][Next]_vars

(* Every coordinator and every pool thread is eventually scheduled, and    *)
(* searching one file terminates.  Clients need not cancel.                *)
FairSpec ==
    /\ Spec
    /\ \A q \in Requests : WF_vars(Coordinator(q))
    /\ \A r \in Runners : WF_vars(RunnerStep(r))
----------------------------------------------------------------------------
(* Properties *)

Slots == {Empty}
    \cup [kind : {"running"}, index : Nat, gen : Generations, runner : {{r} : r \in Runners}]
    \cup [kind : {"ready"}, index : Nat, gen : Generations, runner : {{}}]

ExecutorOK ==
    /\ extra_pool \in {"unbuilt", "built", "failed"}
    /\ extra_disabled \in BOOLEAN
WindowOK ==
    /\ generation \in [Requests -> Generations]
    /\ next_reduce \in [Requests -> Nat]
    /\ accepting \in [Requests -> BOOLEAN]
    /\ slots \in [Requests -> [Positions -> Slots]]
CoordinatorOK ==
    /\ pc \in [Requests -> CoordPC]
    /\ plan \in [Requests -> [gen : Generations, wanted : 0 .. E]]
    /\ value \in [Requests -> [index : Nat, gen : Generations]]
    /\ result \in [Requests -> {"none", "ok", "break", "cancelled"}]
    /\ delivered \in [Requests -> Seq([index : Nat, gen : Generations])]
RunnerOK ==
    /\ runner \in [Runners -> [pc : RunnerPC, req : Requests \cup {NoRequest},
                               gen : Generations, index : Nat]]
    /\ \A r \in Runners : runner[r].req = NoRequest <=> runner[r].pc = "idle"

(* Every variable keeps its shape, and the counters stay within the lanes: *)
(* in particular none of them ever underflows its unsigned type.           *)
TypeOK ==
    /\ ExecutorOK /\ WindowOK /\ CoordinatorOK /\ RunnerOK
    /\ cancelled \in [Requests -> BOOLEAN]
    /\ burst \in 0 .. E
    /\ leaf_tasks \in 0 .. E
    /\ live_slots \in [Requests -> 0 .. Width]

(* Every extra CPU credit has exactly one owner - the executor, a runner,  *)
(* a ready result, or a coordinator unwrapping one - whatever the order of *)
(* claims, publications, retirements, cancellations and panics.            *)
PermitRunners == {r \in Runners : HoldsPermit(r)}
Unwrapping == {q \in Requests : pc[q] = "ready"}
CreditConservation ==
    burst + Cardinality(PermitRunners) + Cardinality(Unwrapping)
          + Cardinality(ReadySlots) = E

(* Every runner ticket is free or belongs to one coordinator or leaf.      *)
Busy == {r \in Runners : runner[r].pc # "idle"}
TicketConservation == leaf_tasks + Cardinality(Busy) = E

(* The window's own count is right and one lane always stays with the      *)
(* coordinator (the debug_assert of try_claim).                            *)
LiveSlotsCount ==
    \A q \in Requests : /\ live_slots[q] = Cardinality(Occupied(q))
                        /\ live_slots[q] < Width

(* A slot marked running belongs to a live leaf of the current generation  *)
(* that will publish into it or clear it, so the coordinator never waits   *)
(* for nobody; and a live lease of the current generation still has its    *)
(* slot, so nobody overwrote or cleared it.                                *)
SlotHasItsRunner ==
    \A q \in Requests, p \in Positions :
        slots[q][p].kind = "running" =>
            \E r \in Runners : /\ runner[r].pc \in LeasePC \ {"refused"}
                              /\ runner[r].req = q
                              /\ slots[q][p] = RunningSlot(runner[r].index, runner[r].gen, r)
                              /\ runner[r].index % Width = p
                              /\ runner[r].gen = generation[q]
LeaseHasItsSlot ==
    \A r \in Runners :
        /\ runner[r].pc \in {"claimed", "publish", "drop", "unwind"}
        /\ accepting[runner[r].req]
        /\ runner[r].gen = generation[runner[r].req]
        => OwnsSlot(r)

(* Slots only hold candidates of the window, in the current generation;    *)
(* from the moment the frontier is taken until the window advances, no     *)
(* slot holds the frontier (the debug_assert of advance).                  *)
Reducing == {"ready", "inline", "reduce", "consume", "exact", "advance"}
SlotsInWindow ==
    \A q \in Requests, p \in Positions :
        LET s == slots[q][p] IN
        s.kind # "empty" =>
            /\ s.gen = generation[q]
            /\ s.index % Width = p
            /\ s.index < Count[q]
            /\ s.index >= next_reduce[q] + (IF pc[q] \in Reducing THEN 1 ELSE 0)
            /\ s.index < next_reduce[q] + Width

(* No candidate is searched twice in one generation: not by two runners,   *)
(* and not by a runner while the coordinator searches it inline.           *)
NoDoubleSearch ==
    \A r \in Runners :
        LET q == runner[r].req IN
        (runner[r].pc = "claimed" /\ runner[r].gen = generation[q] /\ accepting[q]) =>
            /\ pc[q] \in {"inline", "exact"} => runner[r].index > next_reduce[q]
            /\ \A s \in Runners \ {r} :
                   (runner[s].pc = "claimed" /\ runner[s].req = q /\ runner[s].gen = generation[q])
                   => runner[s].index # runner[r].index

(* A finished request leaves nothing behind: no leaf that outlives it can  *)
(* put a result into its window again.                                     *)
DoneIsClean ==
    \A q \in Requests : pc[q] = "done" => /\ Occupied(q) = {}
                                          /\ ~accepting[q]

(* The slots of a window and the leaves that search for it agree: nobody   *)
(* waits for a leaf that is gone, no leaf loses its slot to another, and   *)
(* nothing is searched twice or left behind.                               *)
SlotsAreOwned ==
    TypeOK /\ LiveSlotsCount /\ SlotHasItsRunner /\ LeaseHasItsSlot /\ NoDoubleSearch
                   /\ DoneIsClean

(* The README's bound: R requests search on at most R + P - 1 lanes.       *)
Lanes == {q \in Requests : pc[q] \in {"inline", "exact"}}
LaneBound == Cardinality({r \in Runners : runner[r].pc = "claimed"}) + Cardinality(Lanes)
                <= Cardinality(Requests) + P - 1

(* What the requests share stays whole on every way out of a leaf, and no  *)
(* interleaving of the requests uses more lanes than there are.            *)
LanesAreShared == CreditConservation /\ TicketConservation /\ LaneBound

(* The window implements OrderedDelivery: in order, exactly once, never a  *)
(* result of a retired generation, whichever lane computed it.             *)
Abstract == INSTANCE OrderedDelivery WITH
    Requests <- Requests, Count <- Count, GenLimit <- GenLimit,
    cancelled <- cancelled, generation <- generation,
    delivered <- delivered, result <- result
InOrderDelivery == Abstract!Spec

(* Every request returns, cancelled or not: no wait at the frontier lasts  *)
(* for ever.                                                               *)
EveryRequestReturns == \A q \in Requests : <>(pc[q] = "done")

(* Once the requests are over all credits and tickets come back.           *)
LanesComeBack == <>[](burst = E /\ leaf_tasks = E)

(* A grep ends, and what it borrowed is there for the next one.            *)
RequestsEnd == EveryRequestReturns /\ LanesComeBack
=============================================================================
